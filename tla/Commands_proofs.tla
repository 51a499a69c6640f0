--------------------------- MODULE Commands_proofs ---------------------------
(***************************************************************************)
(* Proofs about the runs of commands: xargs gives every item to one child, *)
(* in waves, and loses no failure; curl sends only what the policy allows; *)
(* the lock of a database that runs of sqlite3 share has one owner, and    *)
(* the file holds what the runs that wrote it made of it one after the     *)
(* other.                                                                  *)
(***************************************************************************)
EXTENDS Xargs, Curl, Sqlite, SequenceTheorems, FiniteSetTheorems, Lemmas

-----------------------------------------------------------------------------
(* xargs.                                                                    *)

XargsFields == {"phase", "items", "maxArgs", "replacement", "maxProcesses", "invocations", "next",
                "running", "results", "stdout", "code"}
AtOnce(st) == Larger(st.maxProcesses, 1)
ListsOf(st) == buildXargsInvocations(st.items, st.maxArgs, st.replacement)
Answered(st, i) ==
  \E code \in XargsCodes : st.results[i] = [stdout |-> st.invocations[i], exitCode |-> code]

XargsShaped(st) ==
  /\ DOMAIN st = XargsFields
  /\ st.phase \in {"split", "launch", "wait", "done"}
  /\ st.items \in Seq(Items) /\ st.maxArgs \in Nat /\ st.replacement \in BOOLEAN /\ st.maxProcesses \in Nat

\* Before the lists are made, and when there are none to make.
XargsIdle(st) ==
  /\ st.invocations = <<>> /\ st.results = <<>> /\ st.running = {}
  /\ st.stdout = <<>> /\ st.code = 0 /\ st.next = 1
  /\ st.phase \in {"split", "done"} /\ (st.phase = "done" => st.items = <<>>)

\* The lists up to next have been given to children, the last wave of them may still run.
XargsRuns(st) ==
  /\ st.items # <<>> /\ st.phase # "split"
  /\ st.invocations = ListsOf(st)
  /\ Len(st.invocations) \in Nat /\ DOMAIN st.invocations = 1 .. Len(st.invocations)
  /\ DOMAIN st.results = 1 .. Len(st.invocations)
  /\ st.next \in 1 .. Len(st.invocations) + 1
  /\ st.running \subseteq 1 .. st.next - 1
  /\ \A i \in st.running : st.next - AtOnce(st) <= i
  /\ \A i \in 1 .. Len(st.invocations) :
       IF i < st.next /\ i \notin st.running THEN Answered(st, i) ELSE st.results[i] = NotYet
  /\ st.phase # "wait" => st.running = {}
  /\ st.phase = "done" =>
       /\ st.next = Len(st.invocations) + 1
       /\ st.stdout = st.items /\ st.code = LastFailure(st.results)

XargsInv ==
  /\ command = "xargs"
  /\ XargsShaped(state)
  /\ XargsIdle(state) \/ XargsRuns(state)

-----------------------------------------------------------------------------
\* A sequence of lists is flattened from the front.
LEMMA Flattened ==
  ASSUME NEW lists, NEW m \in Nat \ {0}, Len(lists) = m, NEW F,
         \A i \in 1 .. m : F[i] = IF i = 1 THEN lists[i] ELSE F[i - 1] \o lists[i]
  PROVE  Seqs!FlattenSeq(lists) = F[m]
<1> DEFINE Is(f) == f = [i \in 1 .. m |-> IF i = 1 THEN lists[i] ELSE f[i - 1] \o lists[i]]
           G == CHOOSE f : Is(f)
           T == {k \in 0 .. m - 1 : G[k + 1] = F[k + 1]}
<1>1. Is(G)
  <2> DEFINE H == [i \in 1 .. m |-> F[i]]
  <2>1. Is(H)
    <3>1. \A i \in 1 .. m : H[i] = IF i = 1 THEN lists[i] ELSE H[i - 1] \o lists[i]
      <4>1. \A i \in 1 .. m : i = 1 \/ i - 1 \in 1 .. m
        OBVIOUS
      <4> QED BY <4>1
    <3>2. H = [i \in 1 .. m |-> H[i]]
      OBVIOUS
    <3> HIDE DEF H
    <3> QED BY <3>1, <3>2
  <2> HIDE DEF Is
  <2> QED BY <2>1
<1>2. Seqs!FlattenSeq(lists) = G[m]
  BY DEF Seqs!FlattenSeq
<1> HIDE DEF G
<1>3. \A i \in 1 .. m : G[i] = IF i = 1 THEN lists[i] ELSE G[i - 1] \o lists[i]
  BY <1>1
<1>4. 0 \in T
  BY <1>1
<1>5. \A k \in 0 .. (m - 1) - 1 : k \in T => k + 1 \in T
  <2> SUFFICES ASSUME NEW k \in 0 .. (m - 1) - 1, G[k + 1] = F[k + 1]
      PROVE  G[(k + 1) + 1] = F[(k + 1) + 1]
    OBVIOUS
  <2>1. k + 2 \in 1 .. m /\ k + 2 # 1 /\ (k + 2) - 1 = k + 1 /\ (k + 1) + 1 = k + 2
    OBVIOUS
  <2>2. G[k + 2] = G[k + 1] \o lists[k + 2]
    BY <1>3, <2>1
  <2>3. F[k + 2] = F[k + 1] \o lists[k + 2]
    BY <2>1
  <2> QED BY <2>1, <2>2, <2>3
<1>6. m - 1 \in T
  <2> HIDE DEF T
  <2>1. m - 1 \in Nat
    OBVIOUS
  <2>2. 0 .. m - 1 \subseteq T
    BY <2>1, <1>4, <1>5, InductTo
  <2> QED BY <2>1, <2>2
<1> QED BY <1>2, <1>6

\* Where the i-th list ends.
Cut(items, n, i) == Smaller(i * n, Len(items))

\* There is a batch more than those that are full, and each begins inside.
LEMMA Cuts ==
  ASSUME NEW length \in Nat \ {0}, NEW n \in Nat \ {0}, NEW m, m = (length + n - 1) \div n
  PROVE  /\ m \in Nat \ {0}
         /\ length <= m * n
         /\ \A i \in 1 .. m : (i - 1) * n < length
<1> DEFINE a == length + n - 1
           r == a % n
<1>1. a \in Nat /\ a >= n
  OBVIOUS
<1> HIDE DEF a
<1>2. m \in Int /\ r \in 0 .. n - 1 /\ a = n * m + r
  BY <1>1 DEF a
<1> HIDE DEF r
<1>3. m >= 1
  <2>1. m >= 1 \/ n * m <= 0
    BY <1>2
  <2> QED BY <2>1, <1>1, <1>2
<1>4. m * n = n * m
  BY <1>2
<1>5. length <= m * n
  BY <1>2, <1>4 DEF a
<1>6. ASSUME NEW i \in 1 .. m PROVE (i - 1) * n < length
  <2>1. i \in Int /\ i <= m
    BY <1>2
  <2>2. (i - 1) * n <= (m - 1) * n
    BY <1>2, <2>1
  <2>3. (m - 1) * n = m * n - n
    BY <1>2
  <2> QED BY <1>2, <1>4, <2>1, <2>2, <2>3 DEF a
<1> QED BY <1>2, <1>3, <1>5, <1>6

\* Put together again, the lists are the items.
LEMMA BatchesDeliver ==
  ASSUME NEW S, NEW items \in Seq(S), items # <<>>, NEW n \in Nat \ {0}
  PROVE  LET lists == Batches(items, n) IN
         /\ Len(lists) \in Nat \ {0} /\ lists = [i \in 1 .. Len(lists) |-> lists[i]]
         /\ Seqs!FlattenSeq(lists) = items
         /\ \A i \in 1 .. Len(lists) : Len(lists[i]) \in Nat /\ Len(lists[i]) <= n
<1> DEFINE lists == Batches(items, n)
           m == (Len(items) + n - 1) \div n
           cut(i) == Cut(items, n, i)
           F == [i \in 1 .. m |-> SubSeq(items, 1, cut(i))]
<1>1. Len(items) \in Nat \ {0}
  BY EmptySeq
<1>2. m \in Nat \ {0} /\ Len(items) <= m * n /\ \A i \in 1 .. m : (i - 1) * n < Len(items)
  BY <1>1, Cuts
<1>3. lists = [i \in 1 .. m |-> SubSeq(items, (i - 1) * n + 1, cut(i))]
  BY DEF Batches, Cut
<1> HIDE DEF lists, m
<1>4. Len(lists) = m /\ lists = [i \in 1 .. Len(lists) |-> lists[i]]
  <2>1. Len(lists) = m
    BY <1>2, <1>3
  <2> QED BY <1>3, <2>1
<1>5. ASSUME NEW i \in 1 .. m
      PROVE  /\ (i - 1) * n \in Nat /\ (i - 1) * n <= cut(i) /\ cut(i) \in 0 .. Len(items)
             /\ cut(i) <= (i - 1) * n + n
             /\ (i - 1) * n = IF i = 1 THEN 0 ELSE cut(i - 1)
  <2>1. i \in Nat /\ i >= 1 /\ m \in Nat
    BY <1>2
  <2>2. (i - 1) * n \in Nat /\ i * n = (i - 1) * n + n /\ i * n \in Nat
    BY <2>1
  <2>3. (i - 1) * n < Len(items)
    BY <1>2
  <2>4. i = 1 => (i - 1) * n = 0
    OBVIOUS
  <2>5. Cut(items, n, i - 1) = (i - 1) * n
    BY <2>2, <2>3, <1>1 DEF Cut, Smaller
  <2> QED BY <2>1, <2>2, <2>3, <2>4, <2>5, <1>1 DEF Cut, Smaller
<1> HIDE DEF cut
<1>6. ASSUME NEW i \in 1 .. m PROVE F[i] = IF i = 1 THEN lists[i] ELSE F[i - 1] \o lists[i]
  <2>1. CASE i = 1
    <3>1. (i - 1) * n + 1 = 1
      BY <1>5, <2>1
    <3> QED BY <2>1, <3>1, <1>3
  <2>2. CASE i # 1
    <3>1. i - 1 \in 1 .. m
      BY <1>2, <2>2
    <3>2. F[i - 1] = SubSeq(items, 1, cut(i - 1)) /\ lists[i] = SubSeq(items, cut(i - 1) + 1, cut(i))
      BY <1>3, <1>5, <2>2, <3>1
    <3>3. cut(i - 1) \in 0 .. Len(items) /\ cut(i) \in cut(i - 1) .. Len(items)
      <4>1. cut(i - 1) = (i - 1) * n /\ (i - 1) * n \in Nat /\ (i - 1) * n <= cut(i) /\ cut(i) \in 0 .. Len(items)
        BY <1>5, <2>2
      <4> HIDE DEF F
      <4> QED BY <4>1, <1>1
    <3>4. SubSeq(items, 1, cut(i - 1)) \o SubSeq(items, cut(i - 1) + 1, cut(i)) = SubSeq(items, 1, cut(i))
      <4> DEFINE b == cut(i - 1)
                 c == cut(i)
      <4>1. b \in (1 - 1) .. Len(items) /\ c \in b .. Len(items) /\ 1 \in 1 .. Len(items) + 1
        BY <1>1, <3>3
      <4> HIDE DEF b, c, F
      <4>2. SubSeq(items, 1, b) \o SubSeq(items, b + 1, c) = SubSeq(items, 1, c)
        BY <4>1, ConcatAdjacentSubSeq
      <4> QED BY <4>2 DEF b, c
    <3> QED BY <2>2, <3>2, <3>4
  <2> QED BY <2>1, <2>2
<1>7. F[m] = items
  <2>1. cut(m) = Len(items)
    BY <1>1, <1>2 DEF cut, Cut, Smaller
  <2>2. m \in 1 .. m
    BY <1>2
  <2> QED BY <2>1, <2>2, SubSeqFull
<1>8. \A i \in 1 .. m : F[i] = IF i = 1 THEN lists[i] ELSE F[i - 1] \o lists[i]
  BY <1>6
<1>9. Seqs!FlattenSeq(lists) = items
  <2> HIDE DEF F
  <2> QED BY <1>2, <1>4, <1>7, <1>8, Flattened
<1>10. ASSUME NEW i \in 1 .. m PROVE Len(lists[i]) \in Nat /\ Len(lists[i]) <= n
  <2> DEFINE a == (i - 1) * n
             b == cut(i)
  <2>1. a \in Nat /\ a <= b /\ b \in 0 .. Len(items) /\ b <= a + n
    BY <1>5
  <2>2. lists[i] = SubSeq(items, a + 1, b)
    BY <1>3
  <2> HIDE DEF a, b
  <2>3. \A j \in a + 1 .. b : items[j] \in S
    <3> SUFFICES ASSUME NEW j \in a + 1 .. b PROVE items[j] \in S
      OBVIOUS
    <3>1. j \in 1 .. Len(items)
      BY <2>1, <1>1
    <3> QED BY <3>1, ElementOfSeq
  <2>4. Len(lists[i]) = IF a + 1 <= b THEN b - (a + 1) + 1 ELSE 0
    <3>1. a + 1 \in Int /\ b \in Int
      BY <2>1
    <3> QED BY <2>2, <2>3, <3>1, SubSeqProperties
  <2> QED BY <2>1, <2>4
<1> QED BY <1>2, <1>4, <1>9, <1>10 DEF lists

\* However buildXargsInvocations cuts the items, put together the lists are the
\* items, and none is longer than -n allows.
LEMMA ListsDeliver ==
  ASSUME NEW st, XargsShaped(st), st.items # <<>>
  PROVE  /\ Len(ListsOf(st)) \in Nat \ {0} /\ DOMAIN ListsOf(st) = 1 .. Len(ListsOf(st))
         /\ ListsOf(st) = [i \in 1 .. Len(ListsOf(st)) |-> ListsOf(st)[i]]
         /\ Seqs!FlattenSeq(ListsOf(st)) = st.items
         /\ st.maxArgs > 0 => \A i \in 1 .. Len(ListsOf(st)) : Len(ListsOf(st)[i]) <= st.maxArgs
<1> DEFINE items == st.items
           n == IF st.replacement THEN 1 ELSE st.maxArgs
<1>1. items \in Seq(Items) /\ st.maxArgs \in Nat
  BY DEF XargsShaped
<1>2. CASE st.replacement \/ st.maxArgs > 0
  <2>1. n \in Nat \ {0} /\ (st.maxArgs > 0 => n <= st.maxArgs) /\ ListsOf(st) = Batches(items, n)
    BY <1>1, <1>2 DEF ListsOf, buildXargsInvocations
  <2> HIDE DEF n
  <2> DEFINE lists == Batches(items, n)
  <2>2. /\ Len(lists) \in Nat \ {0} /\ lists = [i \in 1 .. Len(lists) |-> lists[i]]
        /\ Seqs!FlattenSeq(lists) = items
        /\ \A i \in 1 .. Len(lists) : Len(lists[i]) \in Nat /\ Len(lists[i]) <= n
    BY <1>1, <2>1, BatchesDeliver
  <2> HIDE DEF lists
  <2>3. DOMAIN lists = 1 .. Len(lists)
    BY <2>2
  <2>4. st.maxArgs > 0 => \A i \in 1 .. Len(lists) : Len(lists[i]) <= st.maxArgs
    <3> SUFFICES ASSUME st.maxArgs > 0, NEW i \in 1 .. Len(lists) PROVE Len(lists[i]) <= st.maxArgs
      OBVIOUS
    <3>1. Len(lists[i]) \in Nat /\ Len(lists[i]) <= n
      BY <2>2
    <3> QED BY <1>1, <2>1, <3>1
  <2> QED BY <2>1, <2>2, <2>3, <2>4 DEF lists
<1>3. CASE ~(st.replacement \/ st.maxArgs > 0)
  <2> DEFINE lists == <<items>>
  <2>1. ListsOf(st) = lists
    BY <1>3 DEF ListsOf, buildXargsInvocations
  <2>2. Len(lists) = 1 /\ DOMAIN lists = 1 .. 1 /\ lists = [i \in 1 .. 1 |-> lists[i]] /\ lists[1] = items
    OBVIOUS
  <2>3. Seqs!FlattenSeq(lists) = items
    <3> DEFINE F == [i \in 1 .. 1 |-> items]
    <3>1. \A i \in 1 .. 1 : F[i] = IF i = 1 THEN lists[i] ELSE F[i - 1] \o lists[i]
      OBVIOUS
    <3>2. F[1] = items
      OBVIOUS
    <3> DEFINE m == 1
    <3>3. m \in Nat \ {0} /\ Len(lists) = m
          /\ \A i \in 1 .. m : F[i] = IF i = 1 THEN lists[i] ELSE F[i - 1] \o lists[i]
      BY <3>1
    <3>4. F[m] = items
      BY <3>2
    <3> HIDE DEF F, lists, m
    <3> QED BY <3>3, <3>4, Flattened
  <2> QED BY <1>3, <2>1, <2>2, <2>3
<1> QED BY <1>2, <1>3

\* The exit code is 0 only if all of them are.
LEMMA LastFailureTells ==
  ASSUME NEW n \in Nat, NEW results, DOMAIN results = 1 .. n
  PROVE  LastFailure(results) = 0 <=> \A i \in 1 .. n : results[i].exitCode = 0
<1> DEFINE failed == {i \in DOMAIN results : results[i].exitCode # 0}
<1>1. CASE failed = {}
  BY <1>1 DEF LastFailure
<1>2. CASE failed # {}
  <2>1. failed \subseteq 1 .. n
    OBVIOUS
  <2> DEFINE last == Sets!Max(failed)
  <2>2. last \in failed
    <3> HIDE DEF failed
    <3>1. PICK x \in failed : \A y \in failed : y <= x
      BY <1>2, <2>1, MaximumExists
    <3>2. \A y \in failed : x >= y
      BY <2>1, <3>1
    <3> QED BY <3>2 DEF Sets!Max
  <2> HIDE DEF last
  <2>3. LastFailure(results) = results[last].exitCode
    BY <1>2 DEF LastFailure, last
  <2> QED BY <2>2, <2>3
<1> QED BY <1>1, <1>2

\* A wave is as many of the lists that are left as may run at once.
LEMMA WaveIs ==
  ASSUME XargsShaped(state), XargsRuns(state), state.next <= Len(state.invocations)
  PROVE  LET end == Smaller(state.next + AtOnce(state) - 1, Len(state.invocations)) IN
         /\ AtOnce(state) \in Nat \ {0}
         /\ end \in state.next .. Len(state.invocations) /\ end <= state.next + AtOnce(state) - 1
         /\ Wave = state.next .. end
         /\ Cardinality(Wave) = end - state.next + 1
<1> DEFINE end == Smaller(state.next + AtOnce(state) - 1, Len(state.invocations))
<1>1. AtOnce(state) \in Nat \ {0}
  BY DEF AtOnce, Larger, XargsShaped
<1>2. state.next \in Nat /\ Len(state.invocations) \in Nat
  BY DEF XargsRuns
<1>3. end \in state.next .. Len(state.invocations) /\ end <= state.next + AtOnce(state) - 1
  BY <1>1, <1>2 DEF Smaller
<1>4. Wave = state.next .. end
  BY DEF Wave, AtOnce
<1> HIDE DEF end
<1>5. Cardinality(Wave) = end - state.next + 1
  <2>1. state.next \in Int /\ end \in Int /\ ~(state.next > end)
    BY <1>2, <1>3
  <2> QED BY <2>1, <1>4, FS_Interval
<1> QED BY <1>1, <1>3, <1>4, <1>5 DEF end

\* Splitting makes the lists, or ends a run that has no items.
LEMMA SplitKeeps ==
  ASSUME XargsInv, XargsSplit
  PROVE  XargsInv'
<1> DEFINE t == state'
           lists == ListsOf(state)
<1>1. command = "xargs" /\ state.phase = "split" /\ XargsShaped(state) /\ XargsIdle(state)
  BY DEF XargsInv, XargsSplit, Runs, XargsRuns
<1>2. CASE state.items = <<>>
  <2>1. command' = "xargs" /\ t = [state EXCEPT !.phase = "done", !.code = 0]
    BY <1>1, <1>2 DEF XargsSplit, Becomes, Done
  <2> HIDE DEF t
  <2>2. /\ DOMAIN t = XargsFields /\ t.phase = "done" /\ t.code = 0
        /\ \A f \in XargsFields \ {"phase", "code"} : t[f] = state[f]
    BY <1>1, <2>1 DEF XargsShaped, XargsFields
  <2>3. XargsShaped(t)
    BY <1>1, <2>2 DEF XargsShaped, XargsFields
  <2>4. XargsIdle(t)
    BY <1>1, <1>2, <2>2 DEF XargsIdle, XargsFields
  <2> QED BY <2>1, <2>3, <2>4 DEF XargsInv, t
<1>3. CASE state.items # <<>>
  <2> DEFINE results == [i \in DOMAIN lists |-> NotYet]
  <2>1. command' = "xargs" /\ t = [state EXCEPT !.phase = "launch", !.invocations = lists, !.results = results]
    BY <1>1, <1>3 DEF XargsSplit, Becomes, ListsOf
  <2>2. /\ Len(lists) \in Nat \ {0} /\ DOMAIN lists = 1 .. Len(lists)
    BY <1>1, <1>3, ListsDeliver
  <2>3. DOMAIN results = 1 .. Len(lists) /\ \A i \in 1 .. Len(lists) : results[i] = NotYet
    BY <2>2
  <2> HIDE DEF t, lists, results
  <2>4. /\ DOMAIN t = XargsFields /\ t.phase = "launch" /\ t.invocations = lists /\ t.results = results
        /\ \A f \in XargsFields \ {"phase", "invocations", "results"} : t[f] = state[f]
    BY <1>1, <2>1 DEF XargsShaped, XargsFields
  <2>5. /\ t.items = state.items /\ t.maxArgs = state.maxArgs /\ t.replacement = state.replacement
        /\ t.maxProcesses = state.maxProcesses /\ t.next = 1 /\ t.running = {}
    BY <1>1, <2>4 DEF XargsFields, XargsIdle
  <2>6. XargsShaped(t)
    BY <1>1, <2>4, <2>5 DEF XargsShaped
  <2>7. ListsOf(t) = lists
    BY <2>5 DEF ListsOf, lists
  <2>8. XargsRuns(t)
    BY <1>3, <2>2, <2>3, <2>4, <2>5, <2>7 DEF XargsRuns
  <2> QED BY <2>1, <2>6, <2>8 DEF XargsInv, t
<1> QED BY <1>2, <1>3

\* A wave takes the lists that follow.
LEMMA LaunchKeeps ==
  ASSUME XargsInv, XargsLaunch
  PROVE  XargsInv'
<1> DEFINE t == state'
           end == Smaller(state.next + AtOnce(state) - 1, Len(state.invocations))
<1>1. command = "xargs" /\ state.phase = "launch" /\ XargsShaped(state) /\ XargsRuns(state)
      /\ state.next <= Len(state.invocations)
  BY DEF XargsInv, XargsLaunch, Runs, XargsIdle
<1>2. /\ AtOnce(state) \in Nat \ {0}
      /\ end \in state.next .. Len(state.invocations) /\ end <= state.next + AtOnce(state) - 1
      /\ Wave = state.next .. end
      /\ Cardinality(Wave) = end - state.next + 1
  BY <1>1, WaveIs
<1>3. command' = "xargs"
      /\ t = [state EXCEPT !.phase = "wait", !.running = Wave, !.next = state.next + Cardinality(Wave)]
  BY <1>1 DEF XargsLaunch, Becomes
<1> HIDE DEF t, end
<1>4. /\ DOMAIN t = XargsFields /\ t.phase = "wait" /\ t.running = Wave /\ t.next = state.next + Cardinality(Wave)
      /\ \A f \in XargsFields \ {"phase", "running", "next"} : t[f] = state[f]
  BY <1>1, <1>3 DEF XargsShaped, XargsFields
<1>5. /\ t.items = state.items /\ t.maxArgs = state.maxArgs /\ t.replacement = state.replacement
      /\ t.maxProcesses = state.maxProcesses /\ t.invocations = state.invocations /\ t.results = state.results
      /\ state.next \in Nat /\ Len(state.invocations) \in Nat
  BY <1>1, <1>4 DEF XargsFields, XargsRuns
<1>6. t.next = end + 1
  BY <1>2, <1>4, <1>5
<1>7. XargsShaped(t)
  BY <1>1, <1>4, <1>5 DEF XargsShaped
<1>8. AtOnce(t) = AtOnce(state) /\ ListsOf(t) = ListsOf(state)
  BY <1>5 DEF AtOnce, ListsOf
<1>9. \A i \in 1 .. Len(t.invocations) :
        IF i < t.next /\ i \notin t.running THEN Answered(t, i) ELSE t.results[i] = NotYet
  <2> SUFFICES ASSUME NEW i \in 1 .. Len(t.invocations)
      PROVE IF i < t.next /\ i \notin t.running THEN Answered(t, i) ELSE t.results[i] = NotYet
    OBVIOUS
  <2>1. IF i < state.next THEN Answered(state, i) ELSE state.results[i] = NotYet
    BY <1>1, <1>5 DEF XargsRuns
  <2>2. Answered(state, i) = Answered(t, i)
    BY <1>5 DEF Answered
  <2>3. (i < t.next /\ i \notin t.running) <=> i < state.next
    BY <1>2, <1>4, <1>5, <1>6
  <2> QED BY <2>1, <2>2, <2>3, <1>5
<1>10. XargsRuns(t)
  <2>1. t.running \subseteq 1 .. t.next - 1 /\ \A i \in t.running : t.next - AtOnce(t) <= i
    BY <1>2, <1>4, <1>5, <1>6, <1>8, <1>1 DEF XargsRuns
  <2>2. t.next \in 1 .. Len(t.invocations) + 1
    BY <1>2, <1>5, <1>6
  <2> QED BY <1>1, <1>4, <1>5, <1>8, <1>9, <2>1, <2>2 DEF XargsRuns
<1> QED BY <1>3, <1>7, <1>10 DEF XargsInv, t

\* A child answers in the place of its list.
LEMMA ChildEndsKeeps ==
  ASSUME XargsInv, NEW i, NEW code \in XargsCodes, XargsChildEnds(i, code)
  PROVE  XargsInv'
<1> DEFINE t == state'
           result == [stdout |-> state.invocations[i], exitCode |-> code]
<1>1. command = "xargs" /\ state.phase = "wait" /\ XargsShaped(state) /\ XargsRuns(state) /\ i \in state.running
  BY DEF XargsInv, XargsChildEnds, Runs, XargsIdle
<1>2. command' = "xargs"
      /\ t = [state EXCEPT !.running = state.running \ {i}, !.results = [state.results EXCEPT ![i] = result]]
  BY <1>1 DEF XargsChildEnds, Becomes
<1> HIDE DEF t
<1>3. /\ DOMAIN t = XargsFields /\ t.running = state.running \ {i} /\ t.results = [state.results EXCEPT ![i] = result]
      /\ \A f \in XargsFields \ {"running", "results"} : t[f] = state[f]
  BY <1>1, <1>2 DEF XargsShaped, XargsFields
<1>4. /\ t.items = state.items /\ t.maxArgs = state.maxArgs /\ t.replacement = state.replacement
      /\ t.maxProcesses = state.maxProcesses /\ t.invocations = state.invocations /\ t.next = state.next
      /\ t.phase = "wait"
      /\ state.next \in Nat /\ Len(state.invocations) \in Nat
  BY <1>1, <1>3 DEF XargsFields, XargsRuns
<1>5. XargsShaped(t)
  BY <1>1, <1>3, <1>4 DEF XargsShaped
<1>6. AtOnce(t) = AtOnce(state) /\ ListsOf(t) = ListsOf(state)
  BY <1>4 DEF AtOnce, ListsOf
<1>7. DOMAIN t.results = 1 .. Len(state.invocations) /\ i \in 1 .. Len(state.invocations)
      /\ i < state.next
      /\ \A j \in 1 .. Len(state.invocations) : t.results[j] = IF j = i THEN result ELSE state.results[j]
  BY <1>1, <1>3 DEF XargsRuns
<1>8. \A j \in 1 .. Len(t.invocations) :
        IF j < t.next /\ j \notin t.running THEN Answered(t, j) ELSE t.results[j] = NotYet
  <2> SUFFICES ASSUME NEW j \in 1 .. Len(t.invocations)
      PROVE IF j < t.next /\ j \notin t.running THEN Answered(t, j) ELSE t.results[j] = NotYet
    OBVIOUS
  <2>1. CASE j = i
    <3>1. Answered(t, j)
      BY <1>4, <1>7, <2>1 DEF Answered
    <3>2. j < t.next /\ j \notin t.running
      BY <1>3, <1>4, <1>7, <2>1
    <3> QED BY <3>1, <3>2
  <2>2. CASE j # i
    <3>1. IF j < state.next /\ j \notin state.running THEN Answered(state, j) ELSE state.results[j] = NotYet
      BY <1>1, <1>4 DEF XargsRuns
    <3>2. t.results[j] = state.results[j]
      BY <1>4, <1>7, <2>2
    <3>3. Answered(state, j) = Answered(t, j)
      BY <1>4, <3>2 DEF Answered
    <3> QED BY <1>3, <1>4, <2>2, <3>1, <3>2, <3>3
  <2> QED BY <2>1, <2>2
<1>9. XargsRuns(t)
  BY <1>1, <1>3, <1>4, <1>6, <1>7, <1>8 DEF XargsRuns
<1> QED BY <1>2, <1>5, <1>9 DEF XargsInv, t

\* A wave that has ended leaves none running.
LEMMA WaveEndsKeeps ==
  ASSUME XargsInv, XargsWaveEnds
  PROVE  XargsInv'
<1> DEFINE t == state'
<1>1. command = "xargs" /\ state.phase = "wait" /\ XargsShaped(state) /\ XargsRuns(state) /\ state.running = {}
  BY DEF XargsInv, XargsWaveEnds, Runs, XargsIdle
<1>2. command' = "xargs" /\ t = [state EXCEPT !.phase = "launch"]
  BY <1>1 DEF XargsWaveEnds, Becomes
<1> HIDE DEF t
<1>3. DOMAIN t = XargsFields /\ t.phase = "launch" /\ \A f \in XargsFields \ {"phase"} : t[f] = state[f]
  BY <1>1, <1>2 DEF XargsShaped, XargsFields
<1>4. /\ t.items = state.items /\ t.maxArgs = state.maxArgs /\ t.replacement = state.replacement
      /\ t.maxProcesses = state.maxProcesses /\ t.invocations = state.invocations /\ t.next = state.next
      /\ t.results = state.results /\ t.running = state.running
  BY <1>3 DEF XargsFields
<1>5. XargsShaped(t)
  BY <1>1, <1>3, <1>4 DEF XargsShaped
<1>6. XargsRuns(t)
  BY <1>1, <1>3, <1>4 DEF XargsRuns, AtOnce, ListsOf, Answered
<1> QED BY <1>2, <1>5, <1>6 DEF XargsInv, t

\* The outputs, one after another, are the items.
LEMMA PrintKeeps ==
  ASSUME XargsInv, XargsPrint
  PROVE  XargsInv'
<1> DEFINE t == state'
           n == Len(state.invocations)
           outputs == [i \in DOMAIN state.results |-> state.results[i].stdout]
<1>1. command = "xargs" /\ state.phase = "launch" /\ XargsShaped(state) /\ XargsRuns(state)
      /\ state.next > Len(state.invocations)
  BY DEF XargsInv, XargsPrint, Runs, XargsIdle
<1>2. command' = "xargs"
      /\ t = [[state EXCEPT !.phase = "done", !.code = LastFailure(state.results)]
                EXCEPT !.stdout = Seqs!FlattenSeq(outputs)]
  BY <1>1 DEF XargsPrint, Becomes, Done
<1>3. outputs = state.invocations
  <2>1. \A i \in 1 .. n : Answered(state, i)
    BY <1>1 DEF XargsRuns
  <2>2. ASSUME NEW i \in 1 .. n PROVE state.results[i].stdout = state.invocations[i]
    <3>1. PICK code \in XargsCodes : state.results[i] = [stdout |-> state.invocations[i], exitCode |-> code]
      BY <2>1 DEF Answered
    <3> QED BY <3>1
  <2>3. DOMAIN state.results = 1 .. n /\ state.invocations = [i \in 1 .. n |-> state.invocations[i]]
    BY <1>1, ListsDeliver DEF XargsRuns
  <2> QED BY <2>2, <2>3
<1>4. Seqs!FlattenSeq(outputs) = state.items
  <2> HIDE DEF outputs
  <2> QED BY <1>1, <1>3, ListsDeliver DEF XargsRuns
<1> HIDE DEF t, outputs
<1>5. /\ DOMAIN t = XargsFields /\ t.phase = "done" /\ t.code = LastFailure(state.results) /\ t.stdout = state.items
      /\ \A f \in XargsFields \ {"phase", "code", "stdout"} : t[f] = state[f]
  BY <1>1, <1>2, <1>4 DEF XargsShaped, XargsFields
<1>6. /\ t.items = state.items /\ t.maxArgs = state.maxArgs /\ t.replacement = state.replacement
      /\ t.maxProcesses = state.maxProcesses /\ t.invocations = state.invocations /\ t.next = state.next
      /\ t.results = state.results /\ t.running = state.running
  BY <1>5 DEF XargsFields
<1>7. XargsShaped(t)
  BY <1>1, <1>5, <1>6 DEF XargsShaped
<1>8. t.next = Len(t.invocations) + 1
  BY <1>1, <1>6 DEF XargsRuns
<1>9. XargsRuns(t)
  BY <1>1, <1>5, <1>6, <1>8 DEF XargsRuns, AtOnce, ListsOf, Answered
<1> QED BY <1>2, <1>7, <1>9 DEF XargsInv, t

\* A run begins with no list made.
LEMMA XargsBegins == ASSUME XargsInit PROVE XargsInv
<1>1. PICK items \in XargsItems, n \in XargsNumbers, each \in BOOLEAN, p \in XargsNumbers :
        state = XargsStart(items, n, each, p)
  BY DEF XargsInit, XargsStarts
<1>2. items \in Seq(Items) /\ n \in Nat /\ p \in Nat
  BY XargsAssumption
<1>3. /\ DOMAIN state = XargsFields /\ state.phase = "split" /\ state.items = items /\ state.maxArgs = n
      /\ state.replacement = each /\ state.maxProcesses = p /\ state.invocations = <<>> /\ state.next = 1
      /\ state.running = {} /\ state.results = <<>> /\ state.stdout = <<>> /\ state.code = 0
  BY <1>1 DEF XargsStart, XargsFields
<1>4. XargsShaped(state) /\ XargsIdle(state)
  BY <1>2, <1>3 DEF XargsShaped, XargsIdle
<1> QED BY <1>4 DEF XargsInv, XargsInit

\* Every step keeps the invariant.
LEMMA XargsStepKeeps == ASSUME XargsInv, [XargsNext]_commandVars PROVE XargsInv'
<1>1. ASSUME UNCHANGED commandVars PROVE XargsInv'
  BY <1>1 DEF commandVars, XargsInv, XargsShaped, XargsIdle, XargsRuns, AtOnce, ListsOf, Answered
<1> QED BY <1>1, SplitKeeps, LaunchKeeps, WaveEndsKeeps, PrintKeeps, ChildEndsKeeps DEF XargsNext

\* What the invariant says of a run is what xargs promises.
LEMMA XargsInvDelivers == ASSUME XargsInv PROVE XargsDelivers
<1>1. CASE XargsIdle(state)
  <2>1. Cardinality({}) = 0 /\ Larger(state.maxProcesses, 1) \in Nat /\ DOMAIN state.results = {}
    BY <1>1, FS_EmptySet DEF XargsInv, XargsShaped, Larger, XargsIdle
  <2> QED BY <1>1, <2>1 DEF XargsIdle, XargsDelivers
<1>2. CASE XargsRuns(state)
  <2> DEFINE n == Len(state.invocations)
             P == AtOnce(state)
  <2>1. n \in Nat /\ state.next \in Nat /\ P \in Nat \ {0} /\ DOMAIN state.results = 1 .. n
    BY <1>2 DEF XargsRuns, XargsInv, XargsShaped, AtOnce, Larger
  <2>2. Cardinality(state.running) <= P
    <3> DEFINE S == state.next - P .. state.next - 1
    <3>1. state.running \subseteq S
      <4> SUFFICES ASSUME NEW i \in state.running PROVE i \in S
        OBVIOUS
      <4>1. i \in 1 .. state.next - 1 /\ state.next - P <= i
        BY <1>2 DEF XargsRuns
      <4> QED BY <2>1, <4>1
    <3>2. IsFiniteSet(S) /\ Cardinality(S) = P
      <4> DEFINE a == state.next - P
                 b == state.next - 1
      <4>1. a \in Int /\ b \in Int /\ ~(a > b) /\ b - a + 1 = P
        BY <2>1
      <4> HIDE DEF P, a, b
      <4>2. IsFiniteSet(a .. b) /\ Cardinality(a .. b) = P
        BY <4>1, FS_Interval
      <4> QED BY <4>2 DEF a, b
    <3>3. Cardinality(state.running) \in Nat
      BY <3>1, <3>2, FS_Subset, FS_CardinalityType
    <3> HIDE DEF S
    <3> QED BY <3>1, <3>2, <3>3, FS_Subset
  <2>3. ASSUME NEW i \in 1 .. n, state.results[i] # NotYet, NEW j \in 1 .. i - 1
        PROVE  state.results[j] # NotYet \/ j \in state.running
    <3>1. i < state.next
      BY <1>2, <2>3 DEF XargsRuns
    <3>2. j \in 1 .. n /\ j < state.next
      BY <2>1, <3>1
    <3>3. j \in state.running \/ Answered(state, j)
      BY <1>2, <3>2 DEF XargsRuns
    <3>4. Answered(state, j) => state.results[j] # NotYet
      <4>1. \A code \in XargsCodes : code # -1
        BY XargsAssumption
      <4> QED BY <4>1 DEF Answered, NotYet
    <3> QED BY <3>3, <3>4
  <2>4. state.maxArgs > 0 => \A i \in 1 .. n : Len(state.invocations[i]) <= state.maxArgs
    BY <1>2, ListsDeliver DEF XargsRuns, XargsInv
  <2>5. state.phase = "done" =>
         /\ state.stdout = state.items
         /\ state.code = 0 <=> \A i \in 1 .. n : state.results[i].exitCode = 0
    BY <1>2, <2>1, LastFailureTells DEF XargsRuns
  <2> QED BY <2>1, <2>2, <2>3, <2>4, <2>5 DEF XargsDelivers, AtOnce
<1> QED BY <1>1, <1>2 DEF XargsInv

\* The lists given out so far are answered in their places or still run, in the
\* waves of runXargsInvocations (xargs.go:302-324).
THEOREM XargsInvariant == XargsSpec => []XargsInv
<1> QED BY XargsBegins, XargsStepKeeps, PTL DEF XargsSpec

\* Every item reaches one child, in the order of the input, in lists and waves of
\* the sizes asked for, and no failure is lost (xargs.go:67-82, 302-324), for any
\* input and any -n and -P.
THEOREM XargsAlwaysDelivers == XargsSpec => []XargsDelivers
<1> QED BY XargsInvariant, XargsInvDelivers, PTL

-----------------------------------------------------------------------------
(* curl.                                                                     *)

CurlFields == {"phase", "policy", "opts", "req", "sent", "answer", "made", "output", "stdout", "code"}
CurlPhases == {"request", "dial", "answer", "body", "deliver", "done"}

Members(seq) == {seq[i] : i \in 1 .. Len(seq)}

CurlShaped(st) ==
  /\ DOMAIN st = CurlFields /\ st.phase \in CurlPhases
  /\ st.policy \in CurlPolicies
  /\ st.answer.status \in Nat /\ st.answer.size \in Nat
  /\ st.sent \in Seq(Members(st.sent)) /\ Len(st.sent) \in Nat /\ DOMAIN st.sent = 1 .. Len(st.sent)

\* A request may leave if the policy has it, with a body only if all before it had it.
MayLeave(st, req) ==
  /\ Check(st.policy, req)
  /\ req.size > 0 => \A g \in 1 .. Len(st.sent) : st.sent[g].req.size = req.size
MaxSent(st) == IF st.opts.location THEN Larger(Normalized(st.policy).maxRedirects, 1) ELSE 1

\* What has left was allowed to.
Allowed(st) ==
  /\ \A h \in 1 .. Len(st.sent) :
       /\ Check(st.policy, st.sent[h].req)
       /\ st.policy.allowPrivate \/ st.policy.ownClient \/ st.sent[h].address = "public"
       /\ st.sent[h].req.size > 0 => \A g \in 1 .. h : st.sent[g].req.size = st.sent[h].req.size
  /\ Len(st.sent) <= MaxSent(st)

\* What is known where the run is.
Known(st) ==
  /\ st.phase = "request" => Len(st.sent) = 0
  /\ st.phase = "dial" => MayLeave(st, st.req) /\ Len(st.sent) < MaxSent(st)
  /\ st.phase = "answer" => Len(st.sent) > 0 /\ st.req = st.sent[Len(st.sent)].req
  /\ st.phase \in {"body", "deliver"} =>
       /\ Len(st.sent) > 0
       /\ st.opts.fail => st.answer.status < 400
       /\ st.opts.location => ~IsRedirect(st.answer)
  /\ st.phase = "deliver" => st.opts.headOnly \/ st.answer.size <= st.policy.maxResponse

DeliveredOf(st) == [head |-> st.opts.includeHeaders \/ st.opts.headOnly,
                    size |-> IF st.opts.headOnly THEN 0 ELSE st.answer.size]
WriteOutOf(st) == IF st.opts.writeOut THEN <<st.answer.status>> ELSE <<>>
Succeeded(st) ==
  /\ Len(st.sent) > 0
  /\ IF st.opts.output THEN st.output = DeliveredOf(st) /\ st.stdout = WriteOutOf(st)
     ELSE st.output = "old" /\ st.stdout = <<DeliveredOf(st)>> \o WriteOutOf(st)
  /\ DeliveredOf(st).size <= st.policy.maxResponse
  /\ st.opts.fail => st.answer.status < 400
  /\ st.opts.location => ~IsRedirect(st.answer)
Untouched(st) == st.output = "old" /\ st.stdout = <<>>
Told(st) ==
  /\ st.phase # "done" => st.code = 0 /\ Untouched(st)
  /\ st.phase = "done" => (st.code = 0 /\ Succeeded(st)) \/ (st.code = 1 /\ Untouched(st))

CurlInv ==
  /\ command = "curl"
  /\ CurlShaped(state) /\ Allowed(state) /\ Known(state) /\ Told(state)

\* Checking against a policy does not depend on its number of redirects.
LEMMA CheckNormalized ==
  ASSUME NEW policy \in CurlPolicies, NEW req
  PROVE  Check(Normalized(policy), req) <=> Check(policy, req)
<1>1. Normalized(policy).rules = policy.rules
  BY CurlAssumption DEF Normalized
<1> QED BY <1>1 DEF Check, ruleAllows

\* There is room for one request, and for another after each redirect followed.
LEMMA MaxSentIsNumber ==
  ASSUME NEW st, st.policy \in CurlPolicies
  PROVE  /\ MaxSent(st) \in Nat /\ MaxSent(st) >= 1
         /\ \A n \in Nat : n < Normalized(st.policy).maxRedirects /\ st.opts.location => n < MaxSent(st)
<1>1. Normalized(st.policy).maxRedirects \in Int
  BY CurlAssumption DEF Normalized
<1> QED BY <1>1 DEF MaxSent, Larger

\* A run that fails has sent what it has sent, and delivers nothing.
LEMMA FailsKeeps ==
  ASSUME CurlInv, CurlFails, state.phase # "done"
  PROVE  CurlInv'
<1> DEFINE t == state'
<1>1. command' = "curl" /\ DOMAIN state = CurlFields /\ t = [state EXCEPT !.phase = "done", !.code = 1]
  BY DEF CurlFails, Becomes, Done, CurlInv, CurlShaped
<1> HIDE DEF t
<1>2. /\ DOMAIN t = CurlFields /\ t.phase = "done" /\ t.code = 1
      /\ t.policy = state.policy /\ t.opts = state.opts /\ t.sent = state.sent /\ t.answer = state.answer
      /\ t.output = state.output /\ t.stdout = state.stdout
  BY <1>1 DEF CurlFields
<1> QED BY <1>1, <1>2 DEF CurlInv, CurlShaped, CurlPhases, Allowed, MaxSent, Known, Told, Untouched, t

\* A step that sends nothing, while the run goes on.
LEMMA GoesOn ==
  ASSUME CurlInv, NEW t, state.phase # "done", DOMAIN t = CurlFields,
         t.phase \in CurlPhases \ {"done"},
         t.policy = state.policy, t.opts = state.opts, t.sent = state.sent,
         t.answer.status \in Nat, t.answer.size \in Nat,
         t.output = state.output, t.stdout = state.stdout, t.code = state.code
  PROVE  CurlShaped(t) /\ Allowed(t) /\ Told(t)
  BY DEF CurlInv, CurlShaped, Allowed, MaxSent, Told, Untouched, CurlPhases

\* A sequence that grows keeps what it has.
LEMMA Appended ==
  ASSUME NEW seq, seq \in Seq(Members(seq)), NEW e
  PROVE  LET longer == Append(seq, e) IN
         /\ longer \in Seq(Members(longer)) /\ Len(longer) = Len(seq) + 1
         /\ DOMAIN longer = 1 .. Len(longer)
         /\ \A i \in 1 .. Len(seq) : longer[i] = seq[i]
         /\ longer[Len(longer)] = e
<1> DEFINE T == Members(seq) \cup {e}
           longer == Append(seq, e)
<1>1. seq \in Seq(T) /\ e \in T
  OBVIOUS
<1> HIDE DEF T
<1>2. /\ longer \in Seq(T) /\ Len(longer) = Len(seq) + 1 /\ Len(seq) \in Nat
      /\ \A i \in 1 .. Len(seq) : longer[i] = seq[i]
      /\ longer[Len(longer)] = e /\ DOMAIN longer = 1 .. Len(longer)
  BY <1>1, AppendProperties
<1> HIDE DEF longer
<1>3. longer \in [1 .. Len(longer) -> Members(longer)]
  <2>1. longer = [i \in 1 .. Len(longer) |-> longer[i]]
    BY <1>2, SeqDef
  <2> QED BY <2>1 DEF Members
<1>4. longer \in Seq(Members(longer))
  <2>1. Len(longer) \in Nat
    BY <1>2
  <2> QED BY <1>3, <2>1, SeqDef
<1> QED BY <1>2, <1>4 DEF longer

\* Sends the request that is due.
LEMMA AskedKeeps ==
  ASSUME CurlInv, NEW address, state.phase = "dial", Asked(address),
         state.policy.allowPrivate \/ state.policy.ownClient \/ address = "public"
  PROVE  CurlInv'
<1> DEFINE t == state'
           e == [req |-> state.req, address |-> address]
<1>1. command' = "curl" /\ DOMAIN state = CurlFields
      /\ t = [state EXCEPT !.phase = "answer", !.sent = Append(state.sent, e)]
  BY DEF Asked, Becomes, CurlInv, CurlShaped
<1> HIDE DEF t
<1>2. /\ DOMAIN t = CurlFields /\ t.phase = "answer" /\ t.sent = Append(state.sent, e)
      /\ t.policy = state.policy /\ t.opts = state.opts /\ t.answer = state.answer /\ t.req = state.req
      /\ t.output = state.output /\ t.stdout = state.stdout /\ t.code = state.code
  BY <1>1 DEF CurlFields
<1>3. e.req = state.req /\ e.address = address
  OBVIOUS
<1> HIDE DEF e
<1>4. CurlShaped(state) /\ Allowed(state) /\ Told(state) /\ MayLeave(state, state.req)
      /\ Len(state.sent) < MaxSent(state)
  BY DEF CurlInv, Known
<1> DEFINE n == Len(state.sent)
<1>5. /\ t.sent \in Seq(Members(t.sent)) /\ Len(t.sent) = n + 1 /\ n \in Nat
      /\ DOMAIN t.sent = 1 .. Len(t.sent)
      /\ \A i \in 1 .. n : t.sent[i] = state.sent[i]
      /\ t.sent[n + 1] = e
  BY <1>2, <1>4, Appended DEF CurlShaped
<1>6. CurlShaped(t)
  BY <1>2, <1>4, <1>5 DEF CurlShaped, CurlPhases
<1>7. Allowed(t)
  <2>1. MaxSent(t) = MaxSent(state) /\ MaxSent(state) \in Nat
    BY <1>2, <1>4, MaxSentIsNumber DEF CurlShaped, MaxSent
  <2>2. Len(t.sent) <= MaxSent(t)
    BY <2>1, <1>4, <1>5
  <2> SUFFICES ASSUME NEW h \in 1 .. n + 1
      PROVE /\ Check(t.policy, t.sent[h].req)
            /\ t.policy.allowPrivate \/ t.policy.ownClient \/ t.sent[h].address = "public"
            /\ t.sent[h].req.size > 0 => \A g \in 1 .. h : t.sent[g].req.size = t.sent[h].req.size
    BY <2>2, <1>5 DEF Allowed
  <2>3. CASE h \in 1 .. n
    <3>1. \A g \in 1 .. h : g \in 1 .. n
      BY <2>3, <1>5
    <3> QED BY <2>3, <3>1, <1>2, <1>4, <1>5 DEF Allowed
  <2>4. CASE h = n + 1
    <3>1. t.sent[h] = e
      BY <2>4, <1>5
    <3>2. \A g \in 1 .. h : g = h \/ g \in 1 .. n
      BY <2>4, <1>5
    <3> QED BY <3>1, <3>2, <1>2, <1>3, <1>4, <1>5 DEF MayLeave
  <2> QED BY <2>3, <2>4, <1>5
<1>8. Known(t)
  BY <1>2, <1>3, <1>5 DEF Known
<1>9. Told(t)
  BY <1>2, <1>4 DEF Told, Untouched
<1> QED BY <1>1, <1>6, <1>7, <1>8, <1>9 DEF CurlInv, t

\* Dialling asks an address the policy allows.
LEMMA DialKeeps ==
  ASSUME CurlInv, NEW n \in Nat, NEW ips \in [1 .. n -> Addresses], NEW reached \in SUBSET DOMAIN ips,
         CurlDial(ips, reached)
  PROVE  CurlInv'
<1> DEFINE candidates == (IF state.policy.ownClient THEN DOMAIN ips ELSE dials(state.policy, ips)) \cap reached
<1>1. state.phase = "dial"
  BY DEF CurlDial, Runs
<1>2. CASE candidates = {}
  BY <1>2, <1>1, FailsKeeps DEF CurlDial
<1>3. CASE candidates # {}
  <2> DEFINE i == Sets!Min(candidates)
  <2>1. candidates \subseteq Nat
    BY DEF dials
  <2>2. i \in candidates
    <3> HIDE DEF candidates
    <3>1. PICK m \in candidates : \A k \in candidates : m <= k
      BY <1>3, <2>1, MinimumExists
    <3> QED BY <3>1 DEF Sets!Min
  <2> HIDE DEF i
  <2>3. state.policy.ownClient \/ state.policy.allowPrivate \/ ips[i] = "public"
    BY <2>2 DEF dials
  <2>4. Asked(ips[i])
    BY <1>3 DEF CurlDial, i
  <2> QED BY <1>1, <2>3, <2>4, AskedKeeps
<1> QED BY <1>2, <1>3

\* A connection that is used again led to an address the policy allows.
LEMMA ReuseKeeps ==
  ASSUME CurlInv, NEW h, CurlReuse(h)
  PROVE  CurlInv'
<1>1. state.phase = "dial" /\ h \in 1 .. Len(state.sent) /\ Asked(state.sent[h].address)
  BY DEF CurlReuse, Runs, CurlInv, CurlShaped
<1> QED BY <1>1, AskedKeeps DEF CurlInv, Allowed

\* A request is read and checked.
LEMMA RequestKeeps ==
  ASSUME CurlInv, NEW readable \in BOOLEAN, CurlRequest(readable)
  PROVE  CurlInv'
<1> DEFINE opts == state.opts
           req == [method |-> Method(opts), url |-> opts.url, size |-> opts.body.size,
                   headers |-> opts.headers \cup (IF opts.body.kind \in {"form", "data"}
                                                  THEN {"Content-Type"} ELSE {})]
           t == state'
<1>1. state.phase = "request"
  BY DEF CurlRequest, Runs
<1>2. CurlFails \/ (Check(Normalized(state.policy), req)
                    /\ Becomes([state EXCEPT !.phase = "dial", !.req = req]))
  BY DEF CurlRequest
<1> HIDE DEF req
<1>3. ASSUME Check(Normalized(state.policy), req), Becomes([state EXCEPT !.phase = "dial", !.req = req])
      PROVE  CurlInv'
  <2>1. command' = "curl" /\ DOMAIN state = CurlFields /\ t = [state EXCEPT !.phase = "dial", !.req = req]
    BY <1>3 DEF Becomes, CurlInv, CurlShaped
  <2> HIDE DEF t
  <2>2. /\ DOMAIN t = CurlFields /\ t.phase = "dial" /\ t.req = req /\ t.sent = state.sent
        /\ t.policy = state.policy /\ t.opts = state.opts /\ t.answer = state.answer
        /\ t.output = state.output /\ t.stdout = state.stdout /\ t.code = state.code
    BY <2>1 DEF CurlFields
  <2>3. CurlShaped(t) /\ Allowed(t) /\ Told(t)
    BY <1>1, <2>2, GoesOn DEF CurlInv, CurlShaped, CurlPhases
  <2>4. Check(t.policy, t.req) /\ Len(t.sent) = 0
    BY <1>1, <1>3, <2>2, CheckNormalized DEF CurlInv, CurlShaped, Known
  <2>5. MaxSent(t) \in Nat /\ MaxSent(t) >= 1
    BY <2>3, MaxSentIsNumber DEF CurlShaped
  <2>6. MayLeave(t, t.req) /\ Len(t.sent) < MaxSent(t)
    BY <2>4, <2>5 DEF MayLeave
  <2> QED BY <2>1, <2>2, <2>3, <2>6 DEF CurlInv, Known, t
<1> QED BY <1>1, <1>2, <1>3, FailsKeeps

\* An answer leads on only to a request the policy allows.
LEMMA AnswerKeeps ==
  ASSUME CurlInv, NEW answer \in Replies, CurlAnswer(answer)
  PROVE  CurlInv'
<1> DEFINE next == Redirected(state.req, answer)
           t == state'
<1>1. state.phase = "answer"
  BY DEF CurlAnswer, Runs
<1>2. \/ CurlFails
      \/ /\ ~IsRedirect(answer) \/ ~state.opts.location
         /\ ~(state.opts.fail /\ answer.status >= 400)
         /\ Becomes([state EXCEPT !.phase = "body", !.answer = answer])
      \/ /\ state.opts.location
         /\ redirectChecker(state.policy, next, state.sent)
         /\ Becomes([state EXCEPT !.phase = "dial", !.req = next])
  BY DEF CurlAnswer
<1>3. answer.status \in Nat /\ answer.size \in Nat
  BY CurlAssumption DEF Replies
<1>4. command = "curl" /\ CurlShaped(state) /\ Allowed(state) /\ Len(state.sent) > 0
      /\ state.req = state.sent[Len(state.sent)].req
  BY <1>1 DEF CurlInv, Known
<1>5. ASSUME ~IsRedirect(answer) \/ ~state.opts.location,
             ~(state.opts.fail /\ answer.status >= 400),
             Becomes([state EXCEPT !.phase = "body", !.answer = answer])
      PROVE  CurlInv'
  <2>1. command' = "curl" /\ DOMAIN state = CurlFields /\ t = [state EXCEPT !.phase = "body", !.answer = answer]
    BY <1>4, <1>5 DEF Becomes, CurlShaped
  <2> HIDE DEF t
  <2>2. /\ DOMAIN t = CurlFields /\ t.phase = "body" /\ t.answer = answer /\ t.sent = state.sent
        /\ t.policy = state.policy /\ t.opts = state.opts
        /\ t.output = state.output /\ t.stdout = state.stdout /\ t.code = state.code
    BY <2>1 DEF CurlFields
  <2>3. CurlShaped(t) /\ Allowed(t) /\ Told(t)
    BY <1>1, <1>3, <2>2, GoesOn DEF CurlPhases
  <2>4. Known(t)
    BY <1>3, <1>4, <1>5, <2>2 DEF Known
  <2> QED BY <2>1, <2>3, <2>4 DEF CurlInv, t
<1>6. ASSUME state.opts.location, redirectChecker(state.policy, next, state.sent),
             Becomes([state EXCEPT !.phase = "dial", !.req = next])
      PROVE  CurlInv'
  <2>0. next.size = state.req.size \/ next.size = 0
    BY DEF Redirected
  <2> HIDE DEF next
  <2>1. command' = "curl" /\ DOMAIN state = CurlFields /\ t = [state EXCEPT !.phase = "dial", !.req = next]
    BY <1>4, <1>6 DEF Becomes, CurlShaped
  <2> HIDE DEF t
  <2>2. /\ DOMAIN t = CurlFields /\ t.phase = "dial" /\ t.req = next /\ t.sent = state.sent
        /\ t.policy = state.policy /\ t.opts = state.opts /\ t.answer = state.answer
        /\ t.output = state.output /\ t.stdout = state.stdout /\ t.code = state.code
    BY <2>1 DEF CurlFields
  <2>3. CurlShaped(t) /\ Allowed(t) /\ Told(t)
    BY <1>1, <1>4, <2>2, GoesOn DEF CurlPhases, CurlShaped
  <2>4. Check(t.policy, t.req) /\ Len(t.sent) < MaxSent(t)
    BY <1>6, <1>4, <2>2, <2>3, MaxSentIsNumber DEF redirectChecker, CurlShaped
  <2>5. t.req.size > 0 => \A g \in 1 .. Len(t.sent) : t.sent[g].req.size = t.req.size
    <3>1. Len(t.sent) \in 1 .. Len(t.sent) /\ t.sent[Len(t.sent)].req = state.req
      BY <1>4, <2>2 DEF CurlShaped
    <3> SUFFICES ASSUME t.req.size > 0, NEW g \in 1 .. Len(t.sent)
        PROVE t.sent[g].req.size = t.req.size
      OBVIOUS
    <3>2. t.req.size = state.req.size
      BY <2>0, <2>2
    <3>3. t.sent[Len(t.sent)].req.size > 0
      BY <3>1, <3>2
    <3> QED BY <2>3, <3>1, <3>2, <3>3 DEF Allowed
  <2>6. Known(t)
    BY <2>2, <2>4, <2>5 DEF Known, MayLeave
  <2> QED BY <2>1, <2>3, <2>6 DEF CurlInv, t
<1> QED BY <1>1, <1>2, <1>5, <1>6, FailsKeeps

\* A body is kept only if it is not too long.
LEMMA CurlBodyKeeps ==
  ASSUME CurlInv, CurlBody
  PROVE  CurlInv'
<1> DEFINE t == state'
<1>1. state.phase = "body"
  BY DEF CurlBody, Runs
<1>2. ASSUME state.opts.headOnly \/ ~(state.answer.size > state.policy.maxResponse),
             Becomes([state EXCEPT !.phase = "deliver"])
      PROVE  CurlInv'
  <2>1. command' = "curl" /\ DOMAIN state = CurlFields /\ t = [state EXCEPT !.phase = "deliver"]
    BY <1>2 DEF Becomes, CurlInv, CurlShaped
  <2> HIDE DEF t
  <2>2. /\ DOMAIN t = CurlFields /\ t.phase = "deliver" /\ t.answer = state.answer /\ t.sent = state.sent
        /\ t.policy = state.policy /\ t.opts = state.opts
        /\ t.output = state.output /\ t.stdout = state.stdout /\ t.code = state.code
    BY <2>1 DEF CurlFields
  <2>3. CurlShaped(t) /\ Allowed(t) /\ Told(t)
    BY <1>1, <2>2, GoesOn DEF CurlPhases, CurlInv, CurlShaped
  <2>4. t.policy.maxResponse \in Nat /\ t.answer.size \in Nat
    BY <2>3, CurlAssumption DEF CurlShaped
  <2>5. t.opts.headOnly \/ t.answer.size <= t.policy.maxResponse
    BY <1>2, <2>2, <2>4
  <2>6. Known(t)
    BY <1>1, <2>2, <2>5 DEF Known, CurlInv
  <2> QED BY <2>1, <2>3, <2>6 DEF CurlInv, t
<1> QED BY <1>1, <1>2, FailsKeeps DEF CurlBody

\* Where the connection breaks the run fails.
LEMMA LateKeeps ==
  ASSUME CurlInv, CurlLate
  PROVE  CurlInv'
<1>1. state.phase # "done"
  BY DEF CurlLate
<1> QED BY <1>1, FailsKeeps DEF CurlLate

\* Making the directory delivers nothing yet.
LEMMA DirectoryKeeps ==
  ASSUME CurlInv, NEW works \in BOOLEAN, CurlDirectory(works)
  PROVE  CurlInv'
<1> DEFINE t == state'
<1>1. state.phase = "deliver"
  BY DEF CurlDirectory, Runs
<1>2. ASSUME Becomes([state EXCEPT !.made = TRUE]) PROVE CurlInv'
  <2>1. command' = "curl" /\ DOMAIN state = CurlFields /\ t = [state EXCEPT !.made = TRUE]
    BY <1>2 DEF Becomes, CurlInv, CurlShaped
  <2> HIDE DEF t
  <2>2. /\ DOMAIN t = CurlFields /\ t.phase = state.phase /\ t.answer = state.answer /\ t.sent = state.sent
        /\ t.policy = state.policy /\ t.opts = state.opts
        /\ t.output = state.output /\ t.stdout = state.stdout /\ t.code = state.code
    BY <2>1 DEF CurlFields
  <2>3. CurlShaped(t) /\ Allowed(t) /\ Told(t)
    BY <1>1, <2>2, GoesOn DEF CurlPhases, CurlInv, CurlShaped
  <2>4. Known(t)
    BY <1>1, <2>2 DEF Known, CurlInv
  <2> QED BY <2>1, <2>3, <2>4 DEF CurlInv, t
<1> QED BY <1>1, <1>2, FailsKeeps DEF CurlDirectory

\* A run that succeeds has the answer it was given, of a size it may have.
LEMMA SucceedsKeeps ==
  ASSUME CurlInv, state.phase = "deliver", NEW output, NEW stdout,
         Becomes([Done(0) EXCEPT !.output = output, !.stdout = stdout]),
         IF state.opts.output THEN output = Delivered /\ stdout = WriteOut
         ELSE output = "old" /\ stdout = <<Delivered>> \o WriteOut
  PROVE  CurlInv'
<1> DEFINE t == state'
<1>1. command' = "curl" /\ DOMAIN state = CurlFields
      /\ t = [[state EXCEPT !.phase = "done", !.code = 0] EXCEPT !.output = output, !.stdout = stdout]
  BY DEF Becomes, Done, CurlInv, CurlShaped
<1> HIDE DEF t
<1>2. /\ DOMAIN t = CurlFields /\ t.phase = "done" /\ t.code = 0 /\ t.answer = state.answer
      /\ t.sent = state.sent /\ t.policy = state.policy /\ t.opts = state.opts
      /\ t.output = output /\ t.stdout = stdout
  BY <1>1 DEF CurlFields
<1>3. CurlShaped(state) /\ Allowed(state) /\ Known(state)
  BY DEF CurlInv
<1>4. CurlShaped(t) /\ Allowed(t)
  BY <1>2, <1>3 DEF CurlShaped, Allowed, MaxSent, CurlPhases
<1>5. Known(t)
  BY <1>2 DEF Known
<1>6. Delivered = DeliveredOf(t) /\ WriteOut = WriteOutOf(t)
  BY <1>2 DEF Delivered, DeliveredOf, WriteOut, WriteOutOf
<1>7. DeliveredOf(t).size <= t.policy.maxResponse
  <2>1. t.policy.maxResponse \in Nat
    BY <1>4, CurlAssumption DEF CurlShaped
  <2> QED BY <2>1, <1>2, <1>3 DEF Known, DeliveredOf
<1>8. Told(t)
  BY <1>2, <1>3, <1>6, <1>7 DEF Told, Succeeded, Known
<1> QED BY <1>1, <1>4, <1>5, <1>8 DEF CurlInv, t

\* Writing the file delivers all, or fails.
LEMMA WritesKeeps ==
  ASSUME CurlInv, NEW works \in BOOLEAN, CurlWrites(works)
  PROVE  CurlInv'
<1>1. state.phase = "deliver" /\ state.opts.output
  BY DEF CurlWrites, Runs
<1> QED BY <1>1, FailsKeeps, SucceedsKeeps DEF CurlWrites

\* Printing delivers all.
LEMMA CurlPrintsKeeps ==
  ASSUME CurlInv, CurlPrints
  PROVE  CurlInv'
<1> DEFINE stdout == <<Delivered>> \o WriteOut
<1>1. state.phase = "deliver" /\ ~state.opts.output /\ state.output = "old" /\ DOMAIN state = CurlFields
  BY DEF CurlPrints, Runs, CurlInv, Told, Untouched, CurlShaped
<1>2. Becomes([Done(0) EXCEPT !.stdout = stdout])
  BY DEF CurlPrints
<1> HIDE DEF stdout
<1>3. [Done(0) EXCEPT !.stdout = stdout] = [Done(0) EXCEPT !.output = "old", !.stdout = stdout]
  BY <1>1 DEF Done, CurlFields
<1>4. Becomes([Done(0) EXCEPT !.output = "old", !.stdout = stdout])
  BY <1>2, <1>3
<1> QED BY <1>1, <1>4, SucceedsKeeps DEF stdout

\* A run begins with nothing sent.
LEMMA CurlBegins == ASSUME CurlInit PROVE CurlInv
<1>1. PICK policy \in CurlPolicies, opts \in CurlOptions : state = CurlStart(policy, opts)
  BY DEF CurlInit, CurlStarts
<1>2. /\ command = "curl" /\ DOMAIN state = CurlFields /\ state.phase = "request" /\ state.policy = policy
      /\ state.sent = <<>> /\ state.answer = [status |-> 0, size |-> 0, to |-> <<>>]
      /\ state.output = "old" /\ state.stdout = <<>> /\ state.code = 0
  BY <1>1 DEF CurlStart, CurlFields, CurlInit
<1>3. CurlShaped(state)
  <2>1. <<>> \in Seq(Members(<<>>)) /\ Len(<<>>) = 0 /\ DOMAIN <<>> = 1 .. 0
    BY EmptySeq
  <2> QED BY <1>2, <2>1 DEF CurlShaped, CurlPhases
<1>4. Allowed(state)
  <2>1. MaxSent(state) \in Nat /\ Len(state.sent) = 0
    BY <1>2, <1>3, MaxSentIsNumber DEF CurlShaped
  <2> QED BY <2>1 DEF Allowed
<1>5. Known(state) /\ Told(state)
  BY <1>2 DEF Known, Told, Untouched
<1> QED BY <1>2, <1>3, <1>4, <1>5 DEF CurlInv

\* Every step keeps the invariant.
LEMMA CurlStepKeeps == ASSUME CurlInv, [CurlNext]_commandVars PROVE CurlInv'
<1>1. ASSUME NEW works \in BOOLEAN, CurlRequest(works) \/ CurlDirectory(works) \/ CurlWrites(works)
      PROVE  CurlInv'
  BY <1>1, RequestKeeps, DirectoryKeeps, WritesKeeps
<1>2. ASSUME NEW ips \in UNION {[1 .. n -> Addresses] : n \in 0 .. MaxAddresses}, NEW reached \in SUBSET DOMAIN ips,
             CurlDial(ips, reached)
      PROVE  CurlInv'
  <2>1. PICK n \in 0 .. MaxAddresses : ips \in [1 .. n -> Addresses]
    OBVIOUS
  <2> QED BY <1>2, <2>1, DialKeeps
<1>3. ASSUME UNCHANGED commandVars PROVE CurlInv'
  BY <1>3 DEF commandVars, CurlInv, CurlShaped, Allowed, MaxSent, Known, MayLeave, Told, Succeeded, Untouched
<1> QED BY <1>1, <1>2, <1>3, ReuseKeeps, AnswerKeeps, CurlBodyKeeps, LateKeeps, CurlPrintsKeeps DEF CurlNext

\* What the invariant says of a run is what the policy asks.
LEMMA CurlInvObeys == ASSUME CurlInv PROVE CurlObeys
<1>1. CurlShaped(state) /\ Allowed(state) /\ Told(state)
  BY DEF CurlInv
<1>2. Delivered = DeliveredOf(state) /\ WriteOut = WriteOutOf(state)
  BY DEF Delivered, DeliveredOf, WriteOut, WriteOutOf
<1>3. state.code # 0 => state.output = "old" /\ state.stdout = <<>>
  BY <1>1 DEF Told, Untouched
<1>4. state.phase = "done" /\ state.code = 0 => Succeeded(state)
  BY <1>1 DEF Told
<1>5. Len(state.sent) <= IF state.opts.location THEN Larger(Normalized(state.policy).maxRedirects, 1) ELSE 1
  BY <1>1 DEF Allowed, MaxSent
<1>6. \A h \in DOMAIN state.sent :
         /\ Check(state.policy, state.sent[h].req)
         /\ state.policy.allowPrivate \/ state.policy.ownClient \/ state.sent[h].address = "public"
         /\ state.sent[h].req.size > 0 => \A g \in 1 .. h : state.sent[g].req.size = state.sent[h].req.size
  BY <1>1 DEF Allowed, CurlShaped
<1> QED BY <1>2, <1>3, <1>4, <1>5, <1>6 DEF CurlObeys, Succeeded

\* What has been sent was allowed, what is to be sent next is, and a run tells of
\* its answer only at its end.
THEOREM CurlInvariant == CurlSpec => []CurlInv
<1> QED BY CurlBegins, CurlStepKeeps, PTL DEF CurlSpec

\* No redirect, name resolution or late answer makes curl send what the policy
\* does not allow, more often than it allows, or deliver less than the whole of the
\* last answer (policy.go:85-103, 196-230, curl.go:233-306), for any policy.
THEOREM CurlAlwaysObeys == CurlSpec => []CurlObeys
<1> QED BY CurlInvariant, CurlInvObeys, PTL

-----------------------------------------------------------------------------
(* sqlite3: what the statements of one run do, by induction over the list;  *)
(* then the invariant, one lemma for each step; then the theorems.           *)

\* What the runs in order make of the rows, one after the other.
MakesInTurn(f, runs, rows, order) ==
  /\ Serial(runs, rows, order) = f[Len(order)]
  /\ f[0] = rows
  /\ \A i \in 1 .. Len(order) :
       f[i] = executeAll(f[i - 1], runs[order[i]].statements, runs[order[i]].bail).rows

LEMMA SerialIs ==
  ASSUME NEW runs, NEW rows, NEW S, NEW order \in Seq(S)
  PROVE  \E f : MakesInTurn(f, runs, rows, order)
<1> DEFINE Result(was, i) == executeAll(was, runs[order[i]].statements, runs[order[i]].bail).rows
           Is(f, n) == f = [i \in 0 .. n |-> IF i = 0 THEN rows ELSE Result(f[i - 1], i)]
<1>1. Len(order) \in Nat
  BY LenProperties
<1>2. \A n \in Nat : \E f : Is(f, n)
  <2> HIDE DEF Result
  <2> DEFINE T == {n \in Nat : \E f : Is(f, n)}
  <2>1. 0 \in T
    <3>1. Is([i \in 0 .. 0 |-> rows], 0)
      OBVIOUS
    <3> QED BY <3>1
  <2>2. ASSUME NEW n \in Nat, n \in T PROVE n + 1 \in T
    <3>1. PICK f : Is(f, n)
      BY <2>2
    <3> DEFINE g == [i \in 0 .. n + 1 |-> IF i <= n THEN f[i] ELSE Result(f[n], n + 1)]
    <3>2. \A i \in 0 .. n + 1 : g[i] = IF i = 0 THEN rows ELSE Result(g[i - 1], i)
      BY <3>1
    <3>3. Is(g, n + 1)
      BY <3>2
    <3>4. \E h : Is(h, n + 1)
      <4> HIDE DEF Is
      <4> QED BY <3>3
    <3> QED BY <3>4
  <2>3. Nat \subseteq T
    <3> HIDE DEF T
    <3> QED BY <2>1, <2>2, Induct
  <2> QED BY <2>3
<1> DEFINE After == CHOOSE f : Is(f, Len(order))
<1>3. Is(After, Len(order))
  <2> HIDE DEF Is
  <2> QED BY <1>1, <1>2
<1>4. Serial(runs, rows, order) = After[Len(order)]
  BY DEF Serial
<1> HIDE DEF After
<1>5. After[0] = rows
  BY <1>1, <1>3
<1>6. \A i \in 1 .. Len(order) : After[i] = Result(After[i - 1], i)
  <2> HIDE DEF Result
  <2> QED BY <1>1, <1>3
<1> QED BY <1>4, <1>5, <1>6 DEF MakesInTurn

\* Nobody leaves the rows as they are.
LEMMA SerialNobody ==
  ASSUME NEW runs, NEW rows PROVE Serial(runs, rows, <<>>) = rows
<1>1. <<>> \in Seq({0}) /\ Len(<<>>) = 0
  BY EmptySeq
<1>2. PICK f : MakesInTurn(f, runs, rows, <<>>)
  BY <1>1, SerialIs
<1> QED BY <1>1, <1>2 DEF MakesInTurn

\* One run more: what the last one makes of the others' work.
LEMMA SerialAppend ==
  ASSUME NEW runs, NEW rows, NEW S, NEW order \in Seq(S), NEW r \in S
  PROVE  Serial(runs, rows, Append(order, r)) =
           executeAll(Serial(runs, rows, order), runs[r].statements, runs[r].bail).rows
<1> DEFINE next == Append(order, r)
           Result(was, q) == executeAll(was, runs[q].statements, runs[q].bail).rows
<1>1. /\ order \in Seq(S) /\ next \in Seq(S) /\ Len(order) \in Nat /\ Len(next) = Len(order) + 1
      /\ \A i \in 1 .. Len(order) : next[i] = order[i]
      /\ next[Len(order) + 1] = r
  BY LenProperties, AppendProperties
<1> HIDE DEF next
<1>2. PICK f : MakesInTurn(f, runs, rows, order)
  BY <1>1, SerialIs
<1>3. PICK g : MakesInTurn(g, runs, rows, next)
  BY <1>1, SerialIs
<1>4. /\ Serial(runs, rows, order) = f[Len(order)]
      /\ f[0] = rows /\ \A i \in 1 .. Len(order) : f[i] = Result(f[i - 1], order[i])
      /\ Serial(runs, rows, next) = g[Len(next)]
      /\ g[0] = rows /\ \A i \in 1 .. Len(next) : g[i] = Result(g[i - 1], next[i])
  BY <1>2, <1>3 DEF MakesInTurn
<1> HIDE DEF Result
<1>5. f[Len(order)] = g[Len(order)]
  <2> DEFINE T == {i \in Nat : i <= Len(order) => f[i] = g[i]}
  <2>1. 0 \in T
    BY <1>4
  <2>2. ASSUME NEW i \in Nat, i \in T PROVE i + 1 \in T
    BY <1>1, <1>4, <2>2
  <2>3. Nat \subseteq T
    <3> HIDE DEF T
    <3> QED BY <2>1, <2>2, Induct
  <2> QED BY <2>3, <1>1
<1>6. Serial(runs, rows, next) = Result(g[Len(order)], r)
  BY <1>1, <1>4
<1> QED BY <1>4, <1>5, <1>6 DEF next, Result

\* Without a doubled quote each statement is a text of its own.
LEMMA NextIsFirst ==
  ASSUME NEW S, NEW list \in Seq(S), list # <<>>, \A i \in DOMAIN list : ~list[i].flips
  PROVE  nextStatement(list) = 1
<1> DEFINE Flipped(n) == {i \in 1 .. n : list[i].flips}
           Even(n) == Cardinality(Flipped(n)) % 2 = 0
           ends == {n \in DOMAIN list : Even(n)}
<1>1. DOMAIN list = 1 .. Len(list) /\ Len(list) \in Nat /\ Len(list) > 0
  BY LenProperties, EmptySeq
<1>2. \A n \in 1 .. Len(list) : Flipped(n) = {}
  BY <1>1
<1>3. \A n \in 1 .. Len(list) : Even(n)
  <2>1. Cardinality({}) = 0
    BY FS_EmptySet
  <2>2. Cardinality({}) % 2 = 0
    BY <2>1
  <2>3. \A n \in 1 .. Len(list) : Cardinality(Flipped(n)) = 0
    <3> HIDE DEF Flipped
    <3> QED BY <1>2, <2>1
  <2> HIDE DEF Flipped
  <2> QED BY <2>3
<1>4. ends = 1 .. Len(list)
  <2> HIDE DEF Even
  <2> QED BY <1>1, <1>3
<1>5. nextStatement(list) = IF ends = {} THEN Len(list) ELSE Sets!Min(ends)
  BY DEF nextStatement
<1> HIDE DEF ends
<1>6. Sets!Min(ends) = 1
  BY <1>1, <1>4 DEF Sets!Min
<1> QED BY <1>1, <1>4, <1>5, <1>6

\* What the statements do is what their texts do, one after the other.
LEMMA ExecuteIs ==
  ASSUME NEW rows, NEW S, NEW list \in Seq(S), NEW bail
  PROVE  \E f : /\ executeAll(rows, list, bail) = f[Len(list)]
                /\ f[0] = Unexecuted(rows, list)
                /\ \A i \in 1 .. Len(list) : f[i] = executeText(f[i - 1], bail)
<1> DEFINE Is(f, n) == f = [i \in 0 .. n |-> IF i = 0 THEN Unexecuted(rows, list)
                                             ELSE executeText(f[i - 1], bail)]
<1>1. Len(list) \in Nat
  BY LenProperties
<1>2. \A n \in Nat : \E f : Is(f, n)
  <2> DEFINE T == {n \in Nat : \E f : Is(f, n)}
  <2>1. 0 \in T
    <3>1. Is([i \in 0 .. 0 |-> Unexecuted(rows, list)], 0)
      OBVIOUS
    <3> QED BY <3>1
  <2>2. ASSUME NEW n \in Nat, n \in T PROVE n + 1 \in T
    <3>1. PICK f : Is(f, n)
      BY <2>2
    <3> DEFINE g == [i \in 0 .. n + 1 |-> IF i <= n THEN f[i] ELSE executeText(f[n], bail)]
    <3>2. \A i \in 0 .. n + 1 : g[i] = IF i = 0 THEN Unexecuted(rows, list)
                                       ELSE executeText(g[i - 1], bail)
      BY <3>1
    <3>3. Is(g, n + 1)
      BY <3>2
    <3>4. \E h : Is(h, n + 1)
      <4> HIDE DEF Is
      <4> QED BY <3>3
    <3> QED BY <3>4
  <2>3. Nat \subseteq T
    <3> HIDE DEF T
    <3> QED BY <2>1, <2>2, Induct
  <2> QED BY <2>3
<1> DEFINE Step == CHOOSE f : Is(f, Len(list))
<1>3. Is(Step, Len(list))
  <2> HIDE DEF Is
  <2> QED BY <1>1, <1>2
<1>4. executeAll(rows, list, bail) = Step[Len(list)]
  BY DEF executeAll
<1> HIDE DEF Step
<1>5. Step[0] = Unexecuted(rows, list)
  BY <1>1, <1>3
<1>6. \A i \in 1 .. Len(list) : Step[i] = executeText(Step[i - 1], bail)
  BY <1>1, <1>3
<1> QED BY <1>4, <1>5, <1>6

Stepping == {"rest", "rows", "results", "modified"}

\* One statement by itself: an insertion that can be executed is seen, what was seen
\* stays seen, and only -bail ends the run before its statements do.
LEMMA OneText ==
  ASSUME NEW was, DOMAIN was = Stepping, NEW S, was.rest \in Seq(S), was.rest # <<>>,
         \A i \in DOMAIN was.rest : ~was.rest[i].flips, NEW bail
  PROVE  LET next == executeText(was, bail) IN
         /\ DOMAIN next = Stepping
         /\ \E x \in {Failed, 0, Len(next.rows)} :
              /\ next.results = Append(was.results, x)
              /\ \/ next.rest = SubSeq(was.rest, 2, Len(was.rest))
                 \/ bail /\ next.rest = <<>> /\ x = Failed
         /\ was.modified \/ was.rest[1].does = "insert" => next.modified
<1> DEFINE n == nextStatement(was.rest)
           text == SubSeq(was.rest, 1, n)
           after == SubSeq(was.rest, n + 1, Len(was.rest))
           Stops(rowsNow) == [was EXCEPT !.rows = rowsNow, !.rest = IF bail THEN <<>> ELSE after,
                                         !.results = Append(@, Failed)]
           done == queryStatement(was.rows, text)
           forbidden == \E j \in DOMAIN text : isForbidden(text[j])
           next == executeText(was, bail)
<1>1. n = 1
  BY NextIsFirst
<1>2. Len(was.rest) \in Nat /\ Len(was.rest) > 0 /\ DOMAIN was.rest = 1 .. Len(was.rest)
      /\ \A i \in 1 .. Len(was.rest) : was.rest[i] \in S
  BY LenProperties, EmptySeq
<1>3. DOMAIN text = {1} /\ text[1] = was.rest[1]
  <2>1. text \in Seq(S) /\ Len(text) = 1 /\ text[1] = was.rest[1]
    <3> HIDE DEF n
    <3> QED BY <1>1, <1>2, SubSeqProperties
  <2> HIDE DEF text
  <2> QED BY <2>1, LenProperties
<1>4. after = SubSeq(was.rest, 2, Len(was.rest))
  <2> HIDE DEF n
  <2> QED BY <1>1
<1>5. next = IF forbidden THEN Stops(was.rows)
             ELSE IF done.failed THEN Stops(done.rows)
             ELSE [rest |-> after, rows |-> done.rows,
                   results |-> Append(was.results, IF done.selects THEN Len(done.rows) ELSE 0),
                   modified |-> was.modified \/ ~isReadOnly(text[1])]
  BY DEF executeText
<1>6. was.rest[1].does = "insert" => ~forbidden /\ ~isReadOnly(text[1])
  <2> HIDE DEF text
  <2> QED BY <1>3 DEF isForbidden, isReadOnly
<1>7. was.rest[1].does = "insert" => ~done.failed
  <2>1. done.failed = ({i \in DOMAIN text : text[i].does = "fail"} # {})
    <3> HIDE DEF text
    <3> QED BY DEF queryStatement
  <2> HIDE DEF text
  <2> QED BY <2>1, <1>3
<1> HIDE DEF n, text, after, done, forbidden, next
<1>8. CASE forbidden
  <2>1. next = Stops(was.rows)
    BY <1>5, <1>8
  <2>2. DOMAIN next = Stepping /\ next.results = Append(was.results, Failed)
        /\ next.rest = (IF bail THEN <<>> ELSE after) /\ next.modified = was.modified
    BY <2>1 DEF Stepping
  <2> QED BY <2>2, <1>4, <1>6, <1>8 DEF next
<1>9. CASE ~forbidden /\ done.failed
  <2>1. next = Stops(done.rows)
    BY <1>5, <1>9
  <2>2. DOMAIN next = Stepping /\ next.results = Append(was.results, Failed)
        /\ next.rest = (IF bail THEN <<>> ELSE after) /\ next.modified = was.modified
    BY <2>1 DEF Stepping
  <2> QED BY <2>2, <1>4, <1>7, <1>9 DEF next
<1>10. CASE ~forbidden /\ ~done.failed
  <2>1. next = [rest |-> after, rows |-> done.rows,
                results |-> Append(was.results, IF done.selects THEN Len(done.rows) ELSE 0),
                modified |-> was.modified \/ ~isReadOnly(text[1])]
    BY <1>5, <1>10
  <2>2. DOMAIN next = Stepping /\ next.rest = after /\ next.rows = done.rows
        /\ next.results = Append(was.results, IF done.selects THEN Len(done.rows) ELSE 0)
        /\ next.modified = (was.modified \/ ~isReadOnly(text[1]))
    BY <2>1 DEF Stepping
  <2> QED BY <2>2, <1>4, <1>6, <1>10 DEF next
<1> QED BY <1>8, <1>9, <1>10

\* The first i statements are done, the others are left, and no insertion went unnoticed.
Goes(s, S, list, i) ==
  /\ s.rest \in Seq(S) /\ Len(s.rest) = Len(list) - i
  /\ \A k \in 1 .. Len(list) - i : s.rest[k] = list[i + k]
  /\ \A j \in 1 .. i : list[j].does = "insert" => s.modified
\* An error ended the run.
Stopped(s, bail) ==
  /\ bail /\ s.rest = <<>>
  /\ \E k \in 1 .. Len(s.results) : s.results[k] = Failed
Noticed(s, S, D, list, bail, i) ==
  DOMAIN s = Stepping /\ s.results \in Seq(D) /\ (Goes(s, S, list, i) \/ Stopped(s, bail))

\* What is left of a list after i elements has the others; after one more, its tail.
LEMMA RestOfList ==
  ASSUME NEW S, NEW list \in Seq(S), NEW i \in Nat, i < Len(list), NEW rest \in Seq(S),
         Len(rest) = Len(list) - i, \A k \in 1 .. Len(list) - i : rest[k] = list[i + k]
  PROVE  /\ rest # <<>> /\ DOMAIN rest = 1 .. Len(list) - i /\ rest[1] = list[i + 1]
         /\ \A k \in 1 .. Len(list) - i : i + k \in 1 .. Len(list)
         /\ LET more == SubSeq(rest, 2, Len(rest)) IN
            /\ more \in Seq(S) /\ Len(more) = Len(list) - (i + 1)
            /\ \A k \in 1 .. Len(list) - (i + 1) : more[k] = list[(i + 1) + k]
<1>1. Len(list) \in Nat /\ Len(rest) \in Nat /\ Len(rest) > 0 /\ Len(<<>>) = 0
      /\ \A k \in 1 .. Len(rest) : rest[k] \in S
  BY LenProperties, EmptySeq
<1> DEFINE more == SubSeq(rest, 2, Len(rest))
<1>2. /\ more \in Seq(S)
      /\ Len(more) = IF 2 <= Len(rest) THEN Len(rest) - 2 + 1 ELSE 0
      /\ \A k \in 1 .. Len(rest) - 2 + 1 : more[k] = rest[2 + k - 1]
  BY <1>1, SubSeqProperties
<1> HIDE DEF more
<1>3. Len(more) = Len(list) - (i + 1)
  BY <1>1, <1>2
<1>4. ASSUME NEW k \in 1 .. Len(list) - (i + 1) PROVE more[k] = list[(i + 1) + k]
  <2>1. more[k] = rest[k + 1] /\ k + 1 \in 1 .. Len(list) - i /\ i + (k + 1) = (i + 1) + k
    BY <1>1, <1>2
  <2> QED BY <2>1
<1>5. rest # <<>> /\ DOMAIN rest = 1 .. Len(list) - i /\ rest[1] = list[i + 1]
  BY <1>1, LenProperties
<1>6. \A k \in 1 .. Len(list) - i : i + k \in 1 .. Len(list)
  BY <1>1
<1> QED BY <1>2, <1>3, <1>4, <1>5, <1>6 DEF more

\* One text more, and still no insertion went unnoticed.
LEMMA OneMoreIsNoticed ==
  ASSUME NEW S, NEW list \in Seq(S), NEW bail, \A k \in 1 .. Len(list) : ~list[k].flips,
         NEW i \in Nat, i < Len(list), NEW D, NEW s, Noticed(s, S, D, list, bail, i),
         {Failed, 0, Len(executeText(s, bail).rows)} \subseteq D
  PROVE  Noticed(executeText(s, bail), S, D, list, bail, i + 1)
<1> DEFINE next == executeText(s, bail)
<1>1. Len(list) \in Nat /\ DOMAIN list = 1 .. Len(list)
      /\ \A k \in 1 .. Len(list) : list[k] \in S
  BY LenProperties
<1>2. CASE Stopped(s, bail)
  <2>1. next = s
    BY <1>2 DEF Stopped, executeText
  <2> QED BY <1>2, <2>1 DEF Noticed
<1>3. CASE Goes(s, S, list, i)
  <2>1. /\ s.rest \in Seq(S) /\ Len(s.rest) = Len(list) - i
        /\ \A k \in 1 .. Len(list) - i : s.rest[k] = list[i + k]
        /\ \A j \in 1 .. i : list[j].does = "insert" => s.modified
    BY <1>3 DEF Goes
  <2>2. DOMAIN s.rest = 1 .. Len(list) - i /\ s.rest # <<>> /\ s.rest[1] = list[i + 1]
    BY <2>1, RestOfList
  <2>3. \A k \in DOMAIN s.rest : ~s.rest[k].flips
    <3>1. \A k \in 1 .. Len(list) - i : i + k \in 1 .. Len(list)
      BY <2>1, RestOfList
    <3> QED BY <2>1, <2>2, <3>1
  <2>4. /\ DOMAIN next = Stepping
        /\ \E x \in {Failed, 0, Len(next.rows)} :
             /\ next.results = Append(s.results, x)
             /\ \/ next.rest = SubSeq(s.rest, 2, Len(s.rest))
                \/ bail /\ next.rest = <<>> /\ x = Failed
        /\ s.modified \/ s.rest[1].does = "insert" => next.modified
    <3>1. DOMAIN s = Stepping
      BY DEF Noticed
    <3> QED BY <2>1, <2>2, <2>3, <3>1, OneText
  <2> HIDE DEF next
  <2>5. PICK x \in {Failed, 0, Len(next.rows)} :
             /\ next.results = Append(s.results, x)
             /\ \/ next.rest = SubSeq(s.rest, 2, Len(s.rest))
                \/ bail /\ next.rest = <<>> /\ x = Failed
    BY <2>4
  <2>6. s.results \in Seq(D) /\ x \in D
    BY DEF Noticed, next
  <2>7. next.results \in Seq(D) /\ next.results[Len(s.results) + 1] = x
        /\ Len(next.results) = Len(s.results) + 1 /\ Len(s.results) \in Nat
    BY <2>5, <2>6, AppendProperties, LenProperties
  <2>8. CASE next.rest = SubSeq(s.rest, 2, Len(s.rest))
    <3>5. \A j \in 1 .. i + 1 : list[j].does = "insert" => next.modified
      <4> TAKE j \in 1 .. i + 1
      <4>1. CASE j = i + 1
        BY <2>2, <2>4, <4>1
      <4>2. CASE j \in 1 .. i
        BY <2>1, <2>4, <4>2
      <4> QED BY <4>1, <4>2
    <3>6. Goes(next, S, list, i + 1)
      BY <2>1, <2>8, <3>5, RestOfList DEF Goes
    <3> QED BY <2>4, <2>7, <3>6 DEF Noticed, next
  <2>9. CASE bail /\ next.rest = <<>> /\ x = Failed
    <3>1. Stopped(next, bail)
      BY <2>7, <2>9 DEF Stopped
    <3> QED BY <2>4, <2>7, <3>1 DEF Noticed, next
  <2> QED BY <2>5, <2>8, <2>9
<1> QED BY <1>2, <1>3 DEF Noticed

\* Statements without doubled quotes that insert something: either it is noticed, or
\* -bail has ended the run at an error.
LEMMA InsertsAreNoticed ==
  ASSUME NEW rows, NEW S, NEW list \in Seq(S), NEW bail,
         \A i \in 1 .. Len(list) : ~list[i].flips,
         \E i \in 1 .. Len(list) : list[i].does = "insert"
  PROVE  LET done == executeAll(rows, list, bail) IN
         done.modified \/ (bail /\ Failed \in Seqs!ToSet(done.results))
<1>1. Len(list) \in Nat /\ list \in Seq(S)
  BY LenProperties
<1>2. PICK f : /\ executeAll(rows, list, bail) = f[Len(list)]
               /\ f[0] = Unexecuted(rows, list)
               /\ \A i \in 1 .. Len(list) : f[i] = executeText(f[i - 1], bail)
  BY ExecuteIs
<1> DEFINE D == {Failed, 0} \cup {Len(f[i].rows) : i \in 0 .. Len(list)}
           T == {i \in Nat : i <= Len(list) => Noticed(f[i], S, D, list, bail, i)}
<1>3. 0 \in T
  <2>1. DOMAIN f[0] = Stepping /\ f[0].rest = list /\ f[0].results = <<>>
    BY <1>2 DEF Unexecuted, Stepping
  <2> HIDE DEF D
  <2>2. f[0].results \in Seq(D)
    BY <2>1, EmptySeq
  <2>3. Goes(f[0], S, list, 0)
    BY <1>1, <2>1 DEF Goes
  <2> QED BY <2>1, <2>2, <2>3 DEF Noticed
<1>4. ASSUME NEW i \in Nat, i \in T PROVE i + 1 \in T
  <2> SUFFICES ASSUME i + 1 <= Len(list) PROVE Noticed(f[i + 1], S, D, list, bail, i + 1)
    OBVIOUS
  <2>1. f[i + 1] = executeText(f[i], bail) /\ i < Len(list)
    BY <1>1, <1>2
  <2>2. {Failed, 0, Len(executeText(f[i], bail).rows)} \subseteq D
    BY <1>1, <2>1
  <2>3. Noticed(f[i], S, D, list, bail, i)
    <3> HIDE DEF D
    <3> QED BY <1>1, <1>4, <2>1
  <2> HIDE DEF D
  <2> QED BY <2>1, <2>2, <2>3, OneMoreIsNoticed
<1>5. Nat \subseteq T
  <2> HIDE DEF T
  <2> QED BY <1>3, <1>4, Induct
<1> DEFINE done == f[Len(list)]
<1>6. done.results \in Seq(D) /\ (Goes(done, S, list, Len(list)) \/ Stopped(done, bail))
  <2> HIDE DEF D
  <2>1. Noticed(done, S, D, list, bail, Len(list))
    BY <1>1, <1>5
  <2> QED BY <2>1 DEF Noticed
<1>7. CASE Goes(done, S, list, Len(list))
  BY <1>1, <1>2, <1>7 DEF Goes
<1>8. CASE Stopped(done, bail)
  <2> HIDE DEF D, done
  <2>1. DOMAIN done.results = 1 .. Len(done.results)
    BY <1>6, LenProperties
  <2>2. Failed \in Seqs!ToSet(done.results)
    BY <1>8, <2>1 DEF Stopped, Seqs!ToSet
  <2> QED BY <1>2, <1>8, <2>2 DEF Stopped, done
<1> QED BY <1>6, <1>7, <1>8

Fields == {"phase", "before", "file", "runs", "locks", "at", "granted", "cancelled", "copy",
           "results", "modified", "codes", "wrote", "code"}
RunPlaces == {"start", "waiting", "locked", "execute", "write", "release", "done"}
Inside == {"locked", "execute", "write", "release"}

\* The state of a run of sqlite3, and who asks for which database.
RunsOf(st) == DOMAIN st.runs
NameOf(st, r) == st.runs[r].database
Names(st) == {NameOf(st, r) : r \in RunsOf(st)}

\* Who has a lock, or was handed it.
Owns(st, r) == st.at[r] \in Inside \/ r \in st.granted

Shaped(st) ==
  /\ DOMAIN st = Fields
  /\ st.phase \in {"running", "done"} /\ st.runs \in SqliteRuns
  /\ st.at \in [RunsOf(st) -> RunPlaces]
  /\ st.granted \subseteq RunsOf(st) /\ st.cancelled \subseteq RunsOf(st)
  /\ st.locks \in [Names(st) -> [held : BOOLEAN, waiters : Seq(RunsOf(st))]]
  /\ DOMAIN st.copy = RunsOf(st) /\ DOMAIN st.results = RunsOf(st) /\ DOMAIN st.modified = RunsOf(st)
  /\ st.codes \in [RunsOf(st) -> {0, 1}]
  /\ st.wrote \in Seq(RunsOf(st))

\* A lock has one owner, and is held as long as there is one; a lock that was
\* handed over waits to be taken, or was given up on.
Owned(st) ==
  /\ \A q, r \in RunsOf(st) :
       Owns(st, q) /\ Owns(st, r) /\ NameOf(st, q) = NameOf(st, r) => q = r
  /\ \A r \in RunsOf(st) : Owns(st, r) => st.locks[NameOf(st, r)].held
  /\ \A name \in Names(st) : st.locks[name].held =>
       \E r \in RunsOf(st) : NameOf(st, r) = name /\ Owns(st, r)
  /\ \A r \in st.granted : st.at[r] = "waiting" \/ (st.at[r] = "done" /\ r \in st.cancelled)

\* Those who wait stand in line at a lock that is held, each of them once.
InLine(st, r) == \E i \in DOMAIN st.locks[NameOf(st, r)].waiters : st.locks[NameOf(st, r)].waiters[i] = r
Queued(st) ==
  /\ \A name \in Names(st) : LET line == st.locks[name].waiters IN
       /\ ~st.locks[name].held => line = <<>>
       /\ \A i \in DOMAIN line :
            NameOf(st, line[i]) = name /\ st.at[line[i]] = "waiting" /\ line[i] \notin st.granted
       /\ \A i, j \in DOMAIN line : line[i] = line[j] => i = j
  /\ \A r \in RunsOf(st) : st.at[r] = "waiting" /\ r \notin st.granted => InLine(st, r)

\* With one name for the database: the file is what those who wrote made of it in
\* turn, and who works on a copy works on that.
OneNameOf(st) == \A q, r \in RunsOf(st) : NameOf(st, q) = NameOf(st, r)
Works(st, r) == executeAll(st.file.rows, st.runs[r].statements, st.runs[r].bail)
Serialized(st) ==
  OneNameOf(st) =>
    /\ st.file.rows = Serial(st.runs, st.before.rows, st.wrote)
    /\ \A r \in RunsOf(st) :
         /\ st.at[r] = "execute" => st.copy[r] = st.file.rows
         /\ st.at[r] = "write" => st.copy[r] = Works(st, r).rows

\* What a run reports of what it did.
InsertsOf(st, r) ==
  /\ ~st.runs[r].readonly
  /\ \E i \in DOMAIN st.runs[r].statements : st.runs[r].statements[i].does = "insert"
  /\ \A i \in DOMAIN st.runs[r].statements : ~st.runs[r].statements[i].flips
Wrote(st, r) == \E i \in DOMAIN st.wrote : st.wrote[i] = r
Over == {"release", "done"}
ReportedOf(st, r) ==
  /\ st.codes[r] = 1 => st.at[r] \in Over
  /\ Wrote(st, r) => st.at[r] \in Over /\ (st.codes[r] = 1 => st.runs[r].bail)
  /\ st.at[r] \in Over /\ st.codes[r] = 0 /\ InsertsOf(st, r) => Wrote(st, r)
  /\ st.at[r] = "write" /\ InsertsOf(st, r) =>
       st.modified[r] \/ (st.runs[r].bail /\ Failed \in Seqs!ToSet(st.results[r]))
Reported(st) == \A r \in RunsOf(st) : ReportedOf(st, r)

\* At the end everybody is done, or stands in line.
Finished(st) ==
  st.phase = "done" =>
    \A r \in RunsOf(st) : st.at[r] = "done" \/ (st.at[r] = "waiting" /\ r \notin st.granted)

SqliteInv ==
  /\ command = "sqlite3"
  /\ Shaped(state) /\ Owned(state) /\ Queued(state) /\ Serialized(state) /\ Reported(state)
  /\ Finished(state)

\* A step inside the lock changes neither who has it nor who waits for it.
LEMMA InsideKeepsLocks ==
  ASSUME NEW s, NEW t, NEW r \in RunsOf(s), Shaped(s), Shaped(t), Owned(s), Queued(s),
         t.runs = s.runs, t.locks = s.locks, t.granted = s.granted, t.cancelled = s.cancelled,
         \A q \in RunsOf(s) \ {r} : t.at[q] = s.at[q],
         s.at[r] \in Inside, t.at[r] \in Inside
  PROVE  Owned(t) /\ Queued(t)
<1>1. RunsOf(t) = RunsOf(s) /\ Names(t) = Names(s) /\ \A q \in RunsOf(s) : NameOf(t, q) = NameOf(s, q)
  BY DEF RunsOf, Names, NameOf
<1>2. \A q \in RunsOf(s) : Owns(t, q) <=> Owns(s, q)
  BY DEF Owns
<1>3. r \notin s.granted
  BY DEF Owned, Inside
<1>4. Owned(t)
  <2>1. \A p, q \in RunsOf(t) :
          Owns(t, p) /\ Owns(t, q) /\ NameOf(t, p) = NameOf(t, q) => p = q
    BY <1>1, <1>2 DEF Owned
  <2>2. \A q \in RunsOf(t) : Owns(t, q) => t.locks[NameOf(t, q)].held
    BY <1>1, <1>2 DEF Owned
  <2>3. \A name \in Names(t) : t.locks[name].held =>
          \E q \in RunsOf(t) : NameOf(t, q) = name /\ Owns(t, q)
    BY <1>1, <1>2 DEF Owned
  <2>4. \A q \in t.granted : t.at[q] = "waiting" \/ (t.at[q] = "done" /\ q \in t.cancelled)
    BY <1>3 DEF Owned, Shaped
  <2> QED BY <2>1, <2>2, <2>3, <2>4 DEF Owned
<1>5. \A q \in RunsOf(s) : t.at[q] = "waiting" <=> s.at[q] = "waiting"
  BY DEF Inside
<1>6. \A q \in RunsOf(s) : InLine(t, q) <=> InLine(s, q)
  BY <1>1 DEF InLine
<1>7. \A name \in Names(s) : \A i \in DOMAIN s.locks[name].waiters : s.locks[name].waiters[i] \in RunsOf(s)
  <2> TAKE name \in Names(s)
  <2>1. s.locks[name].waiters \in Seq(RunsOf(s))
    BY DEF Shaped
  <2> QED BY <2>1, LenProperties
<1>8. Queued(t)
  BY <1>1, <1>5, <1>6, <1>7 DEF Queued
<1> QED BY <1>4, <1>8

\* Who does not touch the file, and works on what is there, keeps it serialized.
LEMMA SerializedStays ==
  ASSUME NEW s, NEW t, Serialized(s),
         t.runs = s.runs, t.before = s.before, t.file = s.file, t.wrote = s.wrote,
         OneNameOf(s) => \A q \in RunsOf(s) :
           \/ t.at[q] = s.at[q] /\ t.copy[q] = s.copy[q]
           \/ t.at[q] \notin {"execute", "write"}
           \/ t.at[q] = "execute" /\ t.copy[q] = t.file.rows
           \/ t.at[q] = "write" /\ t.copy[q] = Works(t, q).rows
  PROVE  Serialized(t)
<1>1. RunsOf(t) = RunsOf(s) /\ (OneNameOf(t) <=> OneNameOf(s))
      /\ \A q \in RunsOf(s) : Works(t, q) = Works(s, q)
  BY DEF RunsOf, OneNameOf, NameOf, Works
<1> QED BY <1>1 DEF Serialized

\* What somebody else reports does not change.
LEMMA ReportedStays ==
  ASSUME NEW s, NEW t, Reported(s), t.runs = s.runs, t.wrote = s.wrote,
         \A q \in RunsOf(s) :
           \/ /\ t.at[q] = s.at[q] /\ t.codes[q] = s.codes[q]
              /\ t.modified[q] = s.modified[q] /\ t.results[q] = s.results[q]
           \/ ReportedOf(t, q)
  PROVE  Reported(t)
<1>1. RunsOf(t) = RunsOf(s)
      /\ \A q \in RunsOf(s) : (Wrote(t, q) <=> Wrote(s, q)) /\ (InsertsOf(t, q) <=> InsertsOf(s, q))
  BY DEF RunsOf, Wrote, InsertsOf
<1> QED BY <1>1 DEF Reported, ReportedOf

\* Reading the file: a copy of what is there, or an error.
LEMMA ReadsKeeps ==
  ASSUME NEW r \in RunsOf(state), SqliteInv, SqliteReads(r)
  PROVE  SqliteInv'
<1> DEFINE t == state'
<1>1. /\ command' = "sqlite3" /\ DOMAIN state = Fields /\ state.phase = "running" /\ state.at[r] = "locked"
      /\ t = IF state.file.exists /\ Len(state.file.rows) > MaxDatabase THEN Fails(state, r, "release")
             ELSE GoesTo([state EXCEPT !.copy[r] = state.file.rows], r, "execute")
  BY DEF SqliteReads, IsAt, Becomes, SqliteInv, Shaped
<1> HIDE DEF t
<1>2. /\ DOMAIN t = Fields
      /\ \A f \in Fields \ {"at", "codes", "copy"} : t[f] = state[f]
      /\ \/ /\ t.at = [state.at EXCEPT ![r] = "release"] /\ t.codes = [state.codes EXCEPT ![r] = 1]
            /\ t.copy = state.copy
         \/ /\ t.at = [state.at EXCEPT ![r] = "execute"] /\ t.codes = state.codes
            /\ t.copy = [state.copy EXCEPT ![r] = state.file.rows]
  BY <1>1 DEF Fails, GoesTo, Fields
<1>3. /\ t.phase = "running" /\ t.before = state.before /\ t.file = state.file /\ t.runs = state.runs
      /\ t.locks = state.locks /\ t.granted = state.granted /\ t.cancelled = state.cancelled
      /\ t.results = state.results /\ t.modified = state.modified /\ t.wrote = state.wrote
  BY <1>1, <1>2 DEF Fields
<1>4. RunsOf(t) = RunsOf(state) /\ Names(t) = Names(state)
      /\ \A q \in RunsOf(state) : NameOf(t, q) = NameOf(state, q)
  BY <1>3 DEF RunsOf, Names, NameOf
<1>5. Shaped(t)
  <2>1. t.at \in [RunsOf(t) -> RunPlaces]
    BY <1>2, <1>4 DEF Shaped, SqliteInv, RunPlaces
  <2>2. DOMAIN t.copy = RunsOf(t)
    BY <1>2, <1>4 DEF Shaped, SqliteInv
  <2>3. t.codes \in [RunsOf(t) -> {0, 1}]
    BY <1>2, <1>4 DEF Shaped, SqliteInv
  <2> QED BY <1>2, <1>3, <1>4, <2>1, <2>2, <2>3 DEF Shaped, SqliteInv
<1>6. t.at[r] \in {"release", "execute"} /\ \A q \in RunsOf(state) \ {r} : t.at[q] = state.at[q]
  BY <1>2 DEF Shaped, SqliteInv
<1>7. Owned(t) /\ Queued(t)
  BY <1>1, <1>3, <1>5, <1>6, InsideKeepsLocks DEF SqliteInv, Inside
<1>8. Serialized(t)
  <2>1. t.at[r] = "release" \/ (t.at[r] = "execute" /\ t.copy[r] = t.file.rows)
    BY <1>2, <1>3 DEF Shaped, SqliteInv
  <2>2. \A q \in RunsOf(state) \ {r} : t.at[q] = state.at[q] /\ t.copy[q] = state.copy[q]
    BY <1>2, <1>6 DEF Shaped, SqliteInv
  <2> QED BY <1>3, <2>1, <2>2, SerializedStays DEF SqliteInv
<1>9. Reported(t)
  <2>1. ReportedOf(state, r) /\ state.codes[r] \in {0, 1} /\ state.at[r] = "locked"
    BY <1>1 DEF Reported, Shaped, SqliteInv
  <2>2. (t.at[r] = "release" /\ t.codes[r] = 1) \/ (t.at[r] = "execute" /\ t.codes[r] = 0)
    BY <1>2, <2>1 DEF Shaped, SqliteInv, ReportedOf, Over
  <2>3. ~Wrote(t, r)
    BY <1>3, <2>1 DEF Wrote, ReportedOf, Over
  <2>4. ReportedOf(t, r)
    BY <2>2, <2>3 DEF ReportedOf, Over
  <2>5. \A q \in RunsOf(state) \ {r} : t.at[q] = state.at[q] /\ t.codes[q] = state.codes[q]
    BY <1>2, <1>6 DEF Shaped, SqliteInv
  <2> QED BY <1>3, <2>4, <2>5, ReportedStays DEF SqliteInv
<1>10. Finished(t)
  BY <1>3 DEF Finished
<1> QED BY <1>1, <1>5, <1>7, <1>8, <1>9, <1>10 DEF SqliteInv, t

\* The statements run on the copy; that an insertion is noticed is what the lemmas on
\* lists say.
LEMMA ExecutesKeeps ==
  ASSUME NEW r \in RunsOf(state), SqliteInv, SqliteExecutes(r)
  PROVE  SqliteInv'
<1> DEFINE t == state'
           list == state.runs[r].statements
           bail == state.runs[r].bail
           done == executeAll(state.copy[r], list, bail)
<1>1. /\ command' = "sqlite3" /\ DOMAIN state = Fields /\ state.phase = "running" /\ state.at[r] = "execute"
      /\ \/ t = Fails(state, r, "release")
         \/ t = GoesTo([state EXCEPT !.copy[r] = done.rows, !.results[r] = done.results,
                                     !.modified[r] = done.modified], r, "write")
  BY DEF SqliteExecutes, IsAt, Becomes, SqliteInv, Shaped
<1> HIDE DEF t, done
<1>2. /\ DOMAIN t = Fields
      /\ \A f \in Fields \ {"at", "codes", "copy", "results", "modified"} : t[f] = state[f]
      /\ \/ /\ t.at = [state.at EXCEPT ![r] = "release"] /\ t.codes = [state.codes EXCEPT ![r] = 1]
            /\ t.copy = state.copy /\ t.results = state.results /\ t.modified = state.modified
         \/ /\ t.at = [state.at EXCEPT ![r] = "write"] /\ t.codes = state.codes
            /\ t.copy = [state.copy EXCEPT ![r] = done.rows]
            /\ t.results = [state.results EXCEPT ![r] = done.results]
            /\ t.modified = [state.modified EXCEPT ![r] = done.modified]
  BY <1>1 DEF Fails, GoesTo, Fields
<1>3. /\ t.phase = "running" /\ t.before = state.before /\ t.file = state.file /\ t.runs = state.runs
      /\ t.locks = state.locks /\ t.granted = state.granted /\ t.cancelled = state.cancelled
      /\ t.wrote = state.wrote
  BY <1>1, <1>2 DEF Fields
<1>4. RunsOf(t) = RunsOf(state) /\ Names(t) = Names(state)
      /\ \A q \in RunsOf(state) : NameOf(t, q) = NameOf(state, q)
  BY <1>3 DEF RunsOf, Names, NameOf
<1>5. Shaped(t)
  <2>1. t.at \in [RunsOf(t) -> RunPlaces]
    <3>1. PICK place \in RunPlaces : t.at = [state.at EXCEPT ![r] = place]
      BY <1>2 DEF RunPlaces
    <3> QED BY <1>4, <3>1 DEF Shaped, SqliteInv
  <2>2. t.codes \in [RunsOf(t) -> {0, 1}]
    BY <1>2, <1>4 DEF Shaped, SqliteInv
  <2>3. DOMAIN t.copy = RunsOf(t) /\ DOMAIN t.results = RunsOf(t) /\ DOMAIN t.modified = RunsOf(t)
    BY <1>2, <1>4 DEF Shaped, SqliteInv
  <2> QED BY <1>2, <1>3, <1>4, <2>1, <2>2, <2>3 DEF Shaped, SqliteInv
<1>6. t.at[r] \in {"release", "write"} /\ \A q \in RunsOf(state) \ {r} : t.at[q] = state.at[q]
  BY <1>2 DEF Shaped, SqliteInv
<1>7. Owned(t) /\ Queued(t)
  BY <1>1, <1>3, <1>5, <1>6, InsideKeepsLocks DEF SqliteInv, Inside
<1>8. Serialized(t)
  <2>1. t.at[r] = "release" \/ (t.at[r] = "write" /\ t.copy[r] = done.rows)
    BY <1>2, <1>3 DEF Shaped, SqliteInv
  <2>2. OneNameOf(state) => done = Works(t, r)
    BY <1>1, <1>3 DEF done, Works, Serialized, SqliteInv
  <2>3. \A q \in RunsOf(state) \ {r} : t.at[q] = state.at[q] /\ t.copy[q] = state.copy[q]
    BY <1>2, <1>6 DEF Shaped, SqliteInv
  <2> QED BY <1>3, <2>1, <2>2, <2>3, SerializedStays DEF SqliteInv
<1>9. Reported(t)
  <2>1. ReportedOf(state, r) /\ state.codes[r] \in {0, 1} /\ state.at[r] = "execute"
    BY <1>1 DEF Reported, Shaped, SqliteInv
  <2>2. \/ t.at[r] = "release" /\ t.codes[r] = 1
        \/ t.at[r] = "write" /\ t.codes[r] = 0 /\ t.modified[r] = done.modified /\ t.results[r] = done.results
    BY <1>2, <2>1 DEF Shaped, SqliteInv, ReportedOf, Over
  <2>3. ~Wrote(t, r)
    BY <1>3, <2>1 DEF Wrote, ReportedOf, Over
  <2>4. InsertsOf(t, r) => done.modified \/ (bail /\ Failed \in Seqs!ToSet(done.results))
    <3> SUFFICES ASSUME InsertsOf(t, r) PROVE done.modified \/ (bail /\ Failed \in Seqs!ToSet(done.results))
      OBVIOUS
    <3>1. list \in Seq(Seqs!ToSet(list))
      BY SqliteAssumption DEF Shaped, SqliteInv, RunsOf
    <3>2. DOMAIN list = 1 .. Len(list)
      BY <3>1, LenProperties
    <3>3. (\E i \in 1 .. Len(list) : list[i].does = "insert") /\ \A i \in 1 .. Len(list) : ~list[i].flips
      BY <1>3, <3>2 DEF InsertsOf
    <3> HIDE DEF list, bail
    <3> QED BY <3>1, <3>3, InsertsAreNoticed DEF done
  <2>5. ReportedOf(t, r)
    BY <1>3, <2>2, <2>3, <2>4 DEF ReportedOf, Over
  <2>6. \A q \in RunsOf(state) \ {r} :
          /\ t.at[q] = state.at[q] /\ t.codes[q] = state.codes[q]
          /\ t.modified[q] = state.modified[q] /\ t.results[q] = state.results[q]
    BY <1>2, <1>6 DEF Shaped, SqliteInv
  <2> QED BY <1>3, <2>5, <2>6, ReportedStays DEF SqliteInv
<1>10. Finished(t)
  BY <1>3 DEF Finished
<1> QED BY <1>1, <1>5, <1>7, <1>8, <1>9, <1>10 DEF SqliteInv, t

\* The copy replaces the file: nobody else works on one meanwhile, so the file is what
\* this run makes of what was there.
LEMMA SqliteWritesKeeps ==
  ASSUME NEW r \in RunsOf(state), SqliteInv, SqliteWrites(r)
  PROVE  SqliteInv'
<1> DEFINE t == state'
           writes == state.modified[r] /\ ~state.runs[r].readonly
           wrote == [state EXCEPT !.file = Rows(state.copy[r]), !.wrote = Append(@, r)]
<1>1. /\ command' = "sqlite3" /\ DOMAIN state = Fields /\ state.phase = "running" /\ state.at[r] = "write"
      /\ \/ writes /\ t = Fails(state, r, "release")
         \/ ~writes /\ Bailed(r) /\ t = Fails(state, r, "release")
         \/ writes /\ Bailed(r) /\ t = Fails(wrote, r, "release")
         \/ writes /\ ~Bailed(r) /\ t = GoesTo(wrote, r, "release")
         \/ ~writes /\ ~Bailed(r) /\ t = GoesTo(state, r, "release")
  BY DEF SqliteWrites, IsAt, Becomes, SqliteInv, Shaped
<1> HIDE DEF t, writes
<1>2. /\ DOMAIN t = Fields
      /\ \A f \in Fields \ {"at", "codes", "file", "wrote"} : t[f] = state[f]
      /\ t.at = [state.at EXCEPT ![r] = "release"]
      /\ \/ /\ t.codes = [state.codes EXCEPT ![r] = 1] /\ (writes \/ Bailed(r))
            /\ t.file = state.file /\ t.wrote = state.wrote
         \/ /\ t.codes = [state.codes EXCEPT ![r] = 1] /\ writes /\ Bailed(r)
            /\ t.file = Rows(state.copy[r]) /\ t.wrote = Append(state.wrote, r)
         \/ /\ t.codes = state.codes /\ writes
            /\ t.file = Rows(state.copy[r]) /\ t.wrote = Append(state.wrote, r)
         \/ /\ t.codes = state.codes /\ ~writes /\ ~Bailed(r)
            /\ t.file = state.file /\ t.wrote = state.wrote
  BY <1>1 DEF Fails, GoesTo, Fields
<1>3. /\ t.phase = "running" /\ t.before = state.before /\ t.runs = state.runs /\ t.copy = state.copy
      /\ t.locks = state.locks /\ t.granted = state.granted /\ t.cancelled = state.cancelled
      /\ t.results = state.results /\ t.modified = state.modified
  BY <1>1, <1>2 DEF Fields
<1>4. RunsOf(t) = RunsOf(state) /\ Names(t) = Names(state)
      /\ \A q \in RunsOf(state) : NameOf(t, q) = NameOf(state, q)
  BY <1>3 DEF RunsOf, Names, NameOf
<1>5. state.wrote \in Seq(RunsOf(state)) /\ Append(state.wrote, r) \in Seq(RunsOf(state))
      /\ \A q \in RunsOf(state) :
           (\E i \in DOMAIN Append(state.wrote, r) : Append(state.wrote, r)[i] = q) <=> Wrote(state, q) \/ q = r
  <2> DEFINE old == state.wrote
             new == Append(old, r)
  <2>1. old \in Seq(RunsOf(state))
    BY DEF SqliteInv, Shaped
  <2> HIDE DEF old
  <2>2. /\ new \in Seq(RunsOf(state)) /\ DOMAIN old = 1 .. Len(old) /\ Len(old) \in Nat
        /\ Len(new) = Len(old) + 1
        /\ (\A i \in 1 .. Len(old) : new[i] = old[i]) /\ new[Len(old) + 1] = r
    BY <2>1, AppendProperties, LenProperties
  <2>3. DOMAIN new = 1 .. Len(old) + 1
    BY <2>2, LenProperties
  <2> HIDE DEF new
  <2>4. \A q \in RunsOf(state) :
          (\E i \in DOMAIN new : new[i] = q) <=> (\E i \in DOMAIN old : old[i] = q) \/ q = r
    BY <2>2, <2>3
  <2> QED BY <2>1, <2>2, <2>4 DEF old, new, Wrote
<1>6. Shaped(t)
  <2>1. t.at \in [RunsOf(t) -> RunPlaces] /\ t.codes \in [RunsOf(t) -> {0, 1}]
    BY <1>2, <1>4 DEF Shaped, SqliteInv, RunPlaces
  <2>2. t.wrote \in Seq(RunsOf(t))
    BY <1>2, <1>4, <1>5
  <2> QED BY <1>2, <1>3, <1>4, <2>1, <2>2 DEF Shaped, SqliteInv
<1>7. t.at[r] = "release" /\ \A q \in RunsOf(state) \ {r} : t.at[q] = state.at[q]
  BY <1>2 DEF Shaped, SqliteInv
<1>8. Owned(t) /\ Queued(t)
  BY <1>1, <1>3, <1>6, <1>7, InsideKeepsLocks DEF SqliteInv, Inside
<1>9. Serialized(t)
  <2>1. CASE t.file = state.file /\ t.wrote = state.wrote
    BY <1>3, <1>7, <2>1, SerializedStays DEF SqliteInv
  <2>2. CASE t.file = Rows(state.copy[r]) /\ t.wrote = Append(state.wrote, r)
    <3> SUFFICES ASSUME OneNameOf(state) PROVE Serialized(t)
      BY <1>4 DEF Serialized, OneNameOf
    <3>1. \A q \in RunsOf(state) \ {r} : state.at[q] \notin Inside
      BY <1>1 DEF Owned, Owns, SqliteInv, OneNameOf, Inside
    <3>2. state.copy[r] = Works(state, r).rows /\ state.file.rows = Serial(state.runs, state.before.rows, state.wrote)
      BY <1>1 DEF Serialized, SqliteInv
    <3>3. Serial(state.runs, state.before.rows, Append(state.wrote, r)) = Works(state, r).rows
      BY <1>5, <3>2, SerialAppend DEF Works
    <3>4. t.file.rows = Serial(t.runs, t.before.rows, t.wrote)
      BY <1>3, <2>2, <3>2, <3>3 DEF Rows
    <3>5. \A q \in RunsOf(t) : t.at[q] \notin {"execute", "write"}
      BY <1>4, <1>7, <3>1 DEF Inside
    <3> QED BY <3>4, <3>5 DEF Serialized
  <2> QED BY <1>2, <2>1, <2>2
<1>10. Reported(t)
  <2> SUFFICES ASSUME NEW q \in RunsOf(state) PROVE ReportedOf(t, q)
    BY <1>4 DEF Reported
  <2>1. ReportedOf(state, q) /\ (InsertsOf(t, q) <=> InsertsOf(state, q))
    BY <1>3 DEF Reported, SqliteInv, InsertsOf
  <2>2. CASE q = r
    <3>1. ~Wrote(state, r) /\ state.codes[r] = 0 /\ t.at[r] = "release"
      BY <1>1, <1>7, <2>1, <2>2 DEF ReportedOf, Over, Shaped, SqliteInv
    <3>2. InsertsOf(t, r) => state.modified[r] \/ Bailed(r)
      BY <1>1, <2>1, <2>2 DEF ReportedOf, Bailed
    <3>3. InsertsOf(t, r) => writes \/ Bailed(r)
      BY <1>3, <3>2 DEF writes, InsertsOf
    <3>4. CASE t.codes = [state.codes EXCEPT ![r] = 1] /\ t.wrote = state.wrote
      <4>1. ~Wrote(t, r) /\ t.codes[r] = 1
        BY <3>1, <3>4 DEF Wrote, Shaped, SqliteInv
      <4> QED BY <2>2, <3>1, <4>1 DEF ReportedOf, Over
    <3>5. CASE t.codes = [state.codes EXCEPT ![r] = 1] /\ Bailed(r) /\ t.wrote = Append(state.wrote, r)
      <4>1. t.codes[r] = 1 /\ t.runs[r].bail
        BY <1>3, <3>5 DEF Bailed, Shaped, SqliteInv
      <4> QED BY <2>2, <3>1, <4>1 DEF ReportedOf, Over
    <3>6. CASE t.codes = state.codes /\ t.wrote = Append(state.wrote, r)
      <4>1. Wrote(t, r) /\ t.codes[r] = 0
        BY <1>5, <3>1, <3>6 DEF Wrote
      <4> QED BY <2>2, <3>1, <4>1 DEF ReportedOf, Over
    <3>7. CASE t.codes = state.codes /\ ~writes /\ ~Bailed(r) /\ t.wrote = state.wrote
      <4>1. ~Wrote(t, r) /\ t.codes[r] = 0 /\ ~InsertsOf(t, r)
        BY <3>1, <3>3, <3>7 DEF Wrote
      <4> QED BY <2>2, <3>1, <4>1 DEF ReportedOf, Over
    <3> QED BY <1>2, <3>4, <3>5, <3>6, <3>7
  <2>3. CASE q # r
    <3>1. t.at[q] = state.at[q] /\ t.codes[q] = state.codes[q]
      BY <1>2, <1>7, <2>3 DEF Shaped, SqliteInv
    <3>2. Wrote(t, q) <=> Wrote(state, q)
      BY <1>2, <1>5, <2>3 DEF Wrote
    <3> QED BY <1>3, <2>1, <3>1, <3>2 DEF ReportedOf
  <2> QED BY <2>2, <2>3
<1>11. Finished(t)
  BY <1>3 DEF Finished
<1> QED BY <1>1, <1>6, <1>8, <1>9, <1>10, <1>11 DEF SqliteInv, t

\* Who leaves a line in which everybody stands once is no longer in it, the others are.
LEMMA WithoutOne ==
  ASSUME NEW S, NEW line \in Seq(S), NEW r,
         \A i, j \in DOMAIN line : line[i] = line[j] => i = j
  PROVE  LET left == Seqs!RemoveFirst(line, r) IN
         /\ left \in Seq(S)
         /\ \A i, j \in DOMAIN left : left[i] = left[j] => i = j
         /\ \A q : (\E i \in DOMAIN left : left[i] = q) <=> q # r /\ \E i \in DOMAIN line : line[i] = q
<1> DEFINE left == Seqs!RemoveFirst(line, r)
           I == {i \in 1 .. Len(line) : line[i] = r}
           k == Sets!Min(I)
<1>1. DOMAIN line = 1 .. Len(line) /\ Len(line) \in Nat /\ \A i \in 1 .. Len(line) : line[i] \in S
  BY LenProperties
<1>2. CASE I = {}
  <2>1. left = line
    BY <1>2 DEF Seqs!RemoveFirst
  <2> HIDE DEF left
  <2> QED BY <1>1, <1>2, <2>1 DEF left
<1>3. CASE I # {}
  <2>1. k \in I
    <3>1. \E x \in I : \A y \in I : x <= y
      <4>1. I \subseteq Nat
        OBVIOUS
      <4> HIDE DEF I
      <4> QED BY <1>3, <4>1, MinimumExists
    <3> HIDE DEF I
    <3> QED BY <3>1 DEF Sets!Min
  <2>2. left = SubSeq(line, 1, k - 1) \o SubSeq(line, k + 1, Len(line))
    BY <1>3 DEF Seqs!RemoveFirst, Seqs!RemoveAt, Seqs!SelectInSeq, Seqs!Min, Sets!Min
  <2> DEFINE a == SubSeq(line, 1, k - 1)
             b == SubSeq(line, k + 1, Len(line))
  <2>3. k \in 1 .. Len(line) /\ line[k] = r
    <3> HIDE DEF k
    <3> QED BY <2>1
  <2> HIDE DEF k, left
  <2>4. /\ a \in Seq(S) /\ Len(a) = k - 1 /\ \A i \in 1 .. k - 1 : a[i] = line[i]
    <3>1. \A i \in 1 .. k - 1 : line[i] \in S
      BY <1>1, <2>3
    <3>2. /\ a \in Seq(S) /\ Len(a) = (IF 1 <= k - 1 THEN k - 1 - 1 + 1 ELSE 0)
          /\ \A i \in 1 .. k - 1 - 1 + 1 : a[i] = line[1 + i - 1]
      BY <2>3, <3>1, SubSeqProperties
    <3> HIDE DEF a
    <3> QED BY <2>3, <3>2
  <2>5. /\ b \in Seq(S) /\ Len(b) = Len(line) - k /\ \A i \in 1 .. Len(line) - k : b[i] = line[k + i]
    <3>1. \A i \in k + 1 .. Len(line) : line[i] \in S
      BY <1>1, <2>3
    <3>2. /\ b \in Seq(S) /\ Len(b) = (IF k + 1 <= Len(line) THEN Len(line) - (k + 1) + 1 ELSE 0)
          /\ \A i \in 1 .. Len(line) - (k + 1) + 1 : b[i] = line[k + 1 + i - 1]
      BY <1>1, <2>3, <3>1, SubSeqProperties
    <3> HIDE DEF b
    <3>3. Len(b) = Len(line) - k /\ Len(line) - (k + 1) + 1 = Len(line) - k
      <4>1. k \in Int /\ k <= Len(line) /\ Len(line) \in Int
        BY <1>1, <2>3
      <4>2. Len(b) = (IF k + 1 <= Len(line) THEN Len(line) - (k + 1) + 1 ELSE 0)
        BY <3>2
      <4> QED BY <4>1, <4>2
    <3>4. ASSUME NEW i \in 1 .. Len(line) - k PROVE b[i] = line[k + i]
      <4>1. k + 1 + i - 1 = k + i /\ i \in 1 .. Len(line) - (k + 1) + 1
        BY <1>1, <2>3
      <4> QED BY <3>2, <4>1
    <3> QED BY <3>2, <3>3, <3>4
  <2> HIDE DEF a, b
  <2>6. /\ left \in Seq(S) /\ Len(left) = Len(line) - 1
        /\ \A i \in 1 .. Len(left) : left[i] = IF i < k THEN line[i] ELSE line[i + 1]
    <3>1. left \in Seq(S) /\ Len(left) = Len(a) + Len(b)
          /\ \A i \in 1 .. Len(a) + Len(b) : left[i] = IF i <= Len(a) THEN a[i] ELSE b[i - Len(a)]
      BY <2>2, <2>4, <2>5, ConcatProperties DEF a, b
    <3>2. Len(left) = Len(line) - 1
      BY <1>1, <2>3, <2>4, <2>5, <3>1
    <3>3. ASSUME NEW i \in 1 .. Len(left) PROVE left[i] = IF i < k THEN line[i] ELSE line[i + 1]
      <4>1. CASE i < k
        BY <1>1, <2>3, <2>4, <2>5, <3>1, <3>2, <4>1
      <4>2. CASE ~(i < k)
        <5>1. left[i] = b[i - (k - 1)] /\ i - (k - 1) \in 1 .. Len(line) - k
          BY <1>1, <2>3, <2>4, <2>5, <3>1, <3>2, <4>2
        <5>2. k + (i - (k - 1)) = i + 1
          BY <2>3, <3>2, <1>1
        <5> QED BY <2>5, <4>2, <5>1, <5>2
      <4> QED BY <4>1, <4>2
    <3> QED BY <3>1, <3>2, <3>3
  <2>7. DOMAIN left = 1 .. Len(line) - 1
    BY <2>6, LenProperties
  <2>8. \A i \in DOMAIN left : \E j \in DOMAIN line : j # k /\ left[i] = line[j] /\ (j = IF i < k THEN i ELSE i + 1)
    <3> TAKE i \in DOMAIN left
    <3>1. CASE i < k
      BY <1>1, <2>3, <2>6, <2>7, <3>1
    <3>2. CASE ~(i < k)
      <4>1. i + 1 \in DOMAIN line /\ i + 1 # k /\ left[i] = line[i + 1]
        BY <1>1, <2>3, <2>6, <2>7, <3>2
      <4> QED BY <3>2, <4>1
    <3> QED BY <3>1, <3>2
  <2>9. \A i, j \in DOMAIN left : left[i] = left[j] => i = j
    BY <1>1, <2>3, <2>7, <2>8
  <2>10. ASSUME NEW j \in DOMAIN line, j # k PROVE \E i \in DOMAIN left : left[i] = line[j]
    <3>1. CASE j < k
      BY <1>1, <2>3, <2>6, <2>7, <3>1
    <3>2. CASE ~(j < k)
      <4>1. j - 1 \in DOMAIN left /\ ~(j - 1 < k) /\ (j - 1) + 1 = j
        BY <1>1, <2>3, <2>7, <2>10, <3>2
      <4>2. left[j - 1] = line[j]
        BY <2>6, <2>7, <4>1
      <4> QED BY <4>1, <4>2
    <3> QED BY <3>1, <3>2
  <2>11. ASSUME NEW q
         PROVE  (\E i \in DOMAIN left : left[i] = q) <=> q # r /\ \E i \in DOMAIN line : line[i] = q
    <3>1. \A j \in DOMAIN line : line[j] = r => j = k
      BY <1>1, <2>3
    <3> QED BY <2>3, <2>8, <2>10, <3>1
  <2> QED BY <2>6, <2>9, <2>11 DEF left
<1> QED BY <1>2, <1>3

\* A step at one lock leaves those at the others as they are.
LEMMA OwnedStays ==
  ASSUME NEW s, NEW t, NEW name \in Names(s), Owned(s), t.runs = s.runs,
         s.granted \subseteq RunsOf(s), t.granted \subseteq RunsOf(s),
         s.cancelled \subseteq t.cancelled,
         \A other \in Names(s) \ {name} : t.locks[other] = s.locks[other],
         \A q \in RunsOf(s) : NameOf(s, q) # name =>
           t.at[q] = s.at[q] /\ (q \in t.granted <=> q \in s.granted),
         \A p, q \in RunsOf(s) :
           NameOf(s, p) = name /\ NameOf(s, q) = name /\ Owns(t, p) /\ Owns(t, q) => p = q,
         \A q \in RunsOf(s) : NameOf(s, q) = name /\ Owns(t, q) => t.locks[name].held,
         t.locks[name].held => \E q \in RunsOf(s) : NameOf(s, q) = name /\ Owns(t, q),
         \A q \in t.granted : NameOf(s, q) = name =>
           t.at[q] = "waiting" \/ (t.at[q] = "done" /\ q \in t.cancelled)
  PROVE  Owned(t)
<1>1. RunsOf(t) = RunsOf(s) /\ Names(t) = Names(s) /\ \A q \in RunsOf(s) : NameOf(t, q) = NameOf(s, q)
  BY DEF RunsOf, Names, NameOf
<1>2. \A q \in RunsOf(s) : NameOf(s, q) \in Names(s)
  BY DEF Names
<1>3. \A q \in RunsOf(s) : NameOf(s, q) # name => (Owns(t, q) <=> Owns(s, q))
  BY DEF Owns
<1>4. \A p, q \in RunsOf(t) :
        Owns(t, p) /\ Owns(t, q) /\ NameOf(t, p) = NameOf(t, q) => p = q
  BY <1>1, <1>3 DEF Owned
<1>5. \A q \in RunsOf(t) : Owns(t, q) => t.locks[NameOf(t, q)].held
  BY <1>1, <1>2, <1>3 DEF Owned
<1>6. ASSUME NEW other \in Names(t), t.locks[other].held
      PROVE  \E q \in RunsOf(t) : NameOf(t, q) = other /\ Owns(t, q)
  <2>1. CASE other = name
    BY <1>1, <1>6, <2>1
  <2>2. CASE other # name
    <3>1. PICK q \in RunsOf(s) : NameOf(s, q) = other /\ Owns(s, q)
      BY <1>1, <1>6, <2>2 DEF Owned
    <3> QED BY <1>1, <1>3, <2>2, <3>1
  <2> QED BY <2>1, <2>2
<1>7. \A q \in t.granted : t.at[q] = "waiting" \/ (t.at[q] = "done" /\ q \in t.cancelled)
  BY DEF Owned
<1> QED BY <1>4, <1>5, <1>6, <1>7 DEF Owned

LEMMA QueuedStays ==
  ASSUME NEW s, NEW t, NEW name \in Names(s), Queued(s), t.runs = s.runs,
         \A other \in Names(s) : s.locks[other].waiters \in Seq(RunsOf(s)),
         \A other \in Names(s) \ {name} : t.locks[other] = s.locks[other],
         \A q \in RunsOf(s) : NameOf(s, q) # name =>
           t.at[q] = s.at[q] /\ (q \in t.granted <=> q \in s.granted),
         ~t.locks[name].held => t.locks[name].waiters = <<>>,
         \A i \in DOMAIN t.locks[name].waiters :
           LET q == t.locks[name].waiters[i] IN
           NameOf(s, q) = name /\ t.at[q] = "waiting" /\ q \notin t.granted,
         \A i, j \in DOMAIN t.locks[name].waiters :
           t.locks[name].waiters[i] = t.locks[name].waiters[j] => i = j,
         \A q \in RunsOf(s) : NameOf(s, q) = name /\ t.at[q] = "waiting" /\ q \notin t.granted =>
           \E i \in DOMAIN t.locks[name].waiters : t.locks[name].waiters[i] = q
  PROVE  Queued(t)
<1>1. RunsOf(t) = RunsOf(s) /\ Names(t) = Names(s) /\ \A q : NameOf(t, q) = NameOf(s, q)
  BY DEF RunsOf, Names, NameOf
<1>2. \A q \in RunsOf(s) : NameOf(s, q) \in Names(s)
  BY DEF Names
<1>3. ASSUME NEW other \in Names(t)
      PROVE  LET line == t.locks[other].waiters IN
             /\ ~t.locks[other].held => line = <<>>
             /\ \A i \in DOMAIN line :
                  NameOf(t, line[i]) = other /\ t.at[line[i]] = "waiting" /\ line[i] \notin t.granted
             /\ \A i, j \in DOMAIN line : line[i] = line[j] => i = j
  <2>1. CASE other = name
    BY <1>1, <2>1
  <2>2. CASE other # name
    <3> DEFINE line == s.locks[other].waiters
    <3>1. t.locks[other] = s.locks[other] /\ other \in Names(s)
      BY <1>1, <2>2
    <3>2. line \in Seq(RunsOf(s)) /\ (~s.locks[other].held => line = <<>>)
          /\ (\A i \in DOMAIN line :
                NameOf(s, line[i]) = other /\ s.at[line[i]] = "waiting" /\ line[i] \notin s.granted)
          /\ \A i, j \in DOMAIN line : line[i] = line[j] => i = j
      BY <3>1 DEF Queued
    <3>3. \A i \in DOMAIN line : line[i] \in RunsOf(s)
      BY <3>2, LenProperties
    <3>4. \A i \in DOMAIN line : t.at[line[i]] = "waiting" /\ line[i] \notin t.granted
      BY <2>2, <3>2, <3>3
    <3> QED BY <1>1, <3>1, <3>2, <3>4
  <2> QED BY <2>1, <2>2
<1>4. ASSUME NEW q \in RunsOf(t), t.at[q] = "waiting", q \notin t.granted PROVE InLine(t, q)
  <2>1. CASE NameOf(s, q) = name
    BY <1>1, <1>4, <2>1 DEF InLine
  <2>2. CASE NameOf(s, q) # name
    <3>1. InLine(s, q)
      BY <1>1, <1>4, <2>2 DEF Queued
    <3> QED BY <1>1, <1>2, <1>4, <2>2, <3>1 DEF InLine
  <2> QED BY <2>1, <2>2
<1> QED BY <1>3, <1>4 DEF Queued

\* Who comes takes the lock, or the last place in the line.
LEMMA AcquireKeeps ==
  ASSUME NEW r \in RunsOf(state), SqliteInv, SqliteAcquire(r)
  PROVE  SqliteInv'
<1> DEFINE t == state'
           name == NameOf(state, r)
           line == state.locks[name].waiters
<1>1. /\ command' = "sqlite3" /\ DOMAIN state = Fields /\ state.phase = "running" /\ state.at[r] = "start"
      /\ \/ /\ state.locks[name].held
            /\ t = GoesTo([state EXCEPT !.locks[name].waiters = Append(@, r)], r, "waiting")
         \/ /\ ~state.locks[name].held
            /\ t = GoesTo([state EXCEPT !.locks[name].held = TRUE], r, "locked")
  BY DEF SqliteAcquire, IsAt, Becomes, SqliteInv, Shaped, Name, NameOf
<1> HIDE DEF t
<1>2. /\ DOMAIN t = Fields
      /\ \A f \in Fields \ {"at", "locks"} : t[f] = state[f]
      /\ \/ /\ t.at = [state.at EXCEPT ![r] = "waiting"] /\ state.locks[name].held
            /\ t.locks = [state.locks EXCEPT ![name].waiters = Append(@, r)]
         \/ /\ t.at = [state.at EXCEPT ![r] = "locked"] /\ ~state.locks[name].held
            /\ t.locks = [state.locks EXCEPT ![name].held = TRUE]
  BY <1>1 DEF GoesTo, Fields
<1>3. /\ t.phase = "running" /\ t.before = state.before /\ t.file = state.file /\ t.runs = state.runs
      /\ t.granted = state.granted /\ t.cancelled = state.cancelled /\ t.copy = state.copy
      /\ t.results = state.results /\ t.modified = state.modified /\ t.codes = state.codes
      /\ t.wrote = state.wrote
  BY <1>1, <1>2 DEF Fields
<1>4. RunsOf(t) = RunsOf(state) /\ Names(t) = Names(state) /\ name \in Names(state)
  BY <1>3 DEF RunsOf, Names, NameOf
<1>5. /\ line \in Seq(RunsOf(state)) /\ state.locks[name].held \in BOOLEAN
      /\ DOMAIN state.locks[name] = {"held", "waiters"} /\ DOMAIN state.locks = Names(state)
      /\ (~state.locks[name].held => line = <<>>)
  BY <1>4 DEF Shaped, Queued, SqliteInv
<1>6. /\ \A q \in RunsOf(state) \ {r} : t.at[q] = state.at[q]
      /\ \A other \in Names(state) \ {name} : t.locks[other] = state.locks[other]
      /\ t.locks[name].held = TRUE
      /\ \/ /\ t.at[r] = "waiting" /\ state.locks[name].held
            /\ t.locks[name].waiters = Append(line, r)
         \/ /\ t.at[r] = "locked" /\ ~state.locks[name].held
            /\ t.locks[name].waiters = line
  BY <1>2, <1>4, <1>5 DEF Shaped, SqliteInv
<1> HIDE DEF name, line
<1>7. /\ Append(line, r) \in Seq(RunsOf(state)) /\ Len(line) \in Nat /\ DOMAIN line = 1 .. Len(line)
      /\ DOMAIN Append(line, r) = 1 .. Len(line) + 1
      /\ (\A i \in 1 .. Len(line) : Append(line, r)[i] = line[i] /\ line[i] \in RunsOf(state))
      /\ Append(line, r)[Len(line) + 1] = r
  BY <1>5, AppendProperties, LenProperties
<1>8. Shaped(t)
  <2>1. t.at \in [RunsOf(t) -> RunPlaces]
    <3>1. PICK place \in RunPlaces : t.at = [state.at EXCEPT ![r] = place]
      BY <1>2 DEF RunPlaces
    <3> QED BY <1>4, <3>1 DEF Shaped, SqliteInv
  <2>2. t.locks \in [Names(t) -> [held : BOOLEAN, waiters : Seq(RunsOf(t))]]
    <3>1. state.locks \in [Names(state) -> [held : BOOLEAN, waiters : Seq(RunsOf(state))]]
      BY DEF Shaped, SqliteInv
    <3>2. DOMAIN t.locks = Names(state) /\ t.locks = [n \in Names(state) |-> t.locks[n]]
      BY <1>2, <3>1
    <3>3. t.locks[name] \in [held : BOOLEAN, waiters : Seq(RunsOf(state))]
      <4>1. state.locks[name] \in [held : BOOLEAN, waiters : Seq(RunsOf(state))]
        BY <1>4, <3>1
      <4>2. \/ t.locks[name] = [state.locks[name] EXCEPT !.waiters = Append(line, r)]
            \/ t.locks[name] = [state.locks[name] EXCEPT !.held = TRUE]
        BY <1>2, <1>4, <3>1 DEF line
      <4> QED BY <1>7, <4>1, <4>2
    <3>4. \A n \in Names(state) : t.locks[n] \in [held : BOOLEAN, waiters : Seq(RunsOf(state))]
      BY <1>6, <3>1, <3>3
    <3> QED BY <1>4, <3>2, <3>4
  <2> QED BY <1>2, <1>3, <1>4, <2>1, <2>2 DEF Shaped, SqliteInv
<1>9. r \notin state.granted /\ ~Owns(state, r)
  BY <1>1 DEF SqliteInv, Owned, Owns, Inside
<1>10. \A q \in RunsOf(state) \ {r} : Owns(t, q) <=> Owns(state, q)
  BY <1>3, <1>6 DEF Owns
<1>11. Owned(t)
  <2>1. \A q \in RunsOf(state) : NameOf(state, q) = name /\ Owns(state, q) => state.locks[name].held
    BY DEF Owned, SqliteInv
  <2>2. state.locks[name].held => ~Owns(t, r)
    BY <1>3, <1>6, <1>9 DEF Owns, Inside
  <2>3. ~state.locks[name].held => Owns(t, r)
    BY <1>6 DEF Owns, Inside
  <2>4. \A p, q \in RunsOf(state) :
          NameOf(state, p) = name /\ NameOf(state, q) = name /\ Owns(t, p) /\ Owns(t, q) => p = q
    BY <1>10, <2>1, <2>2 DEF Owned, SqliteInv
  <2>5. \E q \in RunsOf(state) : NameOf(state, q) = name /\ Owns(t, q)
    <3>1. CASE state.locks[name].held
      <4>1. PICK q \in RunsOf(state) : NameOf(state, q) = name /\ Owns(state, q)
        BY <1>4, <3>1 DEF Owned, SqliteInv
      <4>2. q # r
        BY <1>9, <4>1
      <4> QED BY <1>10, <4>1, <4>2
    <3>2. CASE ~state.locks[name].held
      BY <2>3, <3>2 DEF name
    <3> QED BY <3>1, <3>2
  <2>6. \A q \in t.granted : t.at[q] = "waiting" \/ (t.at[q] = "done" /\ q \in t.cancelled)
    BY <1>3, <1>6, <1>9 DEF Owned, Shaped, SqliteInv
  <2>7. \A q \in RunsOf(state) : NameOf(state, q) # name => q # r
    BY DEF name
  <2> QED BY <1>3, <1>4, <1>6, <2>4, <2>5, <2>6, <2>7, OwnedStays DEF SqliteInv, Shaped
<1>12. Queued(t)
  <2>1. \A i \in 1 .. Len(line) : NameOf(state, line[i]) = name /\ state.at[line[i]] = "waiting"
                                  /\ line[i] \notin state.granted
    BY <1>4, <1>7 DEF Queued, SqliteInv, line
  <2>2. \A i \in 1 .. Len(line) : line[i] # r
    BY <1>1, <2>1
  <2>3. \A i, j \in 1 .. Len(line) : line[i] = line[j] => i = j
    BY <1>4, <1>7 DEF Queued, SqliteInv, line
  <2>4. \A q \in RunsOf(state) : NameOf(state, q) = name /\ state.at[q] = "waiting" /\ q \notin state.granted =>
          \E i \in 1 .. Len(line) : line[i] = q
    BY <1>7 DEF Queued, InLine, SqliteInv, line
  <2>5. \A other \in Names(state) : state.locks[other].waiters \in Seq(RunsOf(state))
    BY DEF Shaped, SqliteInv
  <2>6. \A q \in RunsOf(state) : NameOf(state, q) # name => q # r
    BY DEF name
  <2> DEFINE after == t.locks[name].waiters
  <2>7. CASE t.at[r] = "waiting" /\ after = Append(line, r)
    <3>1. \A i \in DOMAIN after : \/ i \in 1 .. Len(line) /\ after[i] = line[i]
                                  \/ i = Len(line) + 1 /\ after[i] = r
      BY <1>7, <2>7
    <3>2. \A i \in 1 .. Len(line) : i \in DOMAIN after /\ after[i] = line[i]
      BY <1>7, <2>7
    <3>3. Len(line) + 1 \in DOMAIN after /\ after[Len(line) + 1] = r
      BY <1>7, <2>7
    <3> HIDE DEF after
    <3>4. \A i \in DOMAIN after : NameOf(state, after[i]) = name /\ t.at[after[i]] = "waiting"
                                  /\ after[i] \notin t.granted
      BY <1>3, <1>6, <1>7, <1>9, <2>1, <2>2, <2>7, <3>1 DEF name
    <3>5. \A i, j \in DOMAIN after : after[i] = after[j] => i = j
      BY <2>2, <2>3, <3>1
    <3>6. \A q \in RunsOf(state) : NameOf(state, q) = name /\ t.at[q] = "waiting" /\ q \notin t.granted =>
            \E i \in DOMAIN after : after[i] = q
      BY <1>3, <1>6, <2>4, <3>2, <3>3
    <3> QED BY <1>3, <1>4, <1>6, <2>5, <2>6, <3>4, <3>5, <3>6, QueuedStays DEF SqliteInv, after
  <2>8. CASE t.at[r] = "locked" /\ after = line
    <3>1. \A i \in DOMAIN after : NameOf(state, after[i]) = name /\ t.at[after[i]] = "waiting"
                                  /\ after[i] \notin t.granted
      BY <1>3, <1>6, <1>7, <2>1, <2>2, <2>8
    <3>2. \A i, j \in DOMAIN after : after[i] = after[j] => i = j
      BY <1>7, <2>3, <2>8
    <3>3. \A q \in RunsOf(state) : NameOf(state, q) = name /\ t.at[q] = "waiting" /\ q \notin t.granted =>
            \E i \in DOMAIN after : after[i] = q
      BY <1>3, <1>6, <1>7, <2>4, <2>8
    <3> QED BY <1>3, <1>4, <1>6, <2>5, <2>6, <3>1, <3>2, <3>3, QueuedStays DEF SqliteInv
  <2> QED BY <1>6, <2>7, <2>8
<1>13. Serialized(t)
  BY <1>3, <1>6, SerializedStays DEF SqliteInv
<1>14. Reported(t)
  <2>1. ReportedOf(t, r)
    <3>1. ReportedOf(state, r)
      BY DEF Reported, SqliteInv
    <3>2. t.at[r] \notin Over \cup {"write"} /\ state.at[r] \notin Over /\ t.codes[r] = state.codes[r]
      BY <1>1, <1>3, <1>6 DEF Over
    <3>3. ~Wrote(t, r)
      BY <1>3, <3>1, <3>2 DEF Wrote, ReportedOf
    <3> QED BY <3>1, <3>2, <3>3 DEF ReportedOf, Over
  <2> QED BY <1>3, <1>6, <2>1, ReportedStays DEF SqliteInv
<1>15. Finished(t)
  BY <1>3 DEF Finished
<1> QED BY <1>1, <1>8, <1>11, <1>12, <1>13, <1>14, <1>15 DEF SqliteInv, t

\* Who was handed the lock takes it: it had it before.
LEMMA GrantedKeeps ==
  ASSUME NEW r \in RunsOf(state), SqliteInv, SqliteGranted(r)
  PROVE  SqliteInv'
<1> DEFINE t == state'
           name == NameOf(state, r)
<1>1. /\ command' = "sqlite3" /\ DOMAIN state = Fields /\ state.phase = "running" /\ state.at[r] = "waiting"
      /\ r \in state.granted
      /\ t = GoesTo([state EXCEPT !.granted = @ \ {r}], r, "locked")
  BY DEF SqliteGranted, IsAt, Becomes, SqliteInv, Shaped
<1> HIDE DEF t
<1>2. /\ DOMAIN t = Fields
      /\ \A f \in Fields \ {"at", "granted"} : t[f] = state[f]
      /\ t.at = [state.at EXCEPT ![r] = "locked"] /\ t.granted = state.granted \ {r}
  BY <1>1 DEF GoesTo, Fields
<1>3. /\ t.phase = "running" /\ t.before = state.before /\ t.file = state.file /\ t.runs = state.runs
      /\ t.locks = state.locks /\ t.cancelled = state.cancelled /\ t.copy = state.copy
      /\ t.results = state.results /\ t.modified = state.modified /\ t.codes = state.codes
      /\ t.wrote = state.wrote
  BY <1>1, <1>2 DEF Fields
<1>4. RunsOf(t) = RunsOf(state) /\ Names(t) = Names(state) /\ name \in Names(state)
      /\ \A q \in RunsOf(state) : NameOf(t, q) = NameOf(state, q)
  BY <1>3 DEF RunsOf, Names, NameOf
<1>5. t.at[r] = "locked" /\ \A q \in RunsOf(state) \ {r} : t.at[q] = state.at[q]
  BY <1>2 DEF Shaped, SqliteInv
<1>6. Shaped(t)
  <2>1. t.at \in [RunsOf(t) -> RunPlaces]
    BY <1>2, <1>4 DEF Shaped, SqliteInv, RunPlaces
  <2>2. t.granted \subseteq RunsOf(t)
    BY <1>2, <1>4 DEF Shaped, SqliteInv
  <2> QED BY <1>2, <1>3, <1>4, <2>1, <2>2 DEF Shaped, SqliteInv
<1>7. \A q \in RunsOf(state) : Owns(t, q) <=> Owns(state, q)
  BY <1>1, <1>2, <1>5 DEF Owns, Inside
<1>8. Owned(t)
  <2>1. \A p, q \in RunsOf(t) : Owns(t, p) /\ Owns(t, q) /\ NameOf(t, p) = NameOf(t, q) => p = q
    BY <1>4, <1>7 DEF Owned, SqliteInv
  <2>2. \A q \in RunsOf(t) : Owns(t, q) => t.locks[NameOf(t, q)].held
    BY <1>3, <1>4, <1>7 DEF Owned, SqliteInv
  <2>3. \A n \in Names(t) : t.locks[n].held => \E q \in RunsOf(t) : NameOf(t, q) = n /\ Owns(t, q)
    BY <1>3, <1>4, <1>7 DEF Owned, SqliteInv
  <2>4. \A q \in t.granted : t.at[q] = "waiting" \/ (t.at[q] = "done" /\ q \in t.cancelled)
    BY <1>2, <1>3, <1>5 DEF Owned, Shaped, SqliteInv
  <2> QED BY <2>1, <2>2, <2>3, <2>4 DEF Owned
<1>9. Queued(t)
  <2>1. \A n \in Names(state) : \A i \in DOMAIN state.locks[n].waiters :
          state.locks[n].waiters[i] \in RunsOf(state) /\ state.locks[n].waiters[i] # r
    <3> TAKE n \in Names(state)
    <3>1. state.locks[n].waiters \in Seq(RunsOf(state))
      BY DEF Shaped, SqliteInv
    <3>2. \A i \in DOMAIN state.locks[n].waiters : state.locks[n].waiters[i] \in RunsOf(state)
      BY <3>1, LenProperties
    <3>3. \A i \in DOMAIN state.locks[n].waiters : state.locks[n].waiters[i] \notin state.granted
      BY DEF Queued, SqliteInv
    <3> QED BY <1>1, <3>2, <3>3
  <2>2. ASSUME NEW n \in Names(state)
        PROVE  LET line == t.locks[n].waiters IN
               /\ ~t.locks[n].held => line = <<>>
               /\ \A i \in DOMAIN line :
                    NameOf(t, line[i]) = n /\ t.at[line[i]] = "waiting" /\ line[i] \notin t.granted
               /\ \A i, j \in DOMAIN line : line[i] = line[j] => i = j
    BY <1>2, <1>3, <1>4, <1>5, <2>1 DEF Queued, SqliteInv
  <2>3. \A q \in RunsOf(t) : t.at[q] = "waiting" /\ q \notin t.granted => InLine(t, q)
    BY <1>2, <1>3, <1>4, <1>5 DEF Queued, InLine, SqliteInv
  <2> QED BY <1>4, <2>2, <2>3 DEF Queued
<1>10. Serialized(t)
  BY <1>3, <1>5, SerializedStays DEF SqliteInv
<1>11. Reported(t)
  <2>1. ReportedOf(state, r)
    BY DEF Reported, SqliteInv
  <2>2. ReportedOf(t, r)
    BY <1>1, <1>3, <1>5, <2>1 DEF ReportedOf, Over, Wrote
  <2> QED BY <1>3, <1>5, <2>2, ReportedStays DEF SqliteInv
<1>12. Finished(t)
  BY <1>3 DEF Finished
<1> QED BY <1>1, <1>6, <1>8, <1>9, <1>10, <1>11, <1>12 DEF SqliteInv, t

\* The end of a context changes nothing by itself.
LEMMA CancelledKeeps ==
  ASSUME NEW r \in RunsOf(state), SqliteInv, SqliteCancelled(r)
  PROVE  SqliteInv'
<1> DEFINE t == state'
<1>1. /\ command' = "sqlite3" /\ DOMAIN state = Fields /\ state.phase = "running"
      /\ t = [state EXCEPT !.cancelled = @ \cup {r}]
  BY DEF SqliteCancelled, Becomes, SqliteInv, Shaped
<1> HIDE DEF t
<1>2. /\ DOMAIN t = Fields /\ t.cancelled = state.cancelled \cup {r}
      /\ t.phase = "running" /\ t.before = state.before /\ t.file = state.file /\ t.runs = state.runs
      /\ t.locks = state.locks /\ t.at = state.at /\ t.granted = state.granted /\ t.copy = state.copy
      /\ t.results = state.results /\ t.modified = state.modified /\ t.codes = state.codes
      /\ t.wrote = state.wrote
  BY <1>1 DEF Fields
<1>3. RunsOf(t) = RunsOf(state) /\ Names(t) = Names(state)
      /\ (\A q : NameOf(t, q) = NameOf(state, q)) /\ (\A q : Owns(t, q) <=> Owns(state, q))
      /\ \A q : InLine(t, q) <=> InLine(state, q)
  BY <1>2 DEF RunsOf, Names, NameOf, Owns, InLine
<1>4. Shaped(t)
  BY <1>2, <1>3 DEF Shaped, SqliteInv
<1>5. Owned(t)
  BY <1>2, <1>3 DEF Owned, SqliteInv
<1>6. Queued(t)
  BY <1>2, <1>3 DEF Queued, SqliteInv
<1>7. Serialized(t)
  BY <1>2, SerializedStays DEF SqliteInv
<1>8. Reported(t)
  BY <1>2, ReportedStays DEF SqliteInv
<1>9. Finished(t)
  BY <1>2 DEF Finished
<1> QED BY <1>1, <1>4, <1>5, <1>6, <1>7, <1>8, <1>9 DEF SqliteInv, t

\* Nothing is left to do.
LEMMA EndsKeeps ==
  ASSUME SqliteInv, SqliteEnds
  PROVE  SqliteInv'
<1> DEFINE t == state'
<1>1. /\ command' = "sqlite3" /\ DOMAIN state = Fields
      /\ t = [state EXCEPT !.phase = "done", !.code = 0]
      /\ \A r \in RunsOf(state) : state.at[r] = "done" \/ LeftWaiting(r)
  BY DEF SqliteEnds, Becomes, Runs, Done, SqliteInv, Shaped, RunsOf
<1> HIDE DEF t
<1>2. /\ DOMAIN t = Fields /\ t.cancelled = state.cancelled
      /\ t.phase = "done" /\ t.before = state.before /\ t.file = state.file /\ t.runs = state.runs
      /\ t.locks = state.locks /\ t.at = state.at /\ t.granted = state.granted /\ t.copy = state.copy
      /\ t.results = state.results /\ t.modified = state.modified /\ t.codes = state.codes
      /\ t.wrote = state.wrote
  BY <1>1 DEF Fields
<1>3. RunsOf(t) = RunsOf(state) /\ Names(t) = Names(state)
      /\ (\A q : NameOf(t, q) = NameOf(state, q)) /\ (\A q : Owns(t, q) <=> Owns(state, q))
      /\ \A q : InLine(t, q) <=> InLine(state, q)
  BY <1>2 DEF RunsOf, Names, NameOf, Owns, InLine
<1>4. Shaped(t)
  BY <1>2, <1>3 DEF Shaped, SqliteInv
<1>5. Owned(t)
  BY <1>2, <1>3 DEF Owned, SqliteInv
<1>6. Queued(t)
  BY <1>2, <1>3 DEF Queued, SqliteInv
<1>7. Serialized(t)
  BY <1>2, SerializedStays DEF SqliteInv
<1>8. Reported(t)
  BY <1>2, ReportedStays DEF SqliteInv
<1>9. Finished(t)
  BY <1>1, <1>2, <1>3 DEF Finished, LeftWaiting
<1> QED BY <1>1, <1>4, <1>5, <1>6, <1>7, <1>8, <1>9 DEF SqliteInv, t

\* Who gave up: it has left the line it stood in; the lock it may have been handed
\* stays handed to it.
LEMMA AbandonsKeeps ==
  ASSUME NEW r \in RunsOf(state), SqliteInv, SqliteAbandons(r)
  PROVE  SqliteInv'
<1> DEFINE t == state'
           name == NameOf(state, r)
           line == state.locks[name].waiters
           left == Seqs!RemoveFirst(line, r)
<1>1. /\ command' = "sqlite3" /\ DOMAIN state = Fields /\ state.phase = "running" /\ state.at[r] = "waiting"
      /\ r \in state.cancelled
      /\ t = Fails([state EXCEPT !.locks[name].waiters = left], r, "done")
  BY DEF SqliteAbandons, IsAt, Becomes, SqliteInv, Shaped, Name, NameOf
<1> HIDE DEF t, left
<1>2. /\ DOMAIN t = Fields
      /\ \A f \in Fields \ {"at", "locks", "codes"} : t[f] = state[f]
      /\ t.at = [state.at EXCEPT ![r] = "done"]
      /\ t.codes = [state.codes EXCEPT ![r] = 1]
      /\ t.locks = [state.locks EXCEPT ![name].waiters = left]
  BY <1>1 DEF Fails, Fields
<1>3. /\ t.phase = "running" /\ t.before = state.before /\ t.file = state.file /\ t.runs = state.runs
      /\ t.granted = state.granted /\ t.cancelled = state.cancelled /\ t.copy = state.copy
      /\ t.results = state.results /\ t.modified = state.modified /\ t.wrote = state.wrote
  BY <1>1, <1>2 DEF Fields
<1>4. RunsOf(t) = RunsOf(state) /\ Names(t) = Names(state) /\ name \in Names(state)
  BY <1>3 DEF RunsOf, Names, NameOf
<1>5. /\ state.locks[name] \in [held : BOOLEAN, waiters : Seq(RunsOf(state))]
      /\ DOMAIN state.locks = Names(state)
      /\ (~state.locks[name].held => line = <<>>)
      /\ (\A i \in DOMAIN line :
            NameOf(state, line[i]) = name /\ state.at[line[i]] = "waiting" /\ line[i] \notin state.granted)
      /\ \A i, j \in DOMAIN line : line[i] = line[j] => i = j
  BY <1>4 DEF Shaped, Queued, SqliteInv
<1>6. /\ \A q \in RunsOf(state) \ {r} : t.at[q] = state.at[q] /\ t.codes[q] = state.codes[q]
      /\ t.at[r] = "done" /\ t.codes[r] = 1
      /\ \A other \in Names(state) \ {name} : t.locks[other] = state.locks[other]
      /\ t.locks[name] = [state.locks[name] EXCEPT !.waiters = left]
  BY <1>2, <1>4, <1>5 DEF Shaped, SqliteInv
<1>7. t.locks[name].held = state.locks[name].held /\ t.locks[name].waiters = left
  BY <1>5, <1>6
<1> HIDE DEF name, line
<1>8. /\ left \in Seq(RunsOf(state))
      /\ \A i, j \in DOMAIN left : left[i] = left[j] => i = j
      /\ \A q : (\E i \in DOMAIN left : left[i] = q) <=> q # r /\ \E i \in DOMAIN line : line[i] = q
  <2>1. line \in Seq(RunsOf(state))
    BY <1>5 DEF line
  <2> QED BY <1>5, <2>1, WithoutOne DEF left
<1>9. Shaped(t)
  <2>1. t.at \in [RunsOf(t) -> RunPlaces]
    BY <1>2, <1>4 DEF Shaped, SqliteInv, RunPlaces
  <2>2. t.locks \in [Names(t) -> [held : BOOLEAN, waiters : Seq(RunsOf(t))]]
    <3>1. state.locks \in [Names(state) -> [held : BOOLEAN, waiters : Seq(RunsOf(state))]]
      BY DEF Shaped, SqliteInv
    <3>2. DOMAIN t.locks = Names(state) /\ t.locks = [n \in Names(state) |-> t.locks[n]]
      BY <1>2, <3>1
    <3>3. t.locks[name] \in [held : BOOLEAN, waiters : Seq(RunsOf(state))]
      BY <1>5, <1>6, <1>8
    <3>4. \A n \in Names(state) : t.locks[n] \in [held : BOOLEAN, waiters : Seq(RunsOf(state))]
      BY <1>6, <3>1, <3>3
    <3> QED BY <1>4, <3>2, <3>4
  <2>3. t.codes \in [RunsOf(t) -> {0, 1}]
    BY <1>2, <1>4 DEF Shaped, SqliteInv
  <2> QED BY <1>2, <1>3, <1>4, <2>1, <2>2, <2>3 DEF Shaped, SqliteInv
<1>10. \A q \in RunsOf(state) : Owns(t, q) <=> Owns(state, q)
  BY <1>1, <1>3, <1>6 DEF Owns, Inside
<1>11. \A q \in RunsOf(state) : NameOf(state, q) # name => q # r
  BY DEF name
<1>12. Owned(t)
  <2>1. \A p, q \in RunsOf(state) :
          NameOf(state, p) = name /\ NameOf(state, q) = name /\ Owns(t, p) /\ Owns(t, q) => p = q
    BY <1>10 DEF Owned, SqliteInv
  <2>2. \A q \in RunsOf(state) : NameOf(state, q) = name /\ Owns(t, q) => t.locks[name].held
    BY <1>7, <1>10 DEF Owned, SqliteInv
  <2>3. t.locks[name].held => \E q \in RunsOf(state) : NameOf(state, q) = name /\ Owns(t, q)
    BY <1>4, <1>7, <1>10 DEF Owned, SqliteInv
  <2>4. \A q \in t.granted : t.at[q] = "waiting" \/ (t.at[q] = "done" /\ q \in t.cancelled)
    <3> TAKE q \in t.granted
    <3>1. q \in RunsOf(state) /\ (state.at[q] = "waiting" \/ (state.at[q] = "done" /\ q \in state.cancelled))
      BY <1>3 DEF Owned, Shaped, SqliteInv
    <3> QED BY <1>1, <1>3, <1>6, <3>1
  <2> QED BY <1>3, <1>4, <1>6, <1>11, <2>1, <2>2, <2>3, <2>4, OwnedStays DEF SqliteInv, Shaped
<1>13. Queued(t)
  <2>1. \A other \in Names(state) : state.locks[other].waiters \in Seq(RunsOf(state))
    BY DEF Shaped, SqliteInv
  <2>2. ~t.locks[name].held => left = <<>>
    <3> SUFFICES ASSUME ~t.locks[name].held PROVE left = <<>>
      OBVIOUS
    <3>1. DOMAIN line = {}
      BY <1>5, <1>7 DEF line
    <3>2. DOMAIN left = {}
      BY <1>8, <3>1
    <3> QED BY <1>8, <3>2, LenProperties, EmptySeq
  <2>3. \A i \in DOMAIN left : NameOf(state, left[i]) = name /\ t.at[left[i]] = "waiting" /\ left[i] \notin t.granted
    <3> TAKE i \in DOMAIN left
    <3>1. left[i] # r /\ \E j \in DOMAIN line : line[j] = left[i]
      BY <1>8
    <3>2. left[i] \in RunsOf(state)
      BY <1>8, LenProperties
    <3> QED BY <1>3, <1>5, <1>6, <3>1, <3>2 DEF line
  <2>4. \A q \in RunsOf(state) : NameOf(state, q) = name /\ t.at[q] = "waiting" /\ q \notin t.granted =>
          \E i \in DOMAIN left : left[i] = q
    <3> SUFFICES ASSUME NEW q \in RunsOf(state), NameOf(state, q) = name, t.at[q] = "waiting", q \notin t.granted
                 PROVE  \E i \in DOMAIN left : left[i] = q
      OBVIOUS
    <3>1. q # r /\ state.at[q] = "waiting" /\ q \notin state.granted
      BY <1>3, <1>6
    <3>2. \E i \in DOMAIN line : line[i] = q
      BY <3>1 DEF Queued, InLine, SqliteInv, line
    <3> QED BY <1>8, <3>1, <3>2
  <2>5. \A i, j \in DOMAIN left : left[i] = left[j] => i = j
    BY <1>8
  <2>6. \A q \in RunsOf(state) : NameOf(state, q) # name =>
          t.at[q] = state.at[q] /\ (q \in t.granted <=> q \in state.granted)
    BY <1>3, <1>6, <1>11
  <2>7. left = t.locks[name].waiters
    BY <1>7
  <2>8. Queued(state) /\ t.runs = state.runs
        /\ \A other \in Names(state) \ {name} : t.locks[other] = state.locks[other]
    BY <1>3, <1>6 DEF SqliteInv
  <2> QED BY <1>4, <2>1, <2>2, <2>3, <2>4, <2>5, <2>6, <2>7, <2>8, QueuedStays
<1>14. Serialized(t)
  BY <1>3, <1>6, SerializedStays DEF SqliteInv
<1>15. Reported(t)
  <2>1. ReportedOf(state, r)
    BY DEF Reported, SqliteInv
  <2>2. ReportedOf(t, r)
    BY <1>1, <1>3, <1>6, <2>1 DEF ReportedOf, Over, Wrote
  <2> QED BY <1>3, <1>6, <2>2, ReportedStays DEF SqliteInv
<1>16. Finished(t)
  BY <1>3 DEF Finished
<1> QED BY <1>1, <1>9, <1>12, <1>13, <1>14, <1>15, <1>16 DEF SqliteInv, t

\* Who is done hands the lock to the first in line, or frees it.
LEMMA ReleasesKeeps ==
  ASSUME NEW r \in RunsOf(state), SqliteInv, SqliteReleases(r)
  PROVE  SqliteInv'
<1> DEFINE t == state'
           name == NameOf(state, r)
           line == state.locks[name].waiters
           next == Head(line)
           rest == Tail(line)
<1>1. /\ command' = "sqlite3" /\ DOMAIN state = Fields /\ state.phase = "running" /\ state.at[r] = "release"
      /\ \/ line = <<>> /\ t = GoesTo([state EXCEPT !.locks[name] = Unlocked], r, "done")
         \/ line # <<>> /\ t = GoesTo([state EXCEPT !.locks[name].waiters = rest,
                                                    !.granted = @ \cup {next}], r, "done")
  BY DEF SqliteReleases, releaseLock, IsAt, Becomes, SqliteInv, Shaped, Name, NameOf
<1> HIDE DEF t
<1>2. /\ DOMAIN t = Fields
      /\ \A f \in Fields \ {"at", "locks", "granted"} : t[f] = state[f]
      /\ t.at = [state.at EXCEPT ![r] = "done"]
      /\ \/ line = <<>> /\ t.locks = [state.locks EXCEPT ![name] = Unlocked] /\ t.granted = state.granted
         \/ /\ line # <<>> /\ t.locks = [state.locks EXCEPT ![name].waiters = rest]
            /\ t.granted = state.granted \cup {next}
  BY <1>1 DEF GoesTo, Fields
<1>3. /\ t.phase = "running" /\ t.before = state.before /\ t.file = state.file /\ t.runs = state.runs
      /\ t.codes = state.codes /\ t.cancelled = state.cancelled /\ t.copy = state.copy
      /\ t.results = state.results /\ t.modified = state.modified /\ t.wrote = state.wrote
  BY <1>1, <1>2 DEF Fields
<1>4. RunsOf(t) = RunsOf(state) /\ Names(t) = Names(state) /\ name \in Names(state)
  BY <1>3 DEF RunsOf, Names, NameOf
<1>5. /\ state.locks[name] \in [held : BOOLEAN, waiters : Seq(RunsOf(state))]
      /\ DOMAIN state.locks = Names(state) /\ state.locks[name].held
      /\ (\A i \in DOMAIN line :
            NameOf(state, line[i]) = name /\ state.at[line[i]] = "waiting" /\ line[i] \notin state.granted)
      /\ (\A i, j \in DOMAIN line : line[i] = line[j] => i = j)
      /\ r \notin state.granted
      /\ \A q \in RunsOf(state) : NameOf(state, q) = name /\ Owns(state, q) => q = r
  BY <1>1, <1>4 DEF Shaped, Queued, Owned, Owns, Inside, SqliteInv
<1>6. /\ \A q \in RunsOf(state) \ {r} : t.at[q] = state.at[q]
      /\ t.at[r] = "done"
      /\ \A other \in Names(state) \ {name} : t.locks[other] = state.locks[other]
  <2>1. t.at[r] = "done" /\ \A q \in RunsOf(state) \ {r} : t.at[q] = state.at[q]
    BY <1>2 DEF Shaped, SqliteInv
  <2>2. \A other \in Names(state) \ {name} : t.locks[other] = state.locks[other]
    BY <1>2, <1>5
  <2> QED BY <2>1, <2>2
<1>7. /\ line = <<>> => t.locks[name] = Unlocked /\ t.granted = state.granted
      /\ line # <<>> => /\ t.locks[name] = [state.locks[name] EXCEPT !.waiters = rest]
                        /\ t.locks[name].held = TRUE /\ t.locks[name].waiters = rest
                        /\ t.granted = state.granted \cup {next}
  <2>1. ASSUME line = <<>> PROVE t.locks[name] = Unlocked /\ t.granted = state.granted
    <3>1. t.locks = [state.locks EXCEPT ![name] = Unlocked] /\ t.granted = state.granted
      BY <1>2, <2>1
    <3> QED BY <1>4, <1>5, <3>1
  <2>2. ASSUME line # <<>>
        PROVE  /\ t.locks[name] = [state.locks[name] EXCEPT !.waiters = rest]
               /\ t.locks[name].held = TRUE /\ t.locks[name].waiters = rest
               /\ t.granted = state.granted \cup {next}
    <3>1. t.locks = [state.locks EXCEPT ![name].waiters = rest] /\ t.granted = state.granted \cup {next}
      BY <1>2, <2>2
    <3>2. t.locks[name] = [state.locks[name] EXCEPT !.waiters = rest]
      BY <1>4, <1>5, <3>1
    <3>3. t.locks[name].held = TRUE /\ t.locks[name].waiters = rest
      <4> HIDE DEF rest, name
      <4> QED BY <1>5, <3>2
    <3> QED BY <3>1, <3>2, <3>3
  <2> QED BY <2>1, <2>2
<1> HIDE DEF name, line
<1>8. line \in Seq(RunsOf(state)) /\ \A i \in DOMAIN line : line[i] \in RunsOf(state)
  <2>1. line \in Seq(RunsOf(state))
    BY <1>5 DEF line
  <2> QED BY <2>1, LenProperties
<1>9. ASSUME line # <<>>
      PROVE  /\ rest \in Seq(RunsOf(state)) /\ next \in RunsOf(state)
             /\ \A q : (\E i \in DOMAIN line : line[i] = q) <=> q = next \/ \E i \in DOMAIN rest : rest[i] = q
             /\ \A i \in DOMAIN rest : rest[i] # next
             /\ \A i, j \in DOMAIN rest : rest[i] = rest[j] => i = j
  <2>1. /\ next \in RunsOf(state) /\ rest \in Seq(RunsOf(state)) /\ Len(rest) = Len(line) - 1
        /\ \A i \in 1 .. Len(rest) : rest[i] = line[i + 1]
    BY <1>8, <1>9, HeadTailProperties
  <2>2. /\ DOMAIN line = 1 .. Len(line) /\ Len(line) \in Nat /\ Len(line) > 0 /\ next = line[1]
        /\ DOMAIN rest = 1 .. Len(rest)
    BY <1>8, <1>9, <2>1, LenProperties, EmptySeq
  <2> HIDE DEF next, rest
  <2>3. \A i \in DOMAIN rest : i + 1 \in DOMAIN line /\ rest[i] = line[i + 1] /\ i \in Nat /\ i > 0
    BY <2>1, <2>2
  <2>4. \A i \in DOMAIN line : i = 1 \/ (i - 1 \in DOMAIN rest /\ rest[i - 1] = line[i])
    <3> TAKE i \in DOMAIN line
    <3>1. i \in Nat /\ (i = 1 \/ i - 1 \in DOMAIN rest)
      BY <2>1, <2>2
    <3> QED BY <2>1, <2>2, <3>1
  <2>5. 1 \in DOMAIN line
    BY <2>2
  <2>6. \A q : (\E i \in DOMAIN line : line[i] = q) <=> q = next \/ \E i \in DOMAIN rest : rest[i] = q
    BY <2>2, <2>3, <2>4, <2>5
  <2>7. \A i, j \in DOMAIN line : line[i] = line[j] => i = j
    BY <1>5 DEF line
  <2>8. \A i \in DOMAIN rest : rest[i] # next
    BY <2>2, <2>3, <2>5, <2>7
  <2>9. \A i, j \in DOMAIN rest : rest[i] = rest[j] => i = j
    <3> SUFFICES ASSUME NEW i \in DOMAIN rest, NEW j \in DOMAIN rest, rest[i] = rest[j] PROVE i = j
      OBVIOUS
    <3>1. i + 1 = j + 1 /\ i \in Nat /\ j \in Nat
      BY <2>3, <2>7
    <3> QED BY <3>1
  <2> QED BY <2>1, <2>6, <2>8, <2>9
<1> HIDE DEF next, rest
<1>10. Shaped(t)
  <2>1. t.at \in [RunsOf(t) -> RunPlaces]
    BY <1>2, <1>4 DEF Shaped, SqliteInv, RunPlaces
  <2>2. t.locks \in [Names(t) -> [held : BOOLEAN, waiters : Seq(RunsOf(t))]]
    <3>1. state.locks \in [Names(state) -> [held : BOOLEAN, waiters : Seq(RunsOf(state))]]
      BY DEF Shaped, SqliteInv
    <3>2. DOMAIN t.locks = Names(state) /\ t.locks = [n \in Names(state) |-> t.locks[n]]
      BY <1>2, <3>1
    <3>3. t.locks[name] \in [held : BOOLEAN, waiters : Seq(RunsOf(state))]
      <4>1. CASE line = <<>>
        <5>1. <<>> \in Seq(RunsOf(state))
          BY EmptySeq
        <5>2. Unlocked \in [held : BOOLEAN, waiters : Seq(RunsOf(state))]
          BY <5>1 DEF Unlocked
        <5> QED BY <1>7, <4>1, <5>2
      <4>2. CASE line # <<>>
        BY <1>5, <1>7, <1>9, <4>2
      <4> QED BY <4>1, <4>2
    <3>4. \A n \in Names(state) : t.locks[n] \in [held : BOOLEAN, waiters : Seq(RunsOf(state))]
      BY <1>6, <3>1, <3>3
    <3> QED BY <1>4, <3>2, <3>4
  <2>3. t.granted \subseteq RunsOf(t)
    BY <1>2, <1>4, <1>9 DEF Shaped, SqliteInv
  <2> QED BY <1>2, <1>3, <1>4, <2>1, <2>2, <2>3 DEF Shaped, SqliteInv
<1>11. \A q \in RunsOf(state) : NameOf(state, q) # name => q # r
  BY DEF name
<1>12. Owned(t) /\ Queued(t)
  <2>1. CASE line = <<>>
    <3>1. t.granted = state.granted /\ t.locks[name].held = FALSE /\ t.locks[name].waiters = <<>>
      BY <1>7, <2>1 DEF Unlocked
    <3>2. \A q \in RunsOf(state) : NameOf(state, q) = name => ~Owns(t, q)
      BY <1>5, <1>6, <3>1 DEF Owns, Inside
    <3>3. \A q \in t.granted : t.at[q] = "waiting" \/ (t.at[q] = "done" /\ q \in t.cancelled)
      BY <1>1, <1>3, <1>6, <3>1 DEF Owned, Shaped, SqliteInv
    <3>4. Owned(t)
      <4>1. \A q \in RunsOf(state) : NameOf(state, q) # name =>
              t.at[q] = state.at[q] /\ (q \in t.granted <=> q \in state.granted)
        BY <1>6, <1>11, <3>1
      <4>2. \A p, q \in RunsOf(state) :
              NameOf(state, p) = name /\ NameOf(state, q) = name /\ Owns(t, p) /\ Owns(t, q) => p = q
        BY <3>2
      <4>3. state.granted \subseteq RunsOf(state) /\ t.granted \subseteq RunsOf(state) /\ Owned(state)
        BY <3>1 DEF Shaped, SqliteInv
      <4> QED BY <1>3, <1>4, <1>6, <3>1, <3>2, <3>3, <4>1, <4>2, <4>3, OwnedStays
    <3>5. \A other \in Names(state) : state.locks[other].waiters \in Seq(RunsOf(state))
      BY DEF Shaped, SqliteInv
    <3>6. \A q \in RunsOf(state) : NameOf(state, q) = name => ~(t.at[q] = "waiting" /\ q \notin t.granted)
      <4> SUFFICES ASSUME NEW q \in RunsOf(state), NameOf(state, q) = name, t.at[q] = "waiting", q \notin t.granted
                   PROVE  FALSE
        OBVIOUS
      <4>1. q # r /\ state.at[q] = "waiting" /\ q \notin state.granted
        BY <1>6, <3>1
      <4>2. \E i \in DOMAIN line : line[i] = q
        BY <4>1 DEF Queued, InLine, SqliteInv, line
      <4> QED BY <2>1, <4>2
    <3>7. Queued(t)
      BY <1>3, <1>4, <1>6, <1>11, <3>1, <3>5, <3>6, QueuedStays DEF SqliteInv
    <3> QED BY <3>4, <3>7
  <2>2. CASE line # <<>>
    <3>1. /\ t.granted = state.granted \cup {next} /\ t.locks[name].held = TRUE /\ t.locks[name].waiters = rest
          /\ \E i \in DOMAIN line : line[i] = next
      BY <1>7, <1>9, <2>2
    <3>2. /\ next \in RunsOf(state) /\ NameOf(state, next) = name /\ state.at[next] = "waiting" /\ next # r
      BY <1>1, <1>5, <1>9, <2>2, <3>1 DEF line
    <3>3. \A q \in RunsOf(state) : NameOf(state, q) = name => (Owns(t, q) <=> q = next)
      <4>1. Owns(t, next)
        BY <3>1 DEF Owns
      <4>2. ASSUME NEW q \in RunsOf(state), NameOf(state, q) = name, Owns(t, q), q # next PROVE FALSE
        <5>1. q # r
          BY <1>5, <1>6, <3>1, <4>2 DEF Owns, Inside
        <5>2. Owns(state, q)
          BY <1>6, <3>1, <4>2, <5>1 DEF Owns
        <5> QED BY <1>5, <4>2, <5>1, <5>2
      <4> QED BY <4>1, <4>2
    <3>4. \A q \in t.granted : t.at[q] = "waiting" \/ (t.at[q] = "done" /\ q \in t.cancelled)
      BY <1>3, <1>5, <1>6, <3>1, <3>2 DEF Owned, Shaped, SqliteInv
    <3>5. \A q \in RunsOf(state) : NameOf(state, q) # name =>
            t.at[q] = state.at[q] /\ (q \in t.granted <=> q \in state.granted)
      BY <1>6, <1>11, <3>1, <3>2
    <3>6. Owned(t)
      <4>1. \A p, q \in RunsOf(state) :
              NameOf(state, p) = name /\ NameOf(state, q) = name /\ Owns(t, p) /\ Owns(t, q) => p = q
        BY <3>3
      <4>2. state.granted \subseteq RunsOf(state) /\ t.granted \subseteq RunsOf(state) /\ Owned(state)
        BY <3>1, <3>2 DEF Shaped, SqliteInv
      <4>3. \E q \in RunsOf(state) : NameOf(state, q) = name /\ Owns(t, q)
        BY <3>2, <3>3
      <4> QED BY <1>3, <1>4, <1>6, <3>1, <3>4, <3>5, <4>1, <4>2, <4>3, OwnedStays
    <3>7. \A other \in Names(state) : state.locks[other].waiters \in Seq(RunsOf(state))
      BY DEF Shaped, SqliteInv
    <3>8. \A i \in DOMAIN rest : NameOf(state, rest[i]) = name /\ t.at[rest[i]] = "waiting" /\ rest[i] \notin t.granted
      <4> TAKE i \in DOMAIN rest
      <4>1. rest[i] # next /\ rest[i] \in RunsOf(state) /\ \E j \in DOMAIN line : line[j] = rest[i]
        BY <1>8, <1>9, <2>2
      <4>2. NameOf(state, rest[i]) = name /\ state.at[rest[i]] = "waiting" /\ rest[i] \notin state.granted
        BY <1>5, <4>1 DEF line
      <4>3. rest[i] # r
        BY <1>1, <4>2
      <4> QED BY <1>6, <3>1, <4>1, <4>2, <4>3
    <3>9. \A q \in RunsOf(state) : NameOf(state, q) = name /\ t.at[q] = "waiting" /\ q \notin t.granted =>
            \E i \in DOMAIN rest : rest[i] = q
      <4> SUFFICES ASSUME NEW q \in RunsOf(state), NameOf(state, q) = name, t.at[q] = "waiting", q \notin t.granted
                   PROVE  \E i \in DOMAIN rest : rest[i] = q
        OBVIOUS
      <4>1. q # r /\ state.at[q] = "waiting" /\ q \notin state.granted /\ q # next
        BY <1>6, <3>1
      <4>2. \E i \in DOMAIN line : line[i] = q
        BY <4>1 DEF Queued, InLine, SqliteInv, line
      <4> QED BY <1>9, <2>2, <4>1, <4>2
    <3>10. \A i, j \in DOMAIN rest : rest[i] = rest[j] => i = j
      BY <1>9, <2>2
    <3>11. Queued(t)
      <4>1. rest = t.locks[name].waiters /\ t.locks[name].held
        BY <3>1
      <4> QED BY <1>3, <1>4, <1>6, <3>5, <3>7, <3>8, <3>9, <3>10, <4>1, QueuedStays DEF SqliteInv
    <3> QED BY <3>6, <3>11
  <2> QED BY <2>1, <2>2
<1>13. Serialized(t)
  BY <1>3, <1>6, SerializedStays DEF SqliteInv
<1>14. Reported(t)
  <2>1. ReportedOf(state, r)
    BY DEF Reported, SqliteInv
  <2>2. ReportedOf(t, r)
    <3>1. (Wrote(t, r) <=> Wrote(state, r)) /\ (InsertsOf(t, r) <=> InsertsOf(state, r))
      BY <1>3 DEF Wrote, InsertsOf
    <3> QED BY <1>1, <1>3, <1>6, <2>1, <3>1 DEF ReportedOf, Over
  <2> QED BY <1>3, <1>6, <2>2, ReportedStays DEF SqliteInv
<1>15. Finished(t)
  BY <1>3 DEF Finished
<1> QED BY <1>1, <1>10, <1>12, <1>13, <1>14, <1>15 DEF SqliteInv, t

\* At the start nobody has a lock, and the file is as it was.
LEMMA StartsRight ==
  ASSUME SqliteInit PROVE SqliteInv
<1>1. PICK runs \in SqliteRuns, file \in SqliteFiles : state = SqliteStart(runs, file)
  BY DEF SqliteInit, SqliteStarts
<1>2. /\ DOMAIN state = Fields /\ state.phase = "running" /\ state.runs = runs
      /\ state.before = file /\ state.file = file /\ state.granted = {} /\ state.cancelled = {}
      /\ state.wrote = <<>>
      /\ state.locks = [name \in {runs[r].database : r \in DOMAIN runs} |-> Unlocked]
      /\ state.at = [r \in DOMAIN runs |-> "start"]
      /\ state.copy = [r \in DOMAIN runs |-> <<>>] /\ state.results = [r \in DOMAIN runs |-> <<>>]
      /\ state.modified = [r \in DOMAIN runs |-> FALSE] /\ state.codes = [r \in DOMAIN runs |-> 0]
  BY <1>1 DEF Fields, SqliteStart
<1>3. RunsOf(state) = DOMAIN runs /\ Names(state) = {runs[r].database : r \in DOMAIN runs}
  BY <1>2 DEF RunsOf, Names, NameOf
<1>4. Shaped(state)
  <2>1. state.locks \in [Names(state) -> [held : BOOLEAN, waiters : Seq(RunsOf(state))]]
    <3>1. <<>> \in Seq(RunsOf(state))
      BY EmptySeq
    <3>2. Unlocked \in [held : BOOLEAN, waiters : Seq(RunsOf(state))]
      BY <3>1 DEF Unlocked
    <3> QED BY <1>2, <1>3, <3>2
  <2>2. state.wrote \in Seq(RunsOf(state))
    BY <1>2, EmptySeq
  <2>3. state.at \in [RunsOf(state) -> RunPlaces] /\ state.codes \in [RunsOf(state) -> {0, 1}]
    BY <1>2, <1>3 DEF RunPlaces
  <2> QED BY <1>2, <1>3, <2>1, <2>2, <2>3 DEF Shaped
<1>5. \A r \in RunsOf(state) : state.at[r] = "start" /\ state.codes[r] = 0 /\ ~Owns(state, r)
  BY <1>2, <1>3 DEF Owns, Inside
<1>6. \A name \in Names(state) : state.locks[name].held = FALSE /\ state.locks[name].waiters = <<>>
  BY <1>2, <1>3 DEF Unlocked
<1>7. Owned(state)
  BY <1>2, <1>5, <1>6 DEF Owned
<1>8. Queued(state)
  BY <1>5, <1>6 DEF Queued
<1>9. Serialized(state)
  <2>1. Serial(runs, file.rows, <<>>) = file.rows
    BY SerialNobody
  <2> QED BY <1>2, <1>5, <2>1 DEF Serialized
<1>10. Reported(state)
  BY <1>2, <1>5 DEF Reported, ReportedOf, Wrote, Over
<1>11. Finished(state)
  BY <1>2 DEF Finished
<1> QED BY <1>4, <1>7, <1>8, <1>9, <1>10, <1>11 DEF SqliteInv, SqliteInit

\* Of the states of the invariant, those at the end are as promised.
LEMMA EndsRight ==
  ASSUME SqliteInv PROVE SqliteSerializes
<1> SUFFICES ASSUME state.phase = "done", OneNameOf(state)
             PROVE  /\ state.file.rows = Serial(state.runs, state.before.rows, state.wrote)
                    /\ \A r \in DOMAIN state.runs :
                         /\ state.codes[r] = 1 /\ ~state.runs[r].bail => r \notin Seqs!ToSet(state.wrote)
                         /\ state.at[r] = "done" /\ state.codes[r] = 0 /\ Inserts(r) =>
                              r \in Seqs!ToSet(state.wrote)
                    /\ (\E r \in DOMAIN state.runs : state.at[r] = "waiting") =>
                         \E q \in state.granted : state.at[q] = "done" /\ q \in state.cancelled
  BY DEF SqliteSerializes, Ended, OneName, Name, OneNameOf, RunsOf, NameOf
<1>1. state.file.rows = Serial(state.runs, state.before.rows, state.wrote)
  BY DEF SqliteInv, Serialized
<1>2. ASSUME NEW r \in DOMAIN state.runs
      PROVE  /\ state.codes[r] = 1 /\ ~state.runs[r].bail => r \notin Seqs!ToSet(state.wrote)
             /\ state.at[r] = "done" /\ state.codes[r] = 0 /\ Inserts(r) => r \in Seqs!ToSet(state.wrote)
  <2>1. ReportedOf(state, r)
    BY DEF SqliteInv, Reported, RunsOf
  <2>2. Wrote(state, r) <=> r \in Seqs!ToSet(state.wrote)
    BY DEF Wrote, Seqs!ToSet
  <2>3. Inserts(r) => InsertsOf(state, r)
    BY DEF Inserts, InsertsOf, Seqs!ToSet
  <2> QED BY <2>1, <2>2, <2>3 DEF ReportedOf, Over
<1>3. ASSUME NEW r \in DOMAIN state.runs, state.at[r] = "waiting"
      PROVE  \E q \in state.granted : state.at[q] = "done" /\ q \in state.cancelled
  <2>1. r \in RunsOf(state) /\ NameOf(state, r) \in Names(state) /\ r \notin state.granted
    BY <1>3 DEF RunsOf, Names, SqliteInv, Finished
  <2>2. InLine(state, r)
    BY <1>3, <2>1 DEF SqliteInv, Queued
  <2>3. state.locks[NameOf(state, r)].waiters # <<>>
    BY <2>2 DEF InLine
  <2>4. state.locks[NameOf(state, r)].held
    BY <2>1, <2>3 DEF SqliteInv, Queued
  <2>5. PICK q \in RunsOf(state) : NameOf(state, q) = NameOf(state, r) /\ Owns(state, q)
    BY <2>1, <2>4 DEF SqliteInv, Owned
  <2>6. q \in state.granted /\ state.at[q] # "waiting"
    BY <2>5 DEF Owns, Inside, SqliteInv, Finished
  <2> QED BY <2>6 DEF SqliteInv, Owned
<1> QED BY <1>1, <1>2, <1>3

\* No step of a run breaks the invariant.
LEMMA StepsKeep ==
  ASSUME SqliteInv, [SqliteNext]_commandVars PROVE SqliteInv'
<1>1. CASE UNCHANGED commandVars
  BY <1>1 DEF commandVars, SqliteInv, Shaped, Owned, Queued, Serialized, Reported, Finished, RunsOf, Names,
              NameOf, Owns, InLine, OneNameOf, Works, ReportedOf, Wrote, InsertsOf
<1>2. CASE SqliteEnds
  BY <1>2, EndsKeeps
<1>3. ASSUME NEW r \in DOMAIN state.runs,
             \/ SqliteAcquire(r) \/ SqliteGranted(r) \/ SqliteAbandons(r) \/ SqliteReleases(r)
             \/ SqliteReads(r) \/ SqliteExecutes(r) \/ SqliteWrites(r) \/ SqliteCancelled(r)
      PROVE  SqliteInv'
  <2>1. r \in RunsOf(state)
    BY DEF RunsOf
  <2> QED BY <1>3, <2>1, AcquireKeeps, GrantedKeeps, AbandonsKeeps, ReleasesKeeps, ReadsKeeps,
             ExecutesKeeps, SqliteWritesKeeps, CancelledKeeps
<1> QED BY <1>1, <1>2, <1>3 DEF SqliteNext

\* The lock of a database has one owner at a time, those who wait stand in line, and
\* the file is at every moment what the runs that wrote it made of it in turn.
THEOREM SqliteInvariant == SqliteSpec => []SqliteInv
<1> QED BY StartsRight, StepsKeep, PTL DEF SqliteSpec

\* What was promised of sqlite3 at the end of its runs holds, however many there are.
THEOREM SqliteIsSerial == SqliteSpec => []SqliteSerializes
<1> QED BY SqliteInvariant, EndsRight, PTL

=============================================================================
