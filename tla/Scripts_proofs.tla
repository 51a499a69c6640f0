--------------------------- MODULE Scripts_proofs ---------------------------
(***************************************************************************)
(* The properties of Scripts for all files, masks, programs and depths: a  *)
(* subshell gives the mask back, a redirection writes what its commands    *)
(* wrote, and noclobber keeps what was there.                              *)
(***************************************************************************)
EXTENDS Scripts, SequenceTheorems, FiniteSetTheorems, Lemmas

(* The inductive invariant *)

Byte == {"o", "n", "z"}
FileState == [text : Seq(Byte), mode : SUBSET Bits, there : BOOLEAN]

ShellScope == [kind : {"shell"}, mask : SUBSET Bits, saved : Seq(SUBSET Bits), noclobber : BOOLEAN]
SubshellScope == [kind : {"subshell"}, mutates : BOOLEAN, clean : BOOLEAN, entry : SUBSET Bits]

Writer == [step : {"idle", "grow", "copy", "advance"}, end : Nat, text : Seq(Byte)]
RedirectRecord ==
  [kind : {"redirect"}, name : Files, write : BOOLEAN, append : BOOLEAN, trunc : BOOLEAN,
   text : Seq(Byte), offset : Nat, mode : SUBSET Bits, writers : [Procs -> Writer], raced : BOOLEAN,
   expected : Seq(Byte), was : FileState, stale : BOOLEAN, guarded : BOOLEAN]

\* What the data and the offset are after each step of a write w that nothing
\* comes between.
Holds(f, w) ==
  /\ w.step = "idle" => f.text = f.expected /\ f.offset = Len(f.expected)
  /\ w.step = "grow" => /\ f.text = f.expected /\ f.offset = Len(f.expected)
                        /\ w.text = Append(f.expected, "z") /\ w.end = Len(f.expected) + 1
  /\ w.step = "copy" => /\ f.text = Append(f.expected, "z") /\ f.offset = Len(f.expected)
                        /\ w.end = Len(f.expected) + 1
  /\ w.step = "advance" => f.text = f.expected /\ w.end = Len(f.expected)

\* At most one process is in the middle of a write.
Kept(f) == \E p \in Procs : (\A q \in Procs : q # p => f.writers[q].step = "idle") /\ Holds(f, f.writers[p])

\* A redirection that truncates or appends holds what is expected of it, as long
\* as no two writes have overlapped, and one of a file that was there the
\* permissions of that file.
RedirectScope ==
  {f \in RedirectRecord :
     /\ (f.append \/ f.trunc) /\ ~f.raced => Kept(f)
     /\ f.was.there => f.mode = f.was.mode}

Scope == ShellScope \cup SubshellScope \cup RedirectScope

Typed ==
  /\ files \in [Files -> FileState]
  /\ scopes \in [Procs -> Seq(Scope)]
  /\ \A p \in Procs : scopes[p] # <<>> => scopes[p][1].kind = "shell"
  /\ scopes["main"] # <<>>
  /\ inherited \in Nat
  /\ inherited # 0 => inherited \in DOMAIN scopes["main"] /\ scopes["main"][inherited].kind = "redirect"
  /\ starting \in [waiting : BOOLEAN, shell : Nat, mask : SUBSET Bits]
  /\ starting.shell # 0 => starting.shell \in DOMAIN scopes["main"]
                           /\ scopes["main"][starting.shell].kind = "shell"
  /\ program \in Programs

\* What noclobber protects is not there unless someone made it since the open.
Guards(all, f) == f.kind = "redirect" /\ f.guarded /\ ~f.stale => ~all[f.name].there
Protected == \A p \in Procs : \A i \in DOMAIN scopes[p] : Guards(files, scopes[p][i])

\* A subshell the rewriting put a push and a pop around.
Bracketing(x) == x.kind = "subshell" /\ x.mutates

\* The last shell of the scopes s.
Innermost(s, r) == /\ r \in 1 .. Len(s) /\ s[r].kind = "shell"
                   /\ \A k \in r + 1 .. Len(s) : s[k].kind # "shell"

\* Shell r of the scopes s is the one scope i is directly inside of.
Belongs(s, r, i) == s[r].kind = "shell" /\ r < i /\ \A k \in r + 1 .. i : s[k].kind # "shell"

\* The bracketed subshells of the same shell further in than i.
Above(s, i) ==
  {j \in DOMAIN s : /\ j > i /\ Bracketing(s[j])
                    /\ \A k \in i .. j : s[k].kind # "shell"}

\* The mask a bracketed subshell has to give back is on the stack of its shell
\* under those of the subshells further in; one without bracket has left the
\* mask alone, and nothing further in is bracketed.
Returns(s, r, i) ==
  LET saved == s[r].saved
      depth == Cardinality(Above(s, i))
  IN  /\ s[i].clean /\ s[i].mutates => Len(saved) > depth /\ saved[Len(saved) - depth] = s[i].entry
      /\ s[i].clean /\ ~s[i].mutates => s[r].mask = s[i].entry
      /\ s[i].mutates \/ Above(s, i) = {}
Stacked(s) ==
  \A r, i \in DOMAIN s : Belongs(s, r, i) /\ s[i].kind = "subshell" => Returns(s, r, i)

IInv == Typed /\ Protected /\ \A p \in Procs : Stacked(scopes[p])

-----------------------------------------------------------------------------
(* The running shell *)

\* Where a process has scopes, its running shell is the last shell of them.
LEMMA RunningIsShell ==
  ASSUME Typed, NEW p \in Procs, scopes[p] # <<>>
  PROVE  Innermost(scopes[p], Running(p)) /\ scopes[p][Running(p)] \in ShellScope
<1> DEFINE s == scopes[p]
           T == Kind(p, "shell")
<1>1. s \in Seq(Scope) /\ Len(s) \in Nat /\ DOMAIN s = 1 .. Len(s) /\ Len(s) > 0
  BY DEF Typed
<1>2. T \subseteq 1 .. Len(s)
  BY <1>1 DEF Kind
<1>3. 1 \in T
  BY <1>1 DEF Kind, Typed
<1>4. \E x \in T : \A y \in T : y <= x
  <2> HIDE DEF T
  <2> QED BY <1>1, <1>2, <1>3, MaximumExists
<1>5. Running(p) \in T /\ \A y \in T : y <= Running(p)
  <2> HIDE DEF s
  <2> QED BY <1>4 DEF Running, Last
<1>6. s[Running(p)] \in Scope /\ s[Running(p)].kind = "shell"
  BY <1>1, <1>2, <1>5, ElementOfSeq DEF Kind
<1>7. s[Running(p)] \in ShellScope
  BY <1>6 DEF Scope, SubshellScope, RedirectScope, RedirectRecord
<1>8. \A k \in Running(p) + 1 .. Len(s) : s[k].kind # "shell"
  BY <1>1, <1>2, <1>5 DEF Kind
<1> QED BY <1>2, <1>5, <1>6, <1>7, <1>8 DEF Innermost

-----------------------------------------------------------------------------
(* Growing and shrinking stacks of scopes *)

\* A scope of each kind has the fields of that kind.
LEMMA ScopeFacts ==
  /\ \A x \in Scope : x.kind \in {"shell", "subshell", "redirect"}
  /\ \A x \in Scope : x.kind = "shell" <=> x \in ShellScope
  /\ \A x \in Scope : x.kind = "subshell" <=> x \in SubshellScope
  /\ \A x \in Scope : x.kind = "redirect" <=> x \in RedirectScope
BY DEF Scope, ShellScope, SubshellScope, RedirectScope, RedirectRecord

\* The scopes without the innermost one.
LEMMA FrontOfScopes ==
  ASSUME NEW s \in Seq(Scope), s # <<>>
  PROVE  LET t == SubSeq(s, 1, Len(s) - 1)
         IN  /\ t \in Seq(Scope) /\ Len(t) = Len(s) - 1 /\ Len(s) \in Nat \ {0}
             /\ DOMAIN t = 1 .. Len(s) - 1 /\ DOMAIN s = 1 .. Len(s)
             /\ \A i \in 1 .. Len(s) - 1 : t[i] = s[i]
<1> DEFINE n == Len(s) - 1
           t == SubSeq(s, 1, n)
<1>1. Len(s) \in Nat \ {0} /\ DOMAIN s = 1 .. Len(s)
  BY EmptySeq, LenProperties
<1>2. n \in Nat /\ n <= Len(s)
  BY <1>1
<1>3. t \in Seq(Scope) /\ Len(t) = n /\ \A i \in 1 .. n : t[i] = s[i]
  BY <1>1, <1>2
<1>4. DOMAIN t = 1 .. n
  BY <1>3, LenProperties
<1> QED BY <1>1, <1>3, <1>4

\* What is above a place is a finite set, and its size is a natural.
LEMMA AboveFacts ==
  ASSUME NEW s \in Seq(Scope), NEW i \in 1 .. Len(s)
  PROVE  Above(s, i) \subseteq i + 1 .. Len(s) /\ IsFiniteSet(Above(s, i)) /\ Cardinality(Above(s, i)) \in Nat
<1>1. Above(s, i) \subseteq i + 1 .. Len(s)
  BY LenProperties DEF Above
<1>2. IsFiniteSet(i + 1 .. Len(s))
  BY LenProperties, FS_Interval
<1> QED BY <1>1, <1>2, FS_Subset, FS_CardinalityType

\* What is above depends on the kinds, and on which subshells are bracketed.
LEMMA AboveSame ==
  ASSUME NEW s \in Seq(Scope), NEW t \in Seq(Scope), Len(t) = Len(s),
         \A i \in 1 .. Len(s) : t[i].kind = s[i].kind,
         \A i \in 1 .. Len(s) : Bracketing(t[i]) <=> Bracketing(s[i]),
         NEW i \in 1 .. Len(s)
  PROVE  Above(t, i) = Above(s, i) /\ \A r \in 1 .. Len(s) : Belongs(t, r, i) <=> Belongs(s, r, i)
<1>1. DOMAIN s = 1 .. Len(s) /\ DOMAIN t = 1 .. Len(s) /\ Len(s) \in Nat
  BY LenProperties
<1>2. \A j \in 1 .. Len(s) : j > i => ((\A k \in i .. j : t[k].kind # "shell") <=> \A k \in i .. j : s[k].kind # "shell")
  BY <1>1
<1>3. Above(t, i) = Above(s, i)
  BY <1>1, <1>2 DEF Above
<1>4. \A r \in 1 .. Len(s) : Belongs(t, r, i) <=> Belongs(s, r, i)
  BY <1>1 DEF Belongs
<1> QED BY <1>3, <1>4

\* A change that leaves the stacks of the shells and the brackets of the
\* subshells alone, and the mask too where a subshell is held to it.
LEMMA StackedSame ==
  ASSUME NEW s \in Seq(Scope), NEW t \in Seq(Scope), Len(t) = Len(s), Stacked(s),
         \A i \in 1 .. Len(s) : t[i].kind = s[i].kind,
         \A i \in 1 .. Len(s) : s[i].kind = "shell" => t[i].saved = s[i].saved,
         \A i \in 1 .. Len(s) : s[i].kind = "subshell" =>
            /\ t[i].mutates = s[i].mutates /\ t[i].entry = s[i].entry /\ (t[i].clean => s[i].clean),
         \A r, i \in 1 .. Len(s) :
            Belongs(s, r, i) /\ s[i].kind = "subshell" /\ t[i].clean /\ ~t[i].mutates => t[r].mask = t[i].entry
  PROVE  Stacked(t)
<1>1. DOMAIN s = 1 .. Len(s) /\ DOMAIN t = 1 .. Len(s) /\ Len(s) \in Nat
  BY LenProperties
<1> SUFFICES ASSUME NEW r \in 1 .. Len(s), NEW i \in 1 .. Len(s), Belongs(t, r, i), t[i].kind = "subshell"
             PROVE  Returns(t, r, i)
  BY <1>1 DEF Stacked
<1>2. Above(t, i) = Above(s, i) /\ Belongs(s, r, i)
  <2>1. \A k \in 1 .. Len(s) : Bracketing(t[k]) <=> Bracketing(s[k])
    BY DEF Bracketing
  <2> QED BY <2>1, AboveSame
<1>3. Returns(s, r, i) /\ s[i].kind = "subshell" /\ s[r].kind = "shell"
  BY <1>1, <1>2 DEF Stacked, Belongs
<1>4. t[r].saved = s[r].saved
  BY <1>3
<1> QED BY <1>2, <1>3, <1>4 DEF Returns

\* What was above stays above when a scope opens, and what belonged belongs.
LEMMA AboveAppend ==
  ASSUME NEW s \in Seq(Scope), NEW x \in Scope, NEW i \in 1 .. Len(s)
  PROVE  LET t == Append(s, x)
         IN  /\ \A r \in 1 .. Len(s) : Belongs(t, r, i) <=> Belongs(s, r, i)
             /\ ~Bracketing(x) => Above(t, i) = Above(s, i)
             /\ Bracketing(x) /\ (\A k \in i .. Len(s) : s[k].kind # "shell") =>
                  Above(t, i) = Above(s, i) \cup {Len(s) + 1}
             /\ (\E k \in i .. Len(s) : s[k].kind = "shell") => Above(t, i) = Above(s, i)
<1> DEFINE t == Append(s, x)
<1>1. /\ DOMAIN s = 1 .. Len(s) /\ Len(s) \in Nat /\ t \in Seq(Scope)
      /\ DOMAIN t = 1 .. Len(s) + 1 /\ t[Len(s) + 1] = x
      /\ \A k \in 1 .. Len(s) : t[k] = s[k]
  BY LenProperties, AppendProperties
<1> HIDE DEF t
<1>2. \A r \in 1 .. Len(s) : Belongs(t, r, i) <=> Belongs(s, r, i)
  BY <1>1 DEF Belongs
<1>3. \A j \in 1 .. Len(s) : j \in Above(t, i) <=> j \in Above(s, i)
  BY <1>1 DEF Above
<1>4. Above(t, i) \subseteq 1 .. Len(s) + 1 /\ Above(s, i) \subseteq 1 .. Len(s)
  BY <1>1 DEF Above
<1>5. Len(s) + 1 \in Above(t, i) <=>
        Bracketing(x) /\ \A k \in i .. Len(s) : s[k].kind # "shell"
  <2>1. i .. Len(s) + 1 = (i .. Len(s)) \cup {Len(s) + 1}
    BY <1>1
  <2>2. (\A k \in i .. Len(s) + 1 : t[k].kind # "shell") <=>
          x.kind # "shell" /\ \A k \in i .. Len(s) : s[k].kind # "shell"
    BY <1>1, <2>1
  <2>3. Bracketing(x) => x.kind # "shell"
    BY DEF Bracketing
  <2> QED BY <1>1, <2>2, <2>3 DEF Above
<1>6. Above(t, i) = IF Len(s) + 1 \in Above(t, i) THEN Above(s, i) \cup {Len(s) + 1} ELSE Above(s, i)
  <2> DEFINE A == Above(t, i)
             B == Above(s, i)
             n == Len(s)
  <2>1. /\ A \subseteq 1 .. n + 1 /\ B \subseteq 1 .. n /\ n \in Nat
        /\ \A j \in 1 .. n : j \in A <=> j \in B
    BY <1>1, <1>3, <1>4
  <2> HIDE DEF A, B, n
  <2>2. \A j \in A : j \in B \/ j = n + 1
    <3>1. \A j \in 1 .. n + 1 : j \in 1 .. n \/ j = n + 1
      BY <2>1
    <3> QED BY <2>1, <3>1
  <2>3. \A j \in B : j \in A
    BY <2>1
  <2>4. n + 1 \in A => A = B \cup {n + 1}
    BY <2>2, <2>3, Zenon
  <2>5. n + 1 \notin A => A = B
    BY <2>2, <2>3, Zenon
  <2> QED BY <2>4, <2>5 DEF A, B, n
<1>7. (\E k \in i .. Len(s) : s[k].kind = "shell") => Len(s) + 1 \notin Above(t, i)
  BY <1>5
<1> QED BY <1>2, <1>5, <1>6, <1>7 DEF t

\* What belongs to another shell than the running one has that one above it.
LEMMA BelongsToRunning ==
  ASSUME NEW s \in Seq(Scope), NEW r, Innermost(s, r),
         NEW q \in 1 .. Len(s), NEW i \in 1 .. Len(s), Belongs(s, q, i)
  PROVE  \/ q = r /\ r < i /\ \A k \in i .. Len(s) : s[k].kind # "shell"
         \/ q # r /\ r \in i .. Len(s)
<1>1. Len(s) \in Nat
  BY LenProperties
<1>2. s[q].kind = "shell" /\ q < i /\ \A k \in q + 1 .. i : s[k].kind # "shell"
  BY DEF Belongs
<1>3. r \in 1 .. Len(s) /\ s[r].kind = "shell" /\ \A k \in r + 1 .. Len(s) : s[k].kind # "shell"
  BY DEF Innermost
<1>4. q <= r
  BY <1>1, <1>2, <1>3
<1>5. CASE q = r
  BY <1>1, <1>2, <1>3, <1>5
<1>6. CASE q # r
  BY <1>1, <1>2, <1>3, <1>4, <1>6
<1> QED BY <1>5, <1>6

\* What opens belongs to the running shell, and nothing is further in.
LEMMA TopBelongs ==
  ASSUME NEW s \in Seq(Scope), NEW r, Innermost(s, r), NEW x \in Scope,
         NEW q \in 1 .. Len(s) + 1, Belongs(Append(s, x), q, Len(s) + 1)
  PROVE  q = r /\ Above(Append(s, x), Len(s) + 1) = {}
<1> DEFINE t == Append(s, x)
<1>1. /\ Len(s) \in Nat /\ DOMAIN t = 1 .. Len(s) + 1
      /\ \A k \in 1 .. Len(s) : t[k] = s[k]
  BY LenProperties, AppendProperties
<1> HIDE DEF t
<1>2. t[q].kind = "shell" /\ q < Len(s) + 1 /\ \A k \in q + 1 .. Len(s) + 1 : t[k].kind # "shell"
  BY DEF Belongs, t
<1>3. r \in 1 .. Len(s) /\ s[r].kind = "shell" /\ \A k \in r + 1 .. Len(s) : s[k].kind # "shell"
  BY DEF Innermost
<1>4. q \in 1 .. Len(s) /\ s[q].kind = "shell"
  BY <1>1, <1>2
<1>5. q <= r /\ r <= q
  BY <1>1, <1>2, <1>3, <1>4
<1>6. Above(t, Len(s) + 1) = {}
  BY <1>1 DEF Above
<1> QED BY <1>1, <1>3, <1>4, <1>5, <1>6 DEF t

\* A scope that is no bracketed subshell opens.
LEMMA StackedAppend ==
  ASSUME NEW s \in Seq(Scope), NEW x \in Scope, Stacked(s), ~Bracketing(x),
         NEW r0, Innermost(s, r0), x.kind = "subshell" => s[r0].mask = x.entry
  PROVE  Stacked(Append(s, x))
<1> DEFINE t == Append(s, x)
           n == Len(s)
<1>1. /\ DOMAIN s = 1 .. n /\ n \in Nat /\ DOMAIN t = 1 .. n + 1 /\ t[n + 1] = x
      /\ \A k \in 1 .. n : t[k] = s[k]
  BY LenProperties, AppendProperties
<1> HIDE DEF t
<1>2. ASSUME NEW r \in 1 .. n + 1, NEW i \in 1 .. n + 1, Belongs(t, r, i), t[i].kind = "subshell"
      PROVE  Returns(t, r, i)
  <2>1. r \in 1 .. n
    <3>1. r < i
      BY <1>2 DEF Belongs
    <3> QED BY <1>1, <3>1
  <2>2. CASE i \in 1 .. n
    <3>1. Above(t, i) = Above(s, i) /\ Belongs(s, r, i)
      BY <1>2, <2>1, <2>2, AboveAppend DEF t
    <3>2. Returns(s, r, i)
      BY <1>1, <1>2, <2>1, <2>2, <3>1 DEF Stacked
    <3>3. t[r] = s[r] /\ t[i] = s[i]
      BY <1>1, <2>1, <2>2
    <3> QED BY <3>1, <3>2, <3>3 DEF Returns
  <2>3. CASE i = n + 1
    <3>1. r = r0 /\ Above(t, i) = {}
      BY <1>2, <2>3, TopBelongs DEF t
    <3>2. t[r] = s[r0] /\ t[i] = x
      BY <1>1, <2>1, <2>3, <3>1
    <3>3. x.kind = "subshell"
      BY <1>2, <3>2
    <3>4. ~x.mutates /\ s[r0].mask = x.entry
      BY <3>3 DEF Bracketing
    <3> QED BY <3>1, <3>2, <3>4 DEF Returns
  <2>4. i \in 1 .. n \/ i = n + 1
    BY <1>1
  <2> QED BY <2>2, <2>3, <2>4
<1> QED BY <1>1, <1>2 DEF Stacked, t

\* Pushing and popping the mask of a shell.
LEMMA PushShell ==
  ASSUME NEW shell \in ShellScope
  PROVE  /\ Push(shell) \in ShellScope /\ Len(shell.saved) \in Nat
         /\ Len(Push(shell).saved) = Len(shell.saved) + 1
         /\ Push(shell).saved[Len(shell.saved) + 1] = shell.mask
         /\ \A k \in 1 .. Len(shell.saved) : Push(shell).saved[k] = shell.saved[k]
<1>1. shell.saved \in Seq(SUBSET Bits) /\ shell.mask \in SUBSET Bits
  BY DEF ShellScope
<1>2. Push(shell).saved = Append(shell.saved, shell.mask)
  BY DEF Push, ShellScope
<1>3. Append(shell.saved, shell.mask) \in Seq(SUBSET Bits)
  BY <1>1, AppendProperties
<1>4. Push(shell) \in ShellScope
  BY <1>3 DEF Push, ShellScope
<1> QED BY <1>1, <1>2, <1>4, AppendProperties, LenProperties

\* Popping takes the newest mask and leaves the others where they are.
LEMMA PopShell ==
  ASSUME NEW shell \in ShellScope
  PROVE  /\ Pop(shell) \in ShellScope
         /\ shell.saved # <<>> =>
              LET n == Len(shell.saved)
              IN  /\ n \in Nat \ {0} /\ Pop(shell).mask = shell.saved[n] /\ Len(Pop(shell).saved) = n - 1
                  /\ \A k \in 1 .. n - 1 : Pop(shell).saved[k] = shell.saved[k]
<1>1. shell.saved \in Seq(SUBSET Bits)
  BY DEF ShellScope
<1>2. CASE shell.saved = <<>>
  BY <1>2 DEF Pop
<1>3. CASE shell.saved # <<>>
  <2> DEFINE n == Len(shell.saved)
             rest == SubSeq(shell.saved, 1, n - 1)
  <2>1. n \in Nat \ {0} /\ shell.saved[n] \in SUBSET Bits
    BY <1>1, <1>3, EmptySeq, ElementOfSeq
  <2>2. rest \in Seq(SUBSET Bits) /\ Len(rest) = n - 1 /\ \A k \in 1 .. n - 1 : rest[k] = shell.saved[k]
    BY <1>1, <2>1
  <2>3. Pop(shell) = [shell EXCEPT !.mask = shell.saved[n], !.saved = rest]
    BY <1>3 DEF Pop, ShellScope
  <2> HIDE DEF n, rest
  <2>4. Pop(shell).mask = shell.saved[n] /\ Pop(shell).saved = rest /\ Pop(shell) \in ShellScope
    BY <2>1, <2>2, <2>3 DEF ShellScope
  <2> QED BY <2>1, <2>2, <2>4 DEF n, rest
<1> QED BY <1>2, <1>3

\* A bracketed subshell opens: the push, then the scope.
LEMMA StackedPush ==
  ASSUME NEW s \in Seq(Scope), Stacked(s), NEW r, Innermost(s, r), s[r] \in ShellScope,
         \A k \in r + 1 .. Len(s) : s[k].kind = "subshell" => Bracketing(s[k]),
         NEW x \in SubshellScope, Bracketing(x), x.entry = s[r].mask
  PROVE  /\ Append([s EXCEPT ![r] = Push(s[r])], x) \in Seq(Scope)
         /\ Stacked(Append([s EXCEPT ![r] = Push(s[r])], x))
<1> DEFINE shell == Push(s[r])
           u == [s EXCEPT ![r] = shell]
           t == Append(u, x)
           n == Len(s)
<1>1. shell \in Scope /\ x \in Scope /\ shell.kind = "shell" /\ s[r].kind = "shell"
  BY PushShell DEF Scope, ShellScope
<1> HIDE DEF shell
<1>2. r \in 1 .. n /\ n \in Nat
  BY LenProperties DEF Innermost
<1>3. /\ u \in Seq(Scope) /\ Len(u) = n /\ u[r] = shell
      /\ \A k \in 1 .. n : k # r => u[k] = s[k]
  BY <1>1, <1>2, ExceptSeq
<1> HIDE DEF u
<1>4. /\ t \in Seq(Scope) /\ DOMAIN t = 1 .. n + 1 /\ t[n + 1] = x
      /\ \A k \in 1 .. n : t[k] = u[k]
  BY <1>1, <1>3, AppendProperties, LenProperties
<1> HIDE DEF t
<1>5. /\ \A k \in 1 .. n : u[k].kind = s[k].kind
      /\ \A k \in 1 .. n : s[k].kind = "subshell" => u[k] = s[k]
      /\ \A k \in 1 .. n : Bracketing(u[k]) <=> Bracketing(s[k])
      /\ Innermost(u, r)
  <2>1. \A k \in 1 .. n : u[k].kind = s[k].kind /\ (s[k].kind = "subshell" => u[k] = s[k])
    BY <1>1, <1>3
  <2>2. \A k \in 1 .. n : Bracketing(u[k]) <=> Bracketing(s[k])
    BY <2>1 DEF Bracketing
  <2>3. Innermost(u, r)
    BY <1>2, <1>3, <2>1 DEF Innermost
  <2> QED BY <2>1, <2>2, <2>3
<1>6. ASSUME NEW q \in 1 .. n + 1, NEW i \in 1 .. n + 1, Belongs(t, q, i), t[i].kind = "subshell"
      PROVE  Returns(t, q, i)
  <2>1. q \in 1 .. n
    <3>1. q < i
      BY <1>6 DEF Belongs
    <3> QED BY <1>2, <3>1
  <2>2. CASE i = n + 1
    <3>1. q = r /\ Above(t, i) = {}
      BY <1>1, <1>3, <1>5, <1>6, <2>2, TopBelongs DEF t
    <3>2. t[q] = shell /\ t[i] = x
      BY <1>2, <1>3, <1>4, <2>2, <3>1
    <3>3. Cardinality(Above(t, i)) = 0
      BY <3>1, FS_EmptySet
    <3>4. /\ Len(s[r].saved) \in Nat /\ Len(shell.saved) = Len(s[r].saved) + 1
          /\ shell.saved[Len(s[r].saved) + 1] = x.entry
      BY PushShell DEF shell
    <3>5. Len(shell.saved) > 0 /\ Len(shell.saved) - 0 = Len(shell.saved) /\ shell.saved[Len(shell.saved)] = x.entry
      BY <3>4
    <3>6. x.mutates
      BY DEF Bracketing
    <3> QED BY <3>1, <3>2, <3>3, <3>4, <3>5, <3>6 DEF Returns
  <2>3. CASE i \in 1 .. n
    <3>1. Belongs(u, q, i)
      BY <1>1, <1>3, <1>6, <2>1, <2>3, AboveAppend DEF t
    <3>2. Above(u, i) = Above(s, i) /\ Belongs(s, q, i)
      BY <1>3, <1>5, <2>1, <2>3, <3>1, AboveSame
    <3>3. t[i] = s[i] /\ s[i].kind = "subshell"
      BY <1>4, <1>5, <1>6, <2>3
    <3>4. Returns(s, q, i)
      BY <1>2, <2>1, <2>3, <3>2, <3>3, LenProperties DEF Stacked
    <3>5. CASE q = r /\ r < i /\ \A k \in i .. n : s[k].kind # "shell"
      <4>1. \A k \in i .. n : u[k].kind # "shell"
        BY <1>2, <1>5, <2>3, <3>5
      <4>2. Above(t, i) = Above(s, i) \cup {n + 1}
        <5>1. i \in 1 .. Len(u) /\ \A k \in i .. Len(u) : u[k].kind # "shell"
          BY <1>3, <2>3, <4>1
        <5>2. Above(t, i) = Above(u, i) \cup {Len(u) + 1}
          BY <1>1, <1>3, <5>1, AboveAppend DEF t
        <5> QED BY <1>3, <3>2, <5>2
      <4>3. Above(s, i) \subseteq i + 1 .. n /\ IsFiniteSet(Above(s, i)) /\ Cardinality(Above(s, i)) \in Nat
        BY <2>3, AboveFacts
      <4>4. n + 1 \notin Above(s, i)
        BY <1>2, <2>3, <4>3
      <4>5. Cardinality(Above(t, i)) = Cardinality(Above(s, i)) + 1
        BY <4>2, <4>3, <4>4, FS_AddElement
      <4>6. s[i].mutates
        BY <1>2, <2>3, <3>3, <3>5 DEF Bracketing
      <4>7. t[q] = shell
        BY <1>2, <1>3, <1>4, <3>5
      <4> DEFINE depth == Cardinality(Above(s, i))
                 old == s[r].saved
      <4>8. s[i].clean => Len(old) > depth /\ old[Len(old) - depth] = s[i].entry
        BY <3>4, <3>5, <4>6 DEF Returns
      <4>9. s[i].clean => Len(shell.saved) > depth + 1 /\ shell.saved[Len(shell.saved) - (depth + 1)] = s[i].entry
        <5>1. depth \in Nat /\ Len(old) \in Nat /\ Len(shell.saved) = Len(old) + 1
          BY <4>3, PushShell DEF shell
        <5>2. \A k \in 1 .. Len(old) : shell.saved[k] = old[k]
          BY PushShell DEF shell
        <5> HIDE DEF depth, old
        <5>3. SUFFICES ASSUME s[i].clean
                       PROVE  Len(shell.saved) > depth + 1 /\ shell.saved[Len(shell.saved) - (depth + 1)] = s[i].entry
          OBVIOUS
        <5>4. Len(old) > depth /\ old[Len(old) - depth] = s[i].entry
          BY <4>8, <5>3
        <5>5. Len(shell.saved) - (depth + 1) = Len(old) - depth /\ Len(old) - depth \in 1 .. Len(old)
          BY <5>1, <5>4
        <5>6. shell.saved[Len(old) - depth] = s[i].entry
          BY <5>2, <5>4, <5>5
        <5>7. Len(shell.saved) > depth + 1
          BY <5>1, <5>4
        <5> QED BY <5>5, <5>6, <5>7
      <4> QED BY <3>3, <4>5, <4>6, <4>7, <4>9 DEF Returns
    <3>6. CASE q # r /\ r \in i .. n
      <4>1. \E k \in i .. n : u[k].kind = "shell"
        BY <1>1, <1>3, <3>6
      <4>2. Above(t, i) = Above(s, i)
        BY <1>1, <1>3, <2>3, <3>2, <4>1, AboveAppend DEF t
      <4>3. t[q] = s[q]
        BY <1>3, <1>4, <2>1, <3>6
      <4> QED BY <3>3, <3>4, <4>2, <4>3 DEF Returns
    <3> QED BY <2>1, <2>3, <3>2, <3>5, <3>6, BelongsToRunning
  <2>4. i \in 1 .. n \/ i = n + 1
    BY <1>2
  <2> QED BY <2>2, <2>3, <2>4
<1>7. Stacked(t)
  BY <1>4, <1>6 DEF Stacked
<1> QED BY <1>4, <1>7 DEF t, u, shell

\* All but the innermost scope, and that scope, make the scopes.
LEMMA FrontAndTop ==
  ASSUME NEW s \in Seq(Scope), s # <<>>
  PROVE  s = Append(SubSeq(s, 1, Len(s) - 1), s[Len(s)]) /\ s[Len(s)] \in Scope
<1> DEFINE t == SubSeq(s, 1, Len(s) - 1)
           x == s[Len(s)]
<1>1. /\ t \in Seq(Scope) /\ Len(t) = Len(s) - 1 /\ Len(s) \in Nat \ {0}
      /\ \A i \in 1 .. Len(s) - 1 : t[i] = s[i]
  BY FrontOfScopes
<1>2. x \in Scope
  BY <1>1, ElementOfSeq
<1> HIDE DEF t
<1>3. /\ Append(t, x) \in Seq(Scope) /\ Len(Append(t, x)) = Len(s) /\ Append(t, x)[Len(s)] = x
      /\ \A i \in 1 .. Len(s) - 1 : Append(t, x)[i] = t[i]
  <2> HIDE DEF x
  <2> QED BY <1>1, <1>2, AppendProperties
<1>4. \A i \in 1 .. Len(s) : s[i] = Append(t, x)[i]
  <2>1. \A i \in 1 .. Len(s) : i \in 1 .. Len(s) - 1 \/ i = Len(s)
    BY <1>1
  <2> QED BY <1>1, <1>3, <2>1
<1>5. s = Append(t, x)
  BY <1>3, <1>4, SeqEqual
<1> QED BY <1>2, <1>5 DEF t

\* The innermost scope closes, and is no bracketed subshell.
LEMMA StackedFront ==
  ASSUME NEW s \in Seq(Scope), s # <<>>, Stacked(s), ~Bracketing(s[Len(s)])
  PROVE  Stacked(SubSeq(s, 1, Len(s) - 1))
<1> DEFINE t == SubSeq(s, 1, Len(s) - 1)
           n == Len(s) - 1
           x == s[Len(s)]
<1>1. /\ t \in Seq(Scope) /\ Len(t) = n /\ n \in Nat /\ DOMAIN t = 1 .. n /\ DOMAIN s = 1 .. n + 1
      /\ \A i \in 1 .. n : t[i] = s[i]
  BY FrontOfScopes
<1>2. x \in Scope /\ s = Append(t, x)
  BY FrontAndTop
<1> HIDE DEF t
<1>3. ASSUME NEW r \in 1 .. n, NEW i \in 1 .. n, Belongs(t, r, i), t[i].kind = "subshell"
      PROVE  Returns(t, r, i)
  <2>1. Above(s, i) = Above(t, i) /\ Belongs(s, r, i)
    <3>1. t \in Seq(Scope) /\ r \in 1 .. Len(t) /\ i \in 1 .. Len(t) /\ ~Bracketing(x)
      BY <1>1
    <3> HIDE DEF x, n
    <3> QED BY <1>2, <1>3, <3>1, AboveAppend
  <2>2. Returns(s, r, i)
    BY <1>1, <1>3, <2>1 DEF Stacked
  <2> QED BY <1>1, <2>1, <2>2 DEF Returns
<1> QED BY <1>1, <1>3 DEF Stacked, t

\* A shell stays the running one when a scope further in closes.
LEMMA InnermostOfFront ==
  ASSUME NEW s \in Seq(Scope), NEW r, Innermost(s, r), s[Len(s)].kind # "shell"
  PROVE  /\ s # <<>> /\ r \in 1 .. Len(s) - 1
         /\ Innermost(SubSeq(s, 1, Len(s) - 1), r) /\ SubSeq(s, 1, Len(s) - 1)[r] = s[r]
<1>1. Len(s) \in Nat /\ r \in 1 .. Len(s) /\ s[r].kind = "shell" /\ \A k \in r + 1 .. Len(s) : s[k].kind # "shell"
  BY LenProperties DEF Innermost
<1>2. s # <<>>
  BY <1>1, EmptySeq
<1>3. r \in 1 .. Len(s) - 1
  BY <1>1
<1> DEFINE t == SubSeq(s, 1, Len(s) - 1)
<1>4. Len(t) = Len(s) - 1 /\ \A i \in 1 .. Len(s) - 1 : t[i] = s[i]
  BY <1>2, FrontOfScopes
<1> HIDE DEF t
<1>5. Innermost(t, r)
  BY <1>1, <1>3, <1>4 DEF Innermost
<1> QED BY <1>2, <1>3, <1>4, <1>5 DEF t

\* The innermost scope is a bracketed subshell and closes with the pop.
LEMMA StackedPop ==
  ASSUME NEW s \in Seq(Scope), Stacked(s), NEW r, Innermost(s, r), s[r] \in ShellScope,
         Bracketing(s[Len(s)])
  PROVE  LET rest == SubSeq(s, 1, Len(s) - 1)
             t == [rest EXCEPT ![r] = Pop(rest[r])]
         IN  /\ t \in Seq(Scope) /\ Len(t) = Len(s) - 1 /\ Stacked(t)
             /\ t[r] \in ShellScope
             /\ \A k \in 1 .. Len(s) - 1 : k # r => t[k] = s[k]
             /\ s[Len(s)].clean => t[r].mask = s[Len(s)].entry
<1> DEFINE rest == SubSeq(s, 1, Len(s) - 1)
           shell == Pop(rest[r])
           t == [rest EXCEPT ![r] = shell]
           n == Len(s) - 1
           x == s[Len(s)]
<1>1. x.kind = "subshell" /\ x.mutates
  BY DEF Bracketing
<1>2. /\ s # <<>> /\ Len(s) \in Nat /\ n \in Nat /\ r \in 1 .. n /\ Innermost(rest, r) /\ rest[r] = s[r]
      /\ s[r].kind = "shell"
  <2>1. s[Len(s)].kind # "shell"
    BY <1>1
  <2> QED BY <2>1, InnermostOfFront, LenProperties DEF Innermost
<1>3. /\ rest \in Seq(Scope) /\ Len(rest) = n /\ DOMAIN s = 1 .. n + 1
      /\ \A i \in 1 .. n : rest[i] = s[i]
  BY <1>2, FrontOfScopes
<1>4. x \in Scope /\ s = Append(rest, x)
  BY <1>2, FrontAndTop
<1> HIDE DEF rest
<1>5. shell = Pop(s[r]) /\ shell \in ShellScope /\ shell \in Scope /\ shell.kind = "shell"
  BY <1>2, PopShell DEF Scope, ShellScope
<1> HIDE DEF shell
<1>6. /\ t \in Seq(Scope) /\ Len(t) = n /\ DOMAIN t = 1 .. n /\ t[r] = shell
      /\ \A k \in 1 .. n : k # r => t[k] = s[k]
  BY <1>2, <1>3, <1>5, ExceptSeq, LenProperties
<1> HIDE DEF t
<1>7. \A k \in 1 .. n : t[k].kind = rest[k].kind /\ (Bracketing(t[k]) <=> Bracketing(rest[k]))
  BY <1>2, <1>3, <1>5, <1>6 DEF Bracketing
<1>8. ASSUME NEW q \in 1 .. n, NEW i \in 1 .. n, Belongs(t, q, i), t[i].kind = "subshell"
      PROVE  Returns(t, q, i)
  <2>1. Above(t, i) = Above(rest, i) /\ Belongs(rest, q, i)
    BY <1>3, <1>6, <1>7, <1>8, AboveSame
  <2>2. Belongs(s, q, i)
    <3>1. q \in 1 .. Len(rest) /\ i \in 1 .. Len(rest)
      BY <1>3
    <3> HIDE DEF x, n
    <3> QED BY <1>3, <1>4, <2>1, <3>1, AboveAppend
  <2>3. t[i] = s[i] /\ s[i].kind = "subshell"
    BY <1>2, <1>5, <1>6, <1>8
  <2>4. Returns(s, q, i)
    <3>1. q \in DOMAIN s /\ i \in DOMAIN s
      BY <1>2, <1>3
    <3> QED BY <3>1, <2>2, <2>3 DEF Stacked
  <2>5. CASE q = r /\ r < i /\ \A k \in i .. n : rest[k].kind # "shell"
    <3>1. Above(s, i) = Above(rest, i) \cup {n + 1}
      <4>1. i \in 1 .. Len(rest) /\ \A k \in i .. Len(rest) : rest[k].kind # "shell"
        BY <1>3, <2>5
      <4>2. Above(s, i) = Above(rest, i) \cup {Len(rest) + 1}
        <5> HIDE DEF n, x
        <5>1. Bracketing(x)
          BY DEF x
        <5> QED BY <1>3, <1>4, <4>1, <5>1, AboveAppend
      <4> QED BY <1>3, <4>2
    <3>2. Above(rest, i) \subseteq i + 1 .. n /\ IsFiniteSet(Above(rest, i)) /\ Cardinality(Above(rest, i)) \in Nat
      BY <1>3, AboveFacts
    <3>3. n + 1 \notin Above(rest, i)
      BY <1>2, <3>2
    <3>4. Cardinality(Above(s, i)) = Cardinality(Above(t, i)) + 1
      <4> HIDE DEF n
      <4> QED BY <2>1, <3>1, <3>2, <3>3, FS_AddElement
    <3>5. s[i].mutates
      BY <2>4, <3>1 DEF Returns
    <3> DEFINE depth == Cardinality(Above(t, i))
               old == s[r].saved
    <3>6. s[i].clean => Len(old) > depth + 1 /\ old[Len(old) - (depth + 1)] = s[i].entry
      BY <2>4, <2>5, <3>4, <3>5 DEF Returns
    <3>7. s[i].clean => Len(shell.saved) > depth /\ shell.saved[Len(shell.saved) - depth] = s[i].entry
      <4>1. depth \in Nat /\ old \in Seq(SUBSET Bits) /\ Len(old) \in Nat
        BY <2>1, <3>2, LenProperties DEF ShellScope
      <4>2. old # <<>> => /\ Len(shell.saved) = Len(old) - 1
                          /\ \A k \in 1 .. Len(old) - 1 : shell.saved[k] = old[k]
        BY <1>5, PopShell
      <4>3. SUFFICES ASSUME s[i].clean
                     PROVE  Len(shell.saved) > depth /\ shell.saved[Len(shell.saved) - depth] = s[i].entry
        OBVIOUS
      <4> HIDE DEF depth, old
      <4>4. Len(old) > depth + 1 /\ old[Len(old) - (depth + 1)] = s[i].entry
        BY <3>6, <4>3
      <4>5. old # <<>>
        BY <4>1, <4>4, EmptySeq
      <4>6. Len(shell.saved) - depth = Len(old) - (depth + 1) /\ Len(old) - (depth + 1) \in 1 .. Len(old) - 1
        BY <4>1, <4>2, <4>4, <4>5
      <4>7. Len(shell.saved) > depth
        BY <4>1, <4>2, <4>4, <4>5
      <4> QED BY <4>2, <4>4, <4>5, <4>6, <4>7
    <3>8. t[q] = shell
      BY <1>6, <2>5
    <3> QED BY <2>3, <3>5, <3>7, <3>8 DEF Returns
  <2>6. CASE q # r /\ r \in i .. n
    <3>1. r \in i .. Len(rest) /\ rest[r].kind = "shell" /\ i \in 1 .. Len(rest)
      BY <1>2, <1>3, <2>6
    <3>2. Above(s, i) = Above(rest, i)
      <4> HIDE DEF x, n
      <4> QED BY <1>3, <1>4, <3>1, AboveAppend
    <3>3. t[q] = s[q]
      BY <1>6, <2>6
    <3> QED BY <2>1, <2>3, <2>4, <3>2, <3>3 DEF Returns
  <2>7. \/ q = r /\ r < i /\ \A k \in i .. Len(rest) : rest[k].kind # "shell"
        \/ q # r /\ r \in i .. Len(rest)
    <3>1. q \in 1 .. Len(rest) /\ i \in 1 .. Len(rest)
      BY <1>3
    <3> HIDE DEF n
    <3> QED BY <1>2, <1>3, <2>1, <3>1, BelongsToRunning
  <2> QED BY <1>3, <2>5, <2>6, <2>7
<1>9. Stacked(t)
  BY <1>6, <1>8 DEF Stacked
<1>10. x.clean => shell.mask = x.entry
  <2>1. Len(s) = n + 1 /\ r \in DOMAIN s /\ n + 1 \in DOMAIN s
    BY <1>2, <1>3
  <2>2. Belongs(s, r, n + 1)
    BY <1>2, <2>1 DEF Belongs, Innermost
  <2>3. Returns(s, r, n + 1)
    BY <1>1, <2>1, <2>2 DEF Stacked
  <2>4. Above(s, n + 1) = {}
    BY <1>2, <1>3 DEF Above
  <2>5. Cardinality(Above(s, n + 1)) = 0
    BY <2>4, FS_EmptySet
  <2>6. x.clean => Len(s[r].saved) > 0 /\ s[r].saved[Len(s[r].saved) - 0] = x.entry
    BY <1>1, <2>1, <2>3, <2>5 DEF Returns
  <2>7. s[r].saved \in Seq(SUBSET Bits) /\ Len(s[r].saved) \in Nat
    BY LenProperties DEF ShellScope
  <2>8. x.clean => s[r].saved # <<>> /\ s[r].saved[Len(s[r].saved)] = x.entry
    BY <2>6, <2>7, EmptySeq
  <2> QED BY <1>5, <2>8, PopShell
<1> QED BY <1>5, <1>6, <1>9, <1>10 DEF t, shell, rest

-----------------------------------------------------------------------------
(* Steps of the scopes of one process *)

\* The scopes of a process are a sequence of scopes.
LEMMA ScopesOf ==
  ASSUME Typed, NEW p \in Procs
  PROVE  /\ scopes[p] \in Seq(Scope) /\ Len(scopes[p]) \in Nat /\ DOMAIN scopes[p] = 1 .. Len(scopes[p])
         /\ scopes[p] # <<>> => Len(scopes[p]) > 0 /\ scopes[p][1].kind = "shell"
         /\ \A i \in 1 .. Len(scopes[p]) : scopes[p][i] \in Scope
<1>1. scopes[p] \in Seq(Scope)
  BY DEF Typed
<1>2. Len(scopes[p]) \in Nat /\ DOMAIN scopes[p] = 1 .. Len(scopes[p])
  BY <1>1, LenProperties
<1>3. scopes[p] # <<>> => Len(scopes[p]) > 0
  BY <1>1, <1>2, EmptySeq
<1>4. \A i \in 1 .. Len(scopes[p]) : scopes[p][i] \in Scope
  BY <1>1, ElementOfSeq
<1> QED BY <1>1, <1>2, <1>3, <1>4 DEF Typed

\* A step of p that changes its scopes in place or opens one keeps the invariant.
LEMMA GrowStep ==
  ASSUME IInv, NEW p \in Procs, scopes[p] # <<>>, NEW t \in Seq(Scope),
         Len(t) >= Len(scopes[p]), \A i \in 1 .. Len(scopes[p]) : t[i].kind = scopes[p][i].kind,
         Stacked(t), \A i \in 1 .. Len(t) : Guards(files, t[i]),
         scopes' = [scopes EXCEPT ![p] = t], UNCHANGED <<files, inherited, starting, program>>
  PROVE  IInv'
<1>1. Typed /\ Protected /\ \A q \in Procs : Stacked(scopes[q])
  BY DEF IInv
<1>2. scopes \in [Procs -> Seq(Scope)] /\ Len(t) \in Nat /\ DOMAIN t = 1 .. Len(t)
  BY <1>1, LenProperties DEF Typed
<1>3. scopes'[p] = t /\ (\A q \in Procs : q # p => scopes'[q] = scopes[q]) /\ scopes' \in [Procs -> Seq(Scope)]
  BY <1>2
<1>4. Len(scopes[p]) \in Nat /\ Len(scopes[p]) > 0 /\ DOMAIN scopes[p] = 1 .. Len(scopes[p])
      /\ scopes[p][1].kind = "shell"
  BY <1>1, ScopesOf
<1>5. t # <<>> /\ t[1].kind = "shell"
  BY <1>2, <1>4, EmptySeq
<1>6. \A i \in DOMAIN scopes[p] : i \in DOMAIN t /\ t[i].kind = scopes[p][i].kind
  BY <1>2, <1>4
<1>7. "main" \in Procs
  BY DEF Procs
<1>8. \A i \in DOMAIN scopes["main"] : i \in DOMAIN scopes'["main"] /\ scopes'["main"][i].kind = scopes["main"][i].kind
  BY <1>3, <1>6, <1>7
<1>9. Typed'
  BY <1>1, <1>3, <1>5, <1>7, <1>8 DEF Typed
<1>10. Protected'
  <2>1. ASSUME NEW q \in Procs, NEW i \in DOMAIN scopes'[q] PROVE Guards(files, scopes'[q][i])
    BY <1>1, <1>2, <1>3, <2>1 DEF Protected
  <2> QED BY <2>1 DEF Protected, Guards
<1>11. \A q \in Procs : Stacked(scopes'[q])
  BY <1>1, <1>3
<1> QED BY <1>9, <1>10, <1>11 DEF IInv, Stacked, Belongs, Returns, Above, Bracketing

\* A step of p that ends a subshell or a child shell keeps the invariant.
LEMMA ShrinkStep ==
  ASSUME IInv, NEW p \in Procs, NEW t \in Seq(Scope), Len(scopes[p]) > 1, Len(t) = Len(scopes[p]) - 1,
         \A i \in 1 .. Len(t) : t[i].kind = scopes[p][i].kind,
         Stacked(t), \A i \in 1 .. Len(t) : Guards(files, t[i]),
         scopes[p][Len(scopes[p])].kind # "redirect",
         scopes' = [scopes EXCEPT ![p] = t], UNCHANGED <<files, inherited, program>>,
         starting' \in [waiting : BOOLEAN, shell : Nat, mask : SUBSET Bits],
         starting'.shell # 0 => /\ starting'.shell = starting.shell
                                /\ p = "main" => starting.shell # Len(scopes[p])
  PROVE  IInv'
<1>1. Typed /\ Protected /\ \A q \in Procs : Stacked(scopes[q])
  BY DEF IInv
<1>2. scopes \in [Procs -> Seq(Scope)] /\ Len(t) \in Nat /\ DOMAIN t = 1 .. Len(t)
  BY <1>1, LenProperties DEF Typed
<1>3. scopes'[p] = t /\ (\A q \in Procs : q # p => scopes'[q] = scopes[q]) /\ scopes' \in [Procs -> Seq(Scope)]
  BY <1>2
<1>4. Len(scopes[p]) \in Nat /\ DOMAIN scopes[p] = 1 .. Len(scopes[p]) /\ scopes[p][1].kind = "shell"
  BY <1>1, ScopesOf, EmptySeq
<1>5. t # <<>> /\ t[1].kind = "shell"
  BY <1>2, <1>4, EmptySeq
<1>6. \A i \in DOMAIN scopes[p] : i # Len(scopes[p]) => i \in DOMAIN t /\ t[i].kind = scopes[p][i].kind
  BY <1>2, <1>4
<1>7. "main" \in Procs
  BY DEF Procs
<1>8. inherited # 0 => inherited \in DOMAIN scopes'["main"] /\ scopes'["main"][inherited].kind = "redirect"
  BY <1>1, <1>3, <1>6, <1>7 DEF Typed
<1>9. starting'.shell # 0 => starting'.shell \in DOMAIN scopes'["main"]
                             /\ scopes'["main"][starting'.shell].kind = "shell"
  BY <1>1, <1>3, <1>6, <1>7 DEF Typed
<1>10. Typed'
  BY <1>1, <1>3, <1>5, <1>7, <1>8, <1>9 DEF Typed
<1>11. Protected'
  <2>1. ASSUME NEW q \in Procs, NEW i \in DOMAIN scopes'[q] PROVE Guards(files, scopes'[q][i])
    BY <1>1, <1>2, <1>3, <2>1 DEF Protected
  <2> QED BY <2>1 DEF Protected, Guards
<1>12. \A q \in Procs : Stacked(scopes'[q])
  BY <1>1, <1>3
<1> QED BY <1>10, <1>11, <1>12 DEF IInv, Stacked, Belongs, Returns, Above, Bracketing

\* A mask that a subshell without bracket was entered with is still in force.
LEMMA MaskHeld ==
  ASSUME NEW s \in Seq(Scope), Stacked(s), NEW r \in 1 .. Len(s), NEW i \in 1 .. Len(s), Belongs(s, r, i),
         s[i].kind = "subshell", s[i].clean, ~s[i].mutates
  PROVE  s[r].mask = s[i].entry
BY LenProperties DEF Stacked, Returns

\* Only redirections are guarded.
LEMMA OnlyRedirects ==
  ASSUME NEW f, f.kind # "redirect"
  PROVE  Guards(files, f)
BY DEF Guards

\* Umask, noclobber: one field of the running shell, within the rule for masks.
LEMMA ShellStep ==
  ASSUME IInv, NEW p \in Procs, scopes[p] # <<>>, NEW shell \in ShellScope,
         shell.saved = Shells(p).saved, shell.mask = Shells(p).mask \/ Bracketed(p),
         scopes' = [scopes EXCEPT ![p] = [@ EXCEPT ![Running(p)] = shell]],
         UNCHANGED <<files, inherited, starting, program>>
  PROVE  IInv'
<1> DEFINE s == scopes[p]
           r == Running(p)
           t == [s EXCEPT ![r] = shell]
<1>1. Typed /\ Protected /\ Stacked(s)
  BY DEF IInv
<1>2. s \in Seq(Scope) /\ Len(s) \in Nat /\ DOMAIN s = 1 .. Len(s)
  BY <1>1, ScopesOf
<1>3. Innermost(s, r) /\ r \in 1 .. Len(s) /\ s[r].kind = "shell" /\ s[r] = Shells(p)
  BY <1>1, RunningIsShell DEF Innermost, Shells
<1>4. shell \in Scope /\ shell.kind = "shell"
  BY DEF Scope, ShellScope
<1>5. /\ t \in Seq(Scope) /\ Len(t) = Len(s) /\ t[r] = shell
      /\ \A k \in 1 .. Len(s) : k # r => t[k] = s[k]
  <2> HIDE DEF s, r
  <2> QED BY <1>2, <1>3, <1>4, ExceptSeq
<1>6. scopes' = [scopes EXCEPT ![p] = t]
  OBVIOUS
<1>7. \A q, i \in 1 .. Len(s) :
         Belongs(s, q, i) /\ s[i].kind = "subshell" /\ t[i].clean /\ ~t[i].mutates => t[q].mask = t[i].entry
  <2> SUFFICES ASSUME NEW q \in 1 .. Len(s), NEW i \in 1 .. Len(s), Belongs(s, q, i), s[i].kind = "subshell",
                      t[i].clean, ~t[i].mutates
               PROVE  t[q].mask = t[i].entry
    OBVIOUS
  <2>1. t[i] = s[i]
    BY <1>3, <1>5
  <2>2. s[q].mask = s[i].entry
    BY <1>1, <1>2, <2>1, MaskHeld
  <2>3. CASE q # r
    BY <1>5, <2>1, <2>2, <2>3
  <2>4. CASE q = r /\ shell.mask = s[r].mask
    BY <1>5, <2>1, <2>2, <2>4
  <2>5. CASE q = r /\ Bracketed(p)
    <3>1. i > r
      BY <2>5 DEF Belongs
    <3>2. i \in Subshells(p)
      BY <1>2, <3>1 DEF Subshells, Kind
    <3> QED BY <2>1, <2>5, <3>2 DEF Bracketed
  <2> QED BY <1>3, <2>3, <2>4, <2>5
<1>8. \A i \in 1 .. Len(s) : t[i].kind = s[i].kind
  BY <1>3, <1>4, <1>5
<1>9. \A i \in 1 .. Len(s) : Guards(files, t[i])
  BY <1>1, <1>2, <1>4, <1>5, OnlyRedirects DEF Protected
<1>10. Stacked(t)
  <2>1. \A i \in 1 .. Len(s) : s[i].kind = "shell" => t[i].saved = s[i].saved
    BY <1>3, <1>5
  <2>2. \A i \in 1 .. Len(s) : s[i].kind = "subshell" =>
          t[i].mutates = s[i].mutates /\ t[i].entry = s[i].entry /\ (t[i].clean => s[i].clean)
    BY <1>3, <1>5
  <2> HIDE DEF s, r, t
  <2> QED BY <1>1, <1>2, <1>5, <1>7, <1>8, <2>1, <2>2, StackedSame
<1>11. Len(t) >= Len(s) /\ \A i \in 1 .. Len(t) : Guards(files, t[i])
  BY <1>2, <1>5, <1>9
<1> HIDE DEF t
<1> QED BY <1>5, <1>6, <1>8, <1>10, <1>11, GrowStep

-----------------------------------------------------------------------------
(* The actions *)

\* umask where every subshell around it is bracketed, so none is held to the mask in force.
LEMMA UmaskStep ==
  ASSUME IInv, NEW p \in Procs, NEW m \in Masks, Umask(p, m)
  PROVE  IInv'
<1> DEFINE shell == [Shells(p) EXCEPT !.mask = m]
<1>1. scopes[p] # <<>> /\ Bracketed(p) /\ UNCHANGED <<files, inherited, starting, program>>
  BY DEF Umask
<1>2. Shells(p) \in ShellScope
  BY <1>1, RunningIsShell DEF IInv, Shells
<1>3. shell \in ShellScope /\ shell.saved = Shells(p).saved
  BY <1>2, MaskAssumption DEF ShellScope
<1>4. scopes' = [scopes EXCEPT ![p] = [@ EXCEPT ![Running(p)] = [scopes[p][Running(p)] EXCEPT !["mask"] = m]]]
  BY DEF Umask, Update
<1>5. scopes' = [scopes EXCEPT ![p] = [@ EXCEPT ![Running(p)] = shell]]
  BY <1>4 DEF Shells
<1> HIDE DEF shell
<1> QED BY <1>1, <1>3, <1>5, ShellStep

\* set -C and set +C keep the invariant.
LEMMA SetNoclobberStep ==
  ASSUME IInv, NEW p \in Procs, SetNoclobber(p)
  PROVE  IInv'
<1> DEFINE shell == [Shells(p) EXCEPT !.noclobber = ~Shells(p).noclobber]
<1>1. scopes[p] # <<>> /\ UNCHANGED <<files, inherited, starting, program>>
  BY DEF SetNoclobber
<1>2. Shells(p) \in ShellScope
  BY <1>1, RunningIsShell DEF IInv, Shells
<1>3. shell \in ShellScope /\ shell.saved = Shells(p).saved /\ shell.mask = Shells(p).mask
  BY <1>2 DEF ShellScope
<1>4. scopes' = [scopes EXCEPT ![p] = [@ EXCEPT ![Running(p)] = shell]]
  BY DEF SetNoclobber, Update, Shells
<1> HIDE DEF shell
<1> QED BY <1>1, <1>3, <1>4, ShellStep

\* The mapping of a sequence of scopes is one.
LEMMA MappedScopes ==
  ASSUME NEW s \in Seq(Scope), NEW t, DOMAIN t = DOMAIN s, t = [i \in DOMAIN s |-> t[i]],
         \A i \in 1 .. Len(s) : t[i] \in Scope
  PROVE  t \in Seq(Scope) /\ Len(t) = Len(s)
<1>1. Len(s) \in Nat /\ DOMAIN s = 1 .. Len(s)
  BY LenProperties
<1>2. t \in [1 .. Len(s) -> Scope]
  BY <1>1
<1>3. t \in Seq(Scope)
  BY <1>1, <1>2, SeqDef
<1> QED BY <1>1, <1>3, LenProperties

\* Spoiling a subshell leaves its kind and its bracket.
LEMMA SpoiledScope ==
  ASSUME NEW x \in Scope, x.kind = "subshell"
  PROVE  /\ Spoiled(x) \in SubshellScope /\ Spoiled(x) \in Scope /\ Spoiled(x).kind = "subshell"
         /\ Spoiled(x).mutates = x.mutates /\ Spoiled(x).entry = x.entry /\ ~Spoiled(x).clean
<1>1. x \in SubshellScope
  BY ScopeFacts
<1> QED BY <1>1 DEF Spoiled, SubshellScope, Scope

\* A umask that a function hides from the normalizer keeps the invariant.
LEMMA UmaskInFunctionStep ==
  ASSUME IInv, NEW p \in Procs, NEW m \in Masks, UmaskInFunction(p, m)
  PROVE  IInv'
<1> DEFINE s == scopes[p]
           r == Running(p)
           t == [i \in DOMAIN s |->
                   IF i = r THEN [s[i] EXCEPT !.mask = m]
                   ELSE IF i \in Subshells(p) /\ ~s[i].mutates THEN Spoiled(s[i]) ELSE s[i]]
<1>1. s # <<>> /\ UNCHANGED <<files, inherited, starting, program>> /\ scopes' = [scopes EXCEPT ![p] = t]
  BY DEF UmaskInFunction
<1>2. Typed /\ Protected /\ Stacked(s)
  BY DEF IInv
<1>3. /\ s \in Seq(Scope) /\ Len(s) \in Nat /\ DOMAIN s = 1 .. Len(s)
      /\ \A i \in 1 .. Len(s) : s[i] \in Scope
  BY <1>2, ScopesOf
<1>4. Innermost(s, r) /\ r \in 1 .. Len(s) /\ s[r].kind = "shell" /\ s[r] \in ShellScope
  BY <1>1, <1>2, RunningIsShell DEF Innermost
<1>5. \A i \in Subshells(p) : i > r /\ i \in 1 .. Len(s) /\ s[i].kind = "subshell"
  BY <1>3 DEF Subshells, Kind
<1>6. /\ t[r].kind = "shell" /\ t[r].saved = s[r].saved /\ t[r].mask = m /\ t[r] \in Scope
  BY <1>3, <1>4, MaskAssumption DEF ShellScope, Scope
<1>7. ASSUME NEW i \in 1 .. Len(s), i # r
      PROVE  /\ t[i] \in Scope /\ t[i].kind = s[i].kind
             /\ s[i].kind # "subshell" => t[i] = s[i]
             /\ s[i].kind = "subshell" =>
                  t[i].mutates = s[i].mutates /\ t[i].entry = s[i].entry /\ (t[i].clean => t[i] = s[i])
             /\ i \in Subshells(p) /\ ~s[i].mutates => ~t[i].clean
  <2>1. CASE i \in Subshells(p) /\ ~s[i].mutates
    <3>1. t[i] = Spoiled(s[i])
      BY <1>3, <1>7, <2>1
    <3> QED BY <1>3, <1>5, <2>1, <3>1, SpoiledScope
  <2>2. CASE ~(i \in Subshells(p) /\ ~s[i].mutates)
    <3>1. t[i] = s[i]
      BY <1>3, <1>7, <2>2
    <3> QED BY <1>3, <2>2, <3>1
  <2> QED BY <2>1, <2>2
<1>8. \A i \in 1 .. Len(s) : t[i] \in Scope
  BY <1>6, <1>7
<1>9. t \in Seq(Scope) /\ Len(t) = Len(s)
  <2>1. DOMAIN t = DOMAIN s /\ t = [i \in DOMAIN s |-> t[i]]
    OBVIOUS
  <2> HIDE DEF t, s
  <2> QED BY <1>3, <1>8, <2>1, MappedScopes
<1> HIDE DEF t
<1>10. \A i \in 1 .. Len(s) : t[i].kind = s[i].kind
  BY <1>4, <1>6, <1>7
<1>11. Stacked(t)
  <2>1. ASSUME NEW q \in 1 .. Len(s), NEW i \in 1 .. Len(s), Belongs(s, q, i), s[i].kind = "subshell",
               t[i].clean, ~t[i].mutates
        PROVE  t[q].mask = t[i].entry
    <3>1. i # r /\ t[i] = s[i]
      BY <1>4, <1>7, <2>1
    <3>2. s[q].mask = s[i].entry
      BY <1>2, <1>3, <2>1, <3>1, MaskHeld
    <3>3. CASE q = r
      <4>1. i \in Subshells(p)
        BY <1>3, <2>1, <3>3 DEF Belongs, Subshells, Kind
      <4> QED BY <1>7, <2>1, <3>1, <4>1
    <3>4. CASE q # r
      <4>1. t[q] = s[q]
        BY <1>7, <2>1, <3>4 DEF Belongs
      <4> QED BY <3>1, <3>2, <4>1
    <3> QED BY <3>3, <3>4
  <2>2. \A i \in 1 .. Len(s) : s[i].kind = "shell" => t[i].saved = s[i].saved
    BY <1>4, <1>6, <1>7
  <2>3. \A i \in 1 .. Len(s) : s[i].kind = "subshell" =>
          t[i].mutates = s[i].mutates /\ t[i].entry = s[i].entry /\ (t[i].clean => s[i].clean)
    BY <1>4, <1>7
  <2> HIDE DEF s, r
  <2> QED BY <1>2, <1>3, <1>9, <1>10, <2>1, <2>2, <2>3, StackedSame
<1>12. Len(t) >= Len(s) /\ \A i \in 1 .. Len(t) : Guards(files, t[i])
  <2>1. ASSUME NEW i \in 1 .. Len(s) PROVE Guards(files, t[i])
    <3>1. CASE t[i].kind = "redirect"
      <4>1. t[i] = s[i]
        BY <1>4, <1>7, <1>10, <3>1
      <4> QED BY <1>2, <1>3, <4>1 DEF Protected
    <3>2. CASE t[i].kind # "redirect"
      BY <3>2, OnlyRedirects
    <3> QED BY <3>1, <3>2
  <2> QED BY <1>3, <1>9, <2>1
<1> QED BY <1>1, <1>9, <1>10, <1>11, <1>12, GrowStep

\* A scope opens over an unchanged stack.
LEMMA OpenStep ==
  ASSUME IInv, NEW p \in Procs, scopes[p] # <<>>, NEW x \in Scope, ~Bracketing(x),
         x.kind = "subshell" => Shells(p).mask = x.entry, Guards(files, x),
         scopes' = [scopes EXCEPT ![p] = Append(@, x)], UNCHANGED <<files, inherited, starting, program>>
  PROVE  IInv'
<1> DEFINE s == scopes[p]
           t == Append(s, x)
<1>1. Typed /\ Protected /\ Stacked(s)
  BY DEF IInv
<1>2. s \in Seq(Scope) /\ Len(s) \in Nat /\ DOMAIN s = 1 .. Len(s)
  BY <1>1, ScopesOf
<1>3. Innermost(s, Running(p))
  BY <1>1, RunningIsShell
<1>4. /\ t \in Seq(Scope) /\ Len(t) = Len(s) + 1 /\ t[Len(s) + 1] = x
      /\ \A i \in 1 .. Len(s) : t[i] = s[i]
  BY <1>2, AppendProperties
<1>5. Stacked(t)
  BY <1>1, <1>2, <1>3, StackedAppend DEF Shells
<1>6. Len(t) >= Len(s) /\ \A i \in 1 .. Len(s) : t[i].kind = s[i].kind
  BY <1>2, <1>4
<1>7. \A i \in 1 .. Len(t) : Guards(files, t[i])
  <2>1. \A i \in 1 .. Len(s) : Guards(files, t[i])
    BY <1>1, <1>2, <1>4 DEF Protected
  <2>2. \A i \in 1 .. Len(t) : i \in 1 .. Len(s) \/ i = Len(s) + 1
    BY <1>2, <1>4
  <2> QED BY <1>4, <2>1, <2>2
<1>8. scopes' = [scopes EXCEPT ![p] = t]
  OBVIOUS
<1> HIDE DEF t
<1> QED BY <1>4, <1>5, <1>6, <1>7, <1>8, GrowStep

\* A child shell opens with a stack of its own.
LEMMA EnterShellStep ==
  ASSUME IInv, NEW p \in Procs, EnterShell(p)
  PROVE  IInv'
<1> DEFINE x == Shell(Shells(p).mask)
<1>1. scopes[p] # <<>> /\ scopes' = [scopes EXCEPT ![p] = Append(@, x)]
      /\ UNCHANGED <<files, inherited, starting, program>>
  BY DEF EnterShell, Nestable, Deeper
<1>2. Shells(p).mask \in SUBSET Bits
  BY <1>1, RunningIsShell DEF IInv, Shells, ShellScope
<1>3. x \in Scope /\ x.kind = "shell"
  BY <1>2 DEF Shell, Scope, ShellScope
<1>4. ~Bracketing(x) /\ Guards(files, x)
  BY <1>3 DEF Bracketing, Guards
<1> HIDE DEF x
<1> QED BY <1>1, <1>3, <1>4, OpenStep

\* A subshell opens, bracketed when its text changes the mask.
LEMMA EnterSubshellStep ==
  ASSUME IInv, NEW p \in Procs, NEW mutates \in BOOLEAN, EnterSubshell(p, mutates)
  PROVE  IInv'
<1> DEFINE s == scopes[p]
           r == Running(p)
           x == [kind |-> "subshell", mutates |-> mutates, clean |-> TRUE, entry |-> Shells(p).mask]
           shell == IF mutates THEN Push(Shells(p)) ELSE Shells(p)
           t == Append([s EXCEPT ![r] = shell], x)
<1>1. /\ s # <<>> /\ (mutates => Bracketed(p)) /\ UNCHANGED <<files, inherited, starting, program>>
      /\ scopes' = [scopes EXCEPT ![p] = t]
  BY DEF EnterSubshell, Nestable, Deeper
<1>2. Typed /\ Protected /\ Stacked(s)
  BY DEF IInv
<1>3. s \in Seq(Scope) /\ Len(s) \in Nat /\ DOMAIN s = 1 .. Len(s)
  BY <1>2, ScopesOf
<1>4. Innermost(s, r) /\ r \in 1 .. Len(s) /\ s[r] \in ShellScope /\ s[r] = Shells(p) /\ s[r].kind = "shell"
  BY <1>1, <1>2, RunningIsShell DEF Innermost, Shells
<1>5. x \in SubshellScope /\ x \in Scope /\ x.kind = "subshell" /\ x.mutates = mutates /\ x.entry = s[r].mask
  <2>1. s[r].mask \in SUBSET Bits
    BY <1>4 DEF ShellScope
  <2> QED BY <1>4, <2>1 DEF SubshellScope, Scope
<1>6. Guards(files, x)
  BY <1>5 DEF Guards
<1>7. CASE ~mutates
  <2>1. [s EXCEPT ![r] = shell] = s
    BY <1>3, <1>4, <1>7
  <2>2. scopes' = [scopes EXCEPT ![p] = Append(@, x)]
    BY <1>1, <2>1
  <2>3. ~Bracketing(x)
    BY <1>5, <1>7 DEF Bracketing
  <2> HIDE DEF x
  <2> QED BY <1>1, <1>4, <1>5, <1>6, <2>2, <2>3, OpenStep
<1>8. CASE mutates
  <2>1. t = Append([s EXCEPT ![r] = Push(s[r])], x) /\ shell = Push(s[r])
    BY <1>4, <1>8
  <2>2. Bracketing(x)
    BY <1>5, <1>8 DEF Bracketing
  <2>3. \A k \in r + 1 .. Len(s) : s[k].kind = "subshell" => Bracketing(s[k])
    <3>1. \A k \in r + 1 .. Len(s) : s[k].kind = "subshell" => k \in Subshells(p)
      BY <1>3, <1>4 DEF Subshells, Kind
    <3> QED BY <1>1, <1>8, <3>1 DEF Bracketed, Bracketing
  <2> HIDE DEF x
  <2>4. t \in Seq(Scope) /\ Stacked(t)
    <3> HIDE DEF s, r, t
    <3> QED BY <1>2, <1>3, <1>4, <1>5, <2>1, <2>2, <2>3, StackedPush
  <2> DEFINE u == [s EXCEPT ![r] = shell]
  <2> HIDE DEF shell
  <2>5. shell \in ShellScope /\ shell \in Scope /\ shell.kind = "shell"
    BY <1>4, <2>1, PushShell DEF Scope, ShellScope
  <2>6. u \in Seq(Scope) /\ Len(u) = Len(s) /\ u[r] = shell /\ \A k \in 1 .. Len(s) : k # r => u[k] = s[k]
    <3> HIDE DEF s, r
    <3> QED BY <1>3, <1>4, <2>5, ExceptSeq
  <2> HIDE DEF u
  <2>7. Len(t) = Len(s) + 1 /\ t[Len(s) + 1] = x /\ \A k \in 1 .. Len(s) : t[k] = u[k]
    BY <1>3, <1>5, <2>6, AppendProperties DEF u
  <2> HIDE DEF t
  <2>8. Len(t) >= Len(s) /\ \A k \in 1 .. Len(s) : t[k].kind = s[k].kind
    BY <1>3, <1>4, <2>5, <2>6, <2>7
  <2>9. \A k \in 1 .. Len(t) : Guards(files, t[k])
    <3>1. \A k \in 1 .. Len(s) : Guards(files, t[k])
      BY <1>2, <1>3, <2>5, <2>6, <2>7, OnlyRedirects DEF Protected
    <3>2. \A k \in 1 .. Len(t) : k \in 1 .. Len(s) \/ k = Len(s) + 1
      BY <1>3, <2>7
    <3> QED BY <1>6, <2>7, <3>1, <3>2
  <2> QED BY <1>1, <2>4, <2>8, <2>9, GrowStep
<1> QED BY <1>7, <1>8

\* What a subshell or child shell that closes leaves behind.
LEMMA TopScope ==
  ASSUME IInv, NEW p \in Procs, scopes[p] # <<>>, Top(p).kind # "shell" \/ Len(scopes[p]) > 1
  PROVE  LET s == scopes[p]
             rest == SubSeq(s, 1, Len(s) - 1)
         IN  /\ Len(s) > 1 /\ Len(s) \in Nat /\ Top(p) = s[Len(s)] /\ Top(p) \in Scope
             /\ rest \in Seq(Scope) /\ Len(rest) = Len(s) - 1 /\ DOMAIN rest = 1 .. Len(s) - 1
             /\ DOMAIN s = 1 .. Len(s)
             /\ \A i \in 1 .. Len(s) - 1 : rest[i] = s[i] /\ Guards(files, s[i])
<1> DEFINE s == scopes[p]
<1>1. /\ s \in Seq(Scope) /\ Len(s) \in Nat /\ Len(s) > 0 /\ s[1].kind = "shell" /\ DOMAIN s = 1 .. Len(s)
      /\ \A i \in 1 .. Len(s) : s[i] \in Scope
  BY ScopesOf DEF IInv
<1>2. Top(p) = s[Len(s)] /\ Top(p) \in Scope
  BY <1>1 DEF Top
<1>3. Len(s) > 1
  BY <1>1, <1>2
<1>4. \A i \in 1 .. Len(s) - 1 : Guards(files, s[i])
  BY <1>1 DEF IInv, Protected
<1> QED BY <1>1, <1>2, <1>3, <1>4, FrontOfScopes

\* A child shell ends and takes its stack with it.
LEMMA EndShellStep ==
  ASSUME IInv, NEW p \in Procs, EndShell(p)
  PROVE  IInv'
<1> DEFINE s == scopes[p]
           t == SubSeq(s, 1, Len(s) - 1)
<1>1. /\ Len(s) > 1 /\ Top(p).kind = "shell" /\ scopes' = [scopes EXCEPT ![p] = t]
      /\ UNCHANGED <<files, inherited, program>>
      /\ starting' = IF p = "main" /\ starting.shell = Len(s)
                     THEN [starting EXCEPT !.shell = 0, !.mask = Top(p).mask] ELSE starting
  BY DEF EndShell
<1>2. s # <<>> /\ s \in Seq(Scope) /\ Stacked(s)
  BY <1>1, ScopesOf, EmptySeq DEF IInv
<1>3. /\ Top(p) = s[Len(s)] /\ Top(p) \in Scope /\ t \in Seq(Scope) /\ Len(t) = Len(s) - 1
      /\ \A i \in 1 .. Len(s) - 1 : t[i] = s[i] /\ Guards(files, s[i])
  BY <1>1, <1>2, TopScope
<1>4. Top(p).mask \in SUBSET Bits
  <2>1. Top(p) \in ShellScope
    BY <1>1, <1>3, ScopeFacts
  <2> QED BY <2>1 DEF ShellScope
<1>5. Stacked(t)
  <2>1. ~Bracketing(s[Len(s)])
    BY <1>1, <1>3 DEF Bracketing
  <2> HIDE DEF s
  <2> QED BY <1>2, <2>1, StackedFront
<1>6. starting \in [waiting : BOOLEAN, shell : Nat, mask : SUBSET Bits]
  BY DEF IInv, Typed
<1>7. /\ starting' \in [waiting : BOOLEAN, shell : Nat, mask : SUBSET Bits]
      /\ starting'.shell # 0 => starting'.shell = starting.shell /\ (p = "main" => starting.shell # Len(s))
  BY <1>1, <1>4, <1>6
<1>8. s[Len(s)].kind # "redirect"
  BY <1>1, <1>3
<1>9. \A i \in 1 .. Len(t) : t[i].kind = s[i].kind /\ Guards(files, t[i])
  BY <1>3
<1> HIDE DEF t
<1> QED BY <1>1, <1>3, <1>5, <1>7, <1>8, <1>9, ShrinkStep

\* The end of a subshell, and what it gives back.
LEMMA EndSubshellStep ==
  ASSUME IInv, NEW p \in Procs, EndSubshell(p)
  PROVE  IInv' /\ (Top(p).clean => Shells(p)'.mask = Top(p).entry)
<1> DEFINE s == scopes[p]
           r == Running(p)
           n == Len(s) - 1
           x == Top(p)
           rest == SubSeq(s, 1, n)
           popped == [rest EXCEPT ![r] = Pop(rest[r])]
           t == IF x.mutates THEN popped ELSE rest
<1>1. /\ s # <<>> /\ x.kind = "subshell" /\ UNCHANGED <<files, inherited, starting, program>>
      /\ scopes' = [scopes EXCEPT ![p] = t]
  BY DEF EndSubshell
<1>2. /\ Typed /\ s \in Seq(Scope) /\ Stacked(s) /\ scopes \in [Procs -> Seq(Scope)]
      /\ starting \in [waiting : BOOLEAN, shell : Nat, mask : SUBSET Bits]
  BY ScopesOf DEF IInv, Typed
<1>3. /\ Len(s) > 1 /\ Len(s) \in Nat /\ x = s[Len(s)] /\ x \in Scope
      /\ rest \in Seq(Scope) /\ Len(rest) = n
      /\ \A i \in 1 .. n : rest[i] = s[i] /\ Guards(files, s[i])
  BY <1>1, TopScope
<1>4. Innermost(s, r) /\ s[r] \in ShellScope
  BY <1>1, <1>2, RunningIsShell
<1>5. r \in 1 .. n /\ rest[r] = s[r] /\ s[r].kind = "shell"
  <2>1. s[Len(s)].kind # "shell"
    BY <1>1, <1>3
  <2> QED BY <1>2, <1>4, <2>1, InnermostOfFront DEF Innermost
<1>6. /\ t \in Seq(Scope) /\ Len(t) = n /\ Stacked(t)
      /\ \A i \in 1 .. n : i # r => t[i] = s[i]
      /\ t[r].kind = "shell"
      /\ x.clean => t[r].mask = x.entry
  <2>1. CASE x.mutates
    <3>1. Bracketing(s[Len(s)])
      BY <1>1, <1>3, <2>1 DEF Bracketing
    <3>2. /\ popped \in Seq(Scope) /\ Len(popped) = n /\ Stacked(popped) /\ popped[r] \in ShellScope
          /\ \A k \in 1 .. n : k # r => popped[k] = s[k]
          /\ s[Len(s)].clean => popped[r].mask = s[Len(s)].entry
      <4> HIDE DEF s, r
      <4> QED BY <1>2, <1>4, <3>1, StackedPop DEF n, rest
    <3>3. popped[r].kind = "shell" /\ t = popped
      BY <2>1, <3>2 DEF ShellScope
    <3> HIDE DEF popped, t
    <3> QED BY <1>3, <3>2, <3>3
  <2>2. CASE ~x.mutates
    <3>1. ~Bracketing(s[Len(s)])
      BY <1>3, <2>2 DEF Bracketing
    <3>2. Stacked(rest)
      <4> HIDE DEF s
      <4> QED BY <1>1, <1>2, <3>1, StackedFront
    <3>3. x.clean => s[r].mask = x.entry
      <4>1. Belongs(s, r, Len(s)) /\ Len(s) \in 1 .. Len(s) /\ r \in 1 .. Len(s)
        BY <1>3, <1>4, <1>5 DEF Belongs, Innermost
      <4> HIDE DEF s, r
      <4> QED BY <1>1, <1>2, <1>3, <2>2, <4>1, MaskHeld
    <3> QED BY <1>3, <1>5, <2>2, <3>2, <3>3
  <2> QED BY <2>1, <2>2
<1>7. \A i \in 1 .. Len(t) : t[i].kind = s[i].kind /\ Guards(files, t[i])
  <2>1. \A i \in 1 .. n : i # r => t[i].kind = s[i].kind /\ Guards(files, t[i])
    BY <1>3, <1>6
  <2>2. Guards(files, t[r])
    BY <1>6, OnlyRedirects
  <2> QED BY <1>5, <1>6, <2>1, <2>2
<1> HIDE DEF t
<1>8. IInv'
  <2>1. s[Len(s)].kind # "redirect"
    BY <1>1, <1>3
  <2>2. \/ starting.shell # Len(s)
        \/ starting.shell = 0
        \/ p # "main"
    BY <1>1, <1>2, <1>3 DEF Typed
  <2>3. starting' = starting /\ UNCHANGED <<files, inherited, program>>
    BY <1>1
  <2> HIDE DEF s
  <2> QED BY <1>1, <1>2, <1>3, <1>6, <1>7, <2>1, <2>2, <2>3, ShrinkStep DEF s
<1>9. Shells(p)' = t[r]
  <2>1. scopes'[p] = t
    BY <1>1, <1>2
  <2>2. DOMAIN t = 1 .. n /\ DOMAIN s = 1 .. n + 1
    BY <1>2, <1>3, <1>6, LenProperties
  <2>3. Kind(p, "shell")' = Kind(p, "shell")
    <3>1. Kind(p, "shell")' = {i \in 1 .. n : t[i].kind = "shell"}
      BY <2>1, <2>2 DEF Kind
    <3>2. Kind(p, "shell") = {i \in 1 .. n + 1 : s[i].kind = "shell"}
      BY <2>2 DEF Kind
    <3>3. \A i \in 1 .. n + 1 : i \in 1 .. n \/ (i = n + 1 /\ s[i].kind # "shell")
      BY <1>1, <1>3
    <3>4. \A i \in 1 .. n : i \in 1 .. n + 1 /\ t[i].kind = s[i].kind
      BY <1>3, <1>6, <1>7
    <3> HIDE DEF n, s
    <3> QED BY <3>1, <3>2, <3>3, <3>4
  <2>4. Running(p)' = r
    BY <2>3 DEF Running, Last
  <2> QED BY <2>1, <2>4 DEF Shells
<1> QED BY <1>6, <1>8, <1>9

\* An exit leaves a subshell without the pop that ends it.
LEMMA ExitSubshellStep ==
  ASSUME IInv, NEW p \in Procs, ExitSubshell(p)
  PROVE  IInv'
<1> DEFINE s == scopes[p]
           r == Running(p)
           n == Len(s) - 1
           x == Top(p)
           rest == SubSeq(s, 1, n)
           t == [i \in DOMAIN rest |->
                   IF i \in Subshells(p) /\ x.mutates THEN Spoiled(rest[i]) ELSE rest[i]]
<1>1. /\ s # <<>> /\ x.kind = "subshell" /\ UNCHANGED <<files, inherited, starting, program>>
      /\ scopes' = [scopes EXCEPT ![p] = t]
  BY DEF ExitSubshell
<1>2. /\ Typed /\ s \in Seq(Scope) /\ Stacked(s)
      /\ starting \in [waiting : BOOLEAN, shell : Nat, mask : SUBSET Bits]
  BY ScopesOf DEF IInv, Typed
<1>3. /\ Len(s) > 1 /\ Len(s) \in Nat /\ x = s[Len(s)] /\ x \in Scope
      /\ rest \in Seq(Scope) /\ Len(rest) = n /\ DOMAIN rest = 1 .. n /\ DOMAIN s = 1 .. Len(s)
      /\ \A i \in 1 .. n : rest[i] = s[i] /\ Guards(files, s[i])
  BY <1>1, TopScope
<1>4. Innermost(s, r) /\ r \in 1 .. Len(s) /\ s[r].kind = "shell"
  BY <1>1, <1>2, RunningIsShell DEF Innermost
<1>5. \A i \in Subshells(p) : i > r /\ i \in 1 .. Len(s) /\ s[i].kind = "subshell"
  BY <1>3 DEF Subshells, Kind
<1>6. ASSUME NEW i \in 1 .. n
      PROVE  /\ t[i] \in Scope /\ t[i].kind = s[i].kind
             /\ s[i].kind # "subshell" => t[i] = s[i]
             /\ s[i].kind = "subshell" =>
                  t[i].mutates = s[i].mutates /\ t[i].entry = s[i].entry /\ (t[i].clean => t[i] = s[i])
             /\ i \in Subshells(p) /\ x.mutates => ~t[i].clean
  <2>1. s[i] \in Scope
    BY <1>2, <1>3, <1>6, ElementOfSeq
  <2>2. CASE i \in Subshells(p) /\ x.mutates
    <3>1. t[i] = Spoiled(s[i])
      BY <1>3, <1>6, <2>2
    <3> QED BY <2>1, <1>5, <2>2, <3>1, SpoiledScope
  <2>3. CASE ~(i \in Subshells(p) /\ x.mutates)
    <3>1. t[i] = s[i]
      BY <1>3, <1>6, <2>3
    <3> QED BY <2>1, <2>3, <3>1
  <2> QED BY <2>2, <2>3
<1>7. t \in Seq(Scope) /\ Len(t) = n
  <2>1. DOMAIN t = DOMAIN rest /\ t = [i \in DOMAIN rest |-> t[i]]
    OBVIOUS
  <2>2. \A i \in 1 .. Len(rest) : t[i] \in Scope
    BY <1>3, <1>6
  <2> HIDE DEF t, rest
  <2> QED BY <1>3, <2>1, <2>2, MappedScopes
<1> HIDE DEF t
<1>8. \A i \in 1 .. n : Bracketing(t[i]) <=> Bracketing(s[i])
  BY <1>6 DEF Bracketing
<1>9. Stacked(t)
  <2>1. CASE ~x.mutates
    <3>1. ~Bracketing(s[Len(s)])
      BY <1>3, <2>1 DEF Bracketing
    <3>2. Stacked(rest)
      <4> HIDE DEF s
      <4> QED BY <1>1, <1>2, <3>1, StackedFront
    <3>3. /\ \A i \in 1 .. n : t[i].kind = rest[i].kind
          /\ \A i \in 1 .. n : rest[i].kind = "shell" => t[i].saved = rest[i].saved /\ t[i].mask = rest[i].mask
          /\ \A i \in 1 .. n : rest[i].kind = "subshell" =>
                t[i].mutates = rest[i].mutates /\ t[i].entry = rest[i].entry /\ (t[i].clean => rest[i].clean)
      BY <1>3, <1>6
    <3>4. \A q, i \in 1 .. n :
            Belongs(rest, q, i) /\ rest[i].kind = "subshell" /\ t[i].clean /\ ~t[i].mutates => t[q].mask = t[i].entry
      <4> SUFFICES ASSUME NEW q \in 1 .. n, NEW i \in 1 .. n, Belongs(rest, q, i), rest[i].kind = "subshell",
                          t[i].clean, ~t[i].mutates
                   PROVE  t[q].mask = t[i].entry
        OBVIOUS
      <4>1. rest[q].mask = rest[i].entry
        <5>1. rest[i].clean /\ ~rest[i].mutates
          BY <3>3
        <5> HIDE DEF rest
        <5> QED BY <1>3, <3>2, <5>1, MaskHeld
      <4>2. rest[q].kind = "shell"
        BY DEF Belongs
      <4> QED BY <3>3, <4>1, <4>2
    <3> HIDE DEF rest, n
    <3> QED BY <1>3, <1>7, <3>2, <3>3, <3>4, StackedSame
  <2>2. CASE x.mutates
    <3>1. \A k \in 1 .. n : t[k].kind = s[k].kind
      BY <1>6
    <3>2. ASSUME NEW q \in 1 .. n, NEW i \in 1 .. n, Belongs(t, q, i), t[i].kind = "subshell"
          PROVE  Returns(t, q, i)
      <4>1. Belongs(s, q, i) /\ s[i].kind = "subshell" /\ s[q].kind = "shell"
        <5>1. t[q].kind = "shell" /\ q < i /\ \A k \in q + 1 .. i : t[k].kind # "shell"
          BY <3>2 DEF Belongs
        <5>2. \A k \in q + 1 .. i : s[k].kind # "shell"
          BY <1>3, <1>6, <5>1
        <5> QED BY <1>6, <3>2, <5>1, <5>2 DEF Belongs
      <4>2. Returns(s, q, i)
        <5>1. q \in DOMAIN s /\ i \in DOMAIN s
          BY <1>3
        <5> QED BY <1>2, <4>1, <5>1 DEF Stacked
      <4>3. CASE i \in Subshells(p)
        <5>1. ~t[i].clean
          BY <1>6, <2>2, <4>3
        <5>2. s[i].mutates
          <6>1. Len(s) \in Above(s, i)
            <7>1. Bracketing(s[Len(s)])
              BY <1>1, <1>3, <2>2 DEF Bracketing
            <7>2. \A k \in i .. Len(s) : s[k].kind # "shell"
              <8>1. i > r /\ \A k \in i .. Len(s) : k \in r + 1 .. Len(s)
                BY <1>3, <1>4, <1>5, <4>3
              <8> QED BY <1>4, <8>1 DEF Innermost
            <7> QED BY <1>3, <7>1, <7>2 DEF Above
          <6> QED BY <4>2, <6>1 DEF Returns
        <5>3. t[i].mutates
          BY <1>6, <4>1, <5>2
        <5> QED BY <5>1, <5>3 DEF Returns
      <4>4. CASE i \notin Subshells(p)
        <5>1. i <= r
          BY <1>3, <1>4, <4>1, <4>4 DEF Subshells, Kind
        <5>2. i # r
          BY <1>4, <4>1
        <5>3. Above(t, i) = Above(s, i)
          <6>1. \A j \in Above(t, i) : j \in Above(s, i)
            <7> SUFFICES ASSUME NEW j \in Above(t, i) PROVE j \in Above(s, i)
              OBVIOUS
            <7>1. j \in 1 .. n /\ j > i /\ Bracketing(t[j]) /\ \A k \in i .. j : t[k].kind # "shell"
              BY <1>7, LenProperties DEF Above
            <7>2. \A k \in i .. j : s[k].kind # "shell"
              <8>1. \A k \in i .. j : k \in 1 .. n
                BY <1>3, <7>1
              <8> QED BY <3>1, <7>1, <8>1
            <7> QED BY <1>3, <1>8, <7>1, <7>2 DEF Above
          <6>2. \A j \in Above(s, i) : j \in Above(t, i)
            <7> SUFFICES ASSUME NEW j \in Above(s, i) PROVE j \in Above(t, i)
              OBVIOUS
            <7>1. j \in 1 .. Len(s) /\ j > i /\ Bracketing(s[j]) /\ \A k \in i .. j : s[k].kind # "shell"
              BY <1>3 DEF Above
            <7>2. j < r
              BY <1>3, <1>4, <5>1, <7>1
            <7>3. j \in 1 .. n /\ DOMAIN t = 1 .. n
              BY <1>3, <1>4, <1>7, <7>1, <7>2, LenProperties
            <7>4. \A k \in i .. j : t[k].kind # "shell"
              <8>1. \A k \in i .. j : k \in 1 .. n
                BY <1>3, <7>3
              <8> QED BY <3>1, <7>1, <8>1
            <7> QED BY <1>8, <7>1, <7>3, <7>4 DEF Above
          <6> QED BY <6>1, <6>2, Zenon
        <5>4. t[q].saved = s[q].saved /\ t[q].mask = s[q].mask
          BY <1>6, <4>1
        <5>5. t[i].mutates = s[i].mutates /\ t[i].entry = s[i].entry /\ (t[i].clean => s[i].clean)
          BY <1>6, <4>1
        <5> QED BY <4>2, <5>3, <5>4, <5>5 DEF Returns
      <4> QED BY <4>3, <4>4
    <3>3. DOMAIN t = 1 .. n
      BY <1>7, LenProperties
    <3> QED BY <3>2, <3>3 DEF Stacked
  <2> QED BY <2>1, <2>2
<1>10. \A i \in 1 .. Len(t) : t[i].kind = s[i].kind /\ Guards(files, t[i])
  <2>1. ASSUME NEW i \in 1 .. n PROVE Guards(files, t[i])
    <3>1. CASE t[i].kind = "redirect"
      BY <1>3, <1>6, <3>1
    <3>2. CASE t[i].kind # "redirect"
      BY <3>2, OnlyRedirects
    <3> QED BY <3>1, <3>2
  <2> QED BY <1>6, <1>7, <2>1
<1>11. s[Len(s)].kind # "redirect"
  BY <1>1, <1>3
<1>12. \/ starting.shell # Len(s)
       \/ starting.shell = 0
       \/ p # "main"
  BY <1>1, <1>2, <1>3 DEF Typed
<1>13. starting' = starting /\ UNCHANGED <<files, inherited, program>>
  BY <1>1
<1> HIDE DEF s
<1> QED BY <1>1, <1>2, <1>3, <1>7, <1>9, <1>10, <1>11, <1>12, <1>13, ShrinkStep DEF s

-----------------------------------------------------------------------------
(* Redirections *)

\* Each redirection has the flags it is opened with.
LEMMA FlagFacts ==
  ASSUME NEW kind \in DOMAIN Redirections
  PROVE  LET flag == Redirections[kind]
         IN  /\ flag.write \in BOOLEAN /\ flag.trunc \in BOOLEAN /\ flag.append \in BOOLEAN
             /\ flag.force \in BOOLEAN /\ ~(flag.trunc /\ flag.append)
<1>1. kind \in {"read", "out", "clobber", "append", "update"}
  BY DEF Redirections
<1>2. CASE kind = "read"
  BY <1>2 DEF Redirections
<1>3. CASE kind = "out"
  BY <1>3 DEF Redirections
<1>4. CASE kind = "clobber"
  BY <1>4 DEF Redirections
<1>5. CASE kind = "append"
  BY <1>5 DEF Redirections
<1>6. CASE kind = "update"
  BY <1>6 DEF Redirections
<1> QED BY <1>1, <1>2, <1>3, <1>4, <1>5, <1>6

\* A process that is not writing.
LEMMA IdleWriter == Idle \in Writer /\ Idle.step = "idle"
<1>1. <<>> \in Seq(Byte)
  OBVIOUS
<1> QED BY <1>1 DEF Idle, Writer

\* Nobody is writing.
LEMMA KeptIdle ==
  ASSUME NEW f, \A q \in Procs : f.writers[q].step = "idle", f.text = f.expected, f.offset = Len(f.expected)
  PROVE  Kept(f)
BY DEF Kept, Holds, Procs

\* A redirection opens: its record holds what is expected of it.
LEMMA openHandlerStep ==
  ASSUME IInv, NEW p \in Procs, NEW name \in Files, NEW kind \in program[p].uses, openHandler(p, name, kind)
  PROVE  IInv'
<1> DEFINE flag == Redirections[kind]
           file == files[name]
           text == Initial(name, flag)
           was == [file EXCEPT !.text = <<>>]
           mode == OpenMode(p, name)
           guarded == flag.trunc /\ ~flag.force /\ Shells(p).noclobber
           x == [kind |-> "redirect", name |-> name, write |-> flag.write, append |-> flag.append,
                 trunc |-> flag.trunc, text |-> text, offset |-> Offset(flag, text), mode |-> mode,
                 writers |-> [q \in Procs |-> Idle], raced |-> FALSE,
                 expected |-> text, was |-> was, stale |-> FALSE, guarded |-> guarded]
<1>1. /\ scopes[p] # <<>> /\ ~Refused(p, name, flag) /\ scopes' = [scopes EXCEPT ![p] = Append(@, x)]
      /\ UNCHANGED <<files, inherited, starting, program>>
  BY DEF openHandler, Deeper
<1>2. file \in FileState
  BY DEF IInv, Typed
<1>3. /\ flag.write \in BOOLEAN /\ flag.trunc \in BOOLEAN /\ flag.append \in BOOLEAN
      /\ ~(flag.trunc /\ flag.append)
  <2>1. kind \in DOMAIN Redirections
    BY ProgramAssumption DEF IInv, Typed
  <2> QED BY <2>1, FlagFacts
<1>4. Shells(p).mask \in SUBSET Bits /\ Shells(p).noclobber \in BOOLEAN
  BY <1>1, RunningIsShell DEF IInv, Shells, ShellScope
<1>5. text \in Seq(Byte) /\ (flag.trunc => text = <<>>)
  BY <1>2, <1>3 DEF Initial, FileState
<1>6. mode \in SUBSET Bits /\ (file.there => mode = file.mode)
  BY <1>2, <1>4 DEF OpenMode, FileState
<1>7. was \in FileState /\ was.there = file.there /\ was.mode = file.mode
  <2>1. <<>> \in Seq(Byte)
    OBVIOUS
  <2> QED BY <1>2, <2>1 DEF FileState
<1>8. guarded \in BOOLEAN /\ (guarded => ~file.there)
  BY <1>1, <1>3, <1>4 DEF Refused
<1>9. Offset(flag, text) \in Nat
      /\ (flag.append \/ flag.trunc => Offset(flag, text) = Len(text))
  <2>1. Len(text) \in Nat
    BY <1>5, LenProperties
  <2>2. flag.trunc => Len(text) = 0
    BY <1>5, EmptySeq
  <2> HIDE DEF text, flag
  <2> QED BY <1>3, <2>1, <2>2 DEF Offset
<1> HIDE DEF flag, file, text, was, mode, guarded
<1>10. x \in RedirectScope
  <2>1. [q \in Procs |-> Idle] \in [Procs -> Writer]
    BY IdleWriter
  <2>2. x \in RedirectRecord
    BY <1>3, <1>5, <1>6, <1>7, <1>8, <1>9, <2>1 DEF RedirectRecord
  <2>3. (x.append \/ x.trunc) => Kept(x)
    <3>1. \A q \in Procs : x.writers[q] = Idle
      OBVIOUS
    <3>2. x.append \/ x.trunc => x.text = x.expected /\ x.offset = Len(x.expected)
      BY <1>9
    <3> HIDE DEF x
    <3> QED BY <3>1, <3>2, IdleWriter, KeptIdle
  <2>4. x.was.there => x.mode = x.was.mode
    BY <1>6, <1>7
  <2> QED BY <2>2, <2>3, <2>4 DEF RedirectScope
<1>11. x \in Scope /\ x.kind = "redirect" /\ ~Bracketing(x)
  BY <1>10 DEF Scope, Bracketing
<1>12. Guards(files, x)
  BY <1>8 DEF Guards, file
<1> HIDE DEF x
<1> QED BY <1>1, <1>11, <1>12, OpenStep DEF x

\* Data grown to a length are the data and zero bytes.
LEMMA GrownData ==
  ASSUME NEW text \in Seq(Byte), NEW end \in Nat
  PROVE  /\ Grown(text, end) \in Seq(Byte) /\ Len(Grown(text, end)) = Larger(end, Len(text))
         /\ end = Len(text) + 1 => Grown(text, end) = Append(text, "z")
<1> DEFINE n == Larger(end, Len(text))
           g == [k \in 1 .. n |-> IF k <= Len(text) THEN text[k] ELSE "z"]
<1>1. Grown(text, end) = g /\ DOMAIN g = 1 .. n
  BY DEF Grown
<1>2. n \in Nat /\ Len(text) \in Nat /\ \A k \in 1 .. Len(text) : text[k] \in Byte
  BY LenProperties, ElementOfSeq DEF Larger
<1>3. g \in [1 .. n -> Byte]
  BY <1>2 DEF Byte
<1>4. g \in Seq(Byte) /\ Len(g) = n
  <2> HIDE DEF n, g
  <2>1. g \in Seq(Byte)
    BY <1>2, <1>3, SeqDef
  <2> QED BY <1>1, <1>2, <2>1, LenProperties
<1>5. ASSUME end = Len(text) + 1 PROVE g = Append(text, "z")
  <2> DEFINE a == Append(text, "z")
  <2>1. /\ a \in Seq(Byte) /\ Len(a) = Len(text) + 1 /\ a[Len(text) + 1] = "z"
        /\ \A k \in 1 .. Len(text) : a[k] = text[k]
    BY AppendProperties DEF Byte
  <2>2. n = Len(text) + 1
    BY <1>2, <1>5 DEF Larger
  <2>3. \A k \in 1 .. n : g[k] = IF k <= Len(text) THEN text[k] ELSE "z"
    OBVIOUS
  <2> HIDE DEF a, n, g
  <2>4. \A k \in 1 .. n : g[k] = a[k]
    BY <1>2, <2>1, <2>2, <2>3
  <2> QED BY <1>4, <2>1, <2>2, <2>4, SeqEqual DEF a
<1> QED BY <1>1, <1>4, <1>5

\* The byte of a write replaces the zero byte at the end.
LEMMA ByteInPlace ==
  ASSUME NEW text \in Seq(Byte)
  PROVE  [Append(text, "z") EXCEPT ![Len(text) + 1] = "n"] = Append(text, "n")
<1> DEFINE a == Append(text, "z")
           b == [a EXCEPT ![Len(text) + 1] = "n"]
           c == Append(text, "n")
<1>1. /\ a \in Seq(Byte) /\ Len(a) = Len(text) + 1 /\ \A k \in 1 .. Len(text) : a[k] = text[k]
      /\ c \in Seq(Byte) /\ Len(c) = Len(text) + 1 /\ c[Len(text) + 1] = "n"
      /\ \A k \in 1 .. Len(text) : c[k] = text[k]
  BY AppendProperties DEF Byte
<1>2. Len(text) + 1 \in 1 .. Len(a) /\ Len(text) \in Nat /\ "n" \in Byte
  BY <1>1, LenProperties DEF Byte
<1>3. /\ b \in Seq(Byte) /\ Len(b) = Len(a)
      /\ \A k \in 1 .. Len(a) : b[k] = IF k = Len(text) + 1 THEN "n" ELSE a[k]
  <2> HIDE DEF a
  <2> QED BY <1>1, <1>2, ExceptSeq
<1> HIDE DEF a, b, c
<1>4. \A k \in 1 .. Len(b) : b[k] = c[k]
  <2> SUFFICES ASSUME NEW k \in 1 .. Len(b) PROVE b[k] = c[k]
    OBVIOUS
  <2>1. k \in 1 .. Len(text) \/ k = Len(text) + 1
    BY <1>1, <1>2, <1>3
  <2> QED BY <1>1, <1>2, <1>3, <2>1
<1> QED BY <1>1, <1>3, <1>4, SeqEqual DEF a, b, c

\* What a write changes of a redirection leaves it the same redirection.
Same(g, f) ==
  /\ g.kind = "redirect" /\ g.name = f.name /\ g.stale = f.stale /\ g.guarded = f.guarded
  /\ g.append = f.append /\ g.trunc = f.trunc /\ g.mode = f.mode /\ g.was = f.was

LEMMA SameScope ==
  ASSUME NEW f \in RedirectScope, NEW g \in RedirectRecord, Same(g, f),
         (f.append \/ f.trunc) /\ ~g.raced => Kept(g)
  PROVE  g \in RedirectScope
BY DEF RedirectScope, Same

\* The fields of a redirection.
LEMMA RedirectFields ==
  ASSUME NEW f \in RedirectScope
  PROVE  /\ f \in RedirectRecord /\ f.kind = "redirect" /\ f.text \in Seq(Byte) /\ f.expected \in Seq(Byte)
         /\ f.offset \in Nat /\ f.writers \in [Procs -> Writer] /\ f.raced \in BOOLEAN
         /\ Len(f.text) \in Nat /\ Len(f.expected) \in Nat
<1>1. f \in RedirectRecord
  BY DEF RedirectScope
<1>2. f.text \in Seq(Byte) /\ f.expected \in Seq(Byte)
  BY <1>1 DEF RedirectRecord
<1>3. Len(f.text) \in Nat /\ Len(f.expected) \in Nat
  BY <1>2, LenProperties
<1> QED BY <1>1, <1>3 DEF RedirectRecord

\* As long as no two writes have overlapped, one that starts finds the others idle.
LEMMA NoOverlap ==
  ASSUME NEW f \in RedirectScope, f.append \/ f.trunc, ~Overlaps(f)
  PROVE  /\ \A q \in Procs : f.writers[q] = Idle
         /\ f.text = f.expected /\ f.offset = Len(f.expected)
<1>1. ~f.raced /\ \A q \in Procs : f.writers[q] = Idle
  BY DEF Overlaps
<1>2. Kept(f)
  BY <1>1 DEF RedirectScope
<1> QED BY <1>1, <1>2, IdleWriter DEF Kept, Holds

\* The one process that is not idle is the one that writes.
LEMMA KeptBy ==
  ASSUME NEW f \in RedirectScope, f.append \/ f.trunc, ~f.raced, NEW p \in Procs, f.writers[p].step # "idle"
  PROVE  (\A q \in Procs : q # p => f.writers[q].step = "idle") /\ Holds(f, f.writers[p])
<1>1. Kept(f)
  BY DEF RedirectScope
<1>2. PICK r \in Procs : (\A q \in Procs : q # r => f.writers[q].step = "idle") /\ Holds(f, f.writers[r])
  BY <1>1 DEF Kept
<1>3. r = p
  BY <1>2
<1> QED BY <1>2, <1>3

\* A write in one piece.
LEMMA LandedScope ==
  ASSUME NEW f \in RedirectScope
  PROVE  Landed(f, "n") \in RedirectScope /\ Same(Landed(f, "n"), f)
<1> DEFINE end == f.offset + 1
           text == [Grown(f.text, end) EXCEPT ![end] = "n"]
           expected == Append(f.expected, "n")
           raced == Overlaps(f)
           g == [f EXCEPT !.text = text, !.offset = end, !.expected = expected, !.raced = raced]
<1>1. Landed(f, "n") = g
  BY RedirectFields DEF Landed, RedirectRecord
<1>2. end \in Nat /\ end > 0 /\ "n" \in Byte
  BY RedirectFields DEF Byte
<1>3. Grown(f.text, end) \in Seq(Byte) /\ end \in 1 .. Len(Grown(f.text, end))
  <2>1. Grown(f.text, end) \in Seq(Byte) /\ Len(Grown(f.text, end)) = Larger(end, Len(f.text))
    BY <1>2, RedirectFields, GrownData
  <2> HIDE DEF end
  <2> QED BY <1>2, <2>1, RedirectFields DEF Larger
<1>4. text \in Seq(Byte)
  <2> HIDE DEF end
  <2> QED BY <1>2, <1>3, ExceptSeq
<1>5. expected \in Seq(Byte) /\ Len(expected) = Len(f.expected) + 1
  BY <1>2, RedirectFields, AppendProperties
<1>6. raced \in BOOLEAN
  BY RedirectFields DEF Overlaps
<1>7. ASSUME f.append \/ f.trunc, ~raced
      PROVE  (\A q \in Procs : f.writers[q].step = "idle") /\ text = expected /\ end = Len(expected)
  <2>1. f.text = f.expected /\ f.offset = Len(f.expected) /\ \A q \in Procs : f.writers[q] = Idle
    BY <1>7, NoOverlap
  <2>2. Grown(f.text, end) = Append(f.expected, "z")
    <3>1. f.expected \in Seq(Byte) /\ end \in Nat /\ end = Len(f.expected) + 1
      BY <1>2, <2>1, RedirectFields
    <3> HIDE DEF end
    <3> QED BY <2>1, <3>1, GrownData
  <2>3. text = expected
    BY <2>1, <2>2, RedirectFields, ByteInPlace
  <2> QED BY <1>5, <2>1, <2>3, IdleWriter
<1> HIDE DEF text, expected, raced, end
<1>8. g \in RedirectRecord
  BY <1>2, <1>4, <1>5, <1>6, RedirectFields DEF RedirectRecord
<1>9. Same(g, f) /\ g.text = text /\ g.offset = end /\ g.expected = expected /\ g.raced = raced /\ g.writers = f.writers
  BY RedirectFields DEF RedirectRecord, Same
<1> HIDE DEF g
<1>10. (f.append \/ f.trunc) /\ ~g.raced => Kept(g)
  BY <1>7, <1>9, KeptIdle
<1> QED BY <1>1, <1>8, <1>9, <1>10, SameScope

\* A write to what others may write to begins.
LEMMA BegunScope ==
  ASSUME NEW f \in RedirectScope, NEW p \in Procs, NEW next \in Writer,
         next = IF f.offset + 1 > Len(f.text)
                THEN [step |-> "grow", end |-> f.offset + 1, text |-> Grown(f.text, f.offset + 1)]
                ELSE [step |-> "copy", end |-> f.offset + 1, text |-> <<>>]
  PROVE  LET g == [f EXCEPT !.writers = [@ EXCEPT ![p] = next], !.raced = Overlaps(f)]
         IN  g \in RedirectScope /\ Same(g, f)
<1> DEFINE writers == [f.writers EXCEPT ![p] = next]
           raced == Overlaps(f)
           g == [f EXCEPT !.writers = writers, !.raced = raced]
<1>1. writers \in [Procs -> Writer] /\ writers[p] = next /\ \A q \in Procs : q # p => writers[q] = f.writers[q]
  BY RedirectFields
<1>2. raced \in BOOLEAN
  BY RedirectFields DEF Overlaps
<1>3. ASSUME f.append \/ f.trunc, ~raced
      PROVE  /\ f.text = f.expected /\ f.offset = Len(f.expected) /\ \A q \in Procs : f.writers[q].step = "idle"
             /\ next.step = "grow" /\ next.end = Len(f.expected) + 1 /\ next.text = Append(f.expected, "z")
  <2>1. f.text = f.expected /\ f.offset = Len(f.expected) /\ \A q \in Procs : f.writers[q] = Idle
    BY <1>3, NoOverlap
  <2>2. next = [step |-> "grow", end |-> Len(f.expected) + 1, text |-> Grown(f.expected, Len(f.expected) + 1)]
    BY <2>1, RedirectFields
  <2>3. Grown(f.expected, Len(f.expected) + 1) = Append(f.expected, "z")
    <3>1. f.expected \in Seq(Byte) /\ Len(f.expected) + 1 \in Nat
      BY RedirectFields, LenProperties
    <3> QED BY <3>1, GrownData
  <2> QED BY <2>1, <2>2, <2>3, IdleWriter
<1> HIDE DEF writers, raced
<1>4. g \in RedirectRecord
  BY <1>1, <1>2, RedirectFields DEF RedirectRecord
<1>5. Same(g, f) /\ g.text = f.text /\ g.offset = f.offset /\ g.expected = f.expected /\ g.raced = raced
      /\ g.writers = writers
  BY RedirectFields DEF RedirectRecord, Same
<1> HIDE DEF g
<1>6. ASSUME f.append \/ f.trunc, ~raced PROVE Kept(g)
  <2>1. \A q \in Procs : q # p => g.writers[q].step = "idle"
    BY <1>1, <1>3, <1>5, <1>6
  <2>2. Holds(g, g.writers[p])
    BY <1>1, <1>3, <1>5, <1>6 DEF Holds
  <2> QED BY <2>1, <2>2 DEF Kept
<1>7. g \in RedirectScope
  BY <1>4, <1>5, <1>6, SameScope
<1> QED BY <1>5, <1>7 DEF g, writers, raced

\* A process takes the next step of its write: what it leaves of the data and
\* the offset is what that step leaves where nobody comes between.
LEMMA AdvancedScope ==
  ASSUME NEW f \in RedirectScope, NEW p \in Procs, f.writers[p].step # "idle",
         NEW text \in Seq(Byte), NEW offset \in Nat, NEW expected \in Seq(Byte), NEW w \in Writer,
         NEW g, g \in RedirectRecord, Same(g, f), g.raced = f.raced,
         g.text = text, g.offset = offset, g.expected = expected, g.writers = [f.writers EXCEPT ![p] = w],
         (f.append \/ f.trunc) /\ ~f.raced /\ Holds(f, f.writers[p]) => Holds(g, w)
  PROVE  g \in RedirectScope
<1>1. g.writers[p] = w /\ \A q \in Procs : q # p => g.writers[q] = f.writers[q]
  BY RedirectFields
<1>2. ASSUME f.append \/ f.trunc, ~f.raced PROVE Kept(g)
  <2>1. (\A q \in Procs : q # p => f.writers[q].step = "idle") /\ Holds(f, f.writers[p])
    BY <1>2, KeptBy
  <2> QED BY <1>1, <1>2, <2>1 DEF Kept
<1> QED BY <1>2, SameScope

\* The grown copy takes the place of the data, with or without what has been
\* written since.
LEMMA GrownScope ==
  ASSUME NEW f \in RedirectScope, NEW p \in Procs, f.writers[p].step = "grow", NEW inPlace \in BOOLEAN
  PROVE  LET copy == f.writers[p].text
             grown == [k \in DOMAIN copy |-> IF inPlace /\ k <= Len(f.text) THEN f.text[k] ELSE copy[k]]
             g == [f EXCEPT !.text = grown, !.writers = [@ EXCEPT ![p] = [f.writers[p] EXCEPT !.step = "copy", !.text = <<>>]]]
         IN  g \in RedirectScope /\ Same(g, f)
<1> DEFINE copy == f.writers[p].text
           grown == [k \in DOMAIN copy |-> IF inPlace /\ k <= Len(f.text) THEN f.text[k] ELSE copy[k]]
           w == [f.writers[p] EXCEPT !.step = "copy", !.text = <<>>]
           writers == [f.writers EXCEPT ![p] = w]
           g == [f EXCEPT !.text = grown, !.writers = writers]
<1>1. f.writers[p] \in Writer /\ copy \in Seq(Byte) /\ Len(copy) \in Nat /\ DOMAIN copy = 1 .. Len(copy)
  <2>1. f.writers[p] \in Writer
    BY RedirectFields
  <2>2. copy \in Seq(Byte)
    BY <2>1 DEF Writer
  <2> QED BY <2>1, <2>2, LenProperties
<1>2. (\A k \in 1 .. Len(copy) : copy[k] \in Byte) /\ \A k \in 1 .. Len(f.text) : f.text[k] \in Byte
  BY <1>1, RedirectFields, ElementOfSeq
<1> HIDE DEF copy
<1>3. grown \in [1 .. Len(copy) -> Byte] /\ DOMAIN grown = 1 .. Len(copy)
  BY <1>1, <1>2, RedirectFields
<1>4. grown \in Seq(Byte) /\ Len(grown) = Len(copy)
  <2> HIDE DEF grown
  <2>1. grown \in Seq(Byte)
    BY <1>1, <1>3, SeqDef
  <2> QED BY <1>1, <1>3, <2>1, LenProperties
<1>5. w \in Writer /\ w.step = "copy" /\ w.end = f.writers[p].end
  <2>1. <<>> \in Seq(Byte)
    OBVIOUS
  <2> QED BY <1>1, <2>1 DEF Writer
<1>6. writers \in [Procs -> Writer]
  <2> HIDE DEF w
  <2> QED BY <1>5, RedirectFields
<1>7. ASSUME f.text = f.expected, copy = Append(f.expected, "z") PROVE grown = copy
  <2>1. Len(copy) = Len(f.expected) + 1 /\ \A k \in 1 .. Len(f.expected) : copy[k] = f.expected[k]
    BY <1>7, RedirectFields, AppendProperties DEF Byte
  <2>2. \A k \in 1 .. Len(copy) : grown[k] = copy[k]
    BY <1>1, <1>7, <2>1, RedirectFields
  <2> HIDE DEF grown
  <2> QED BY <1>1, <1>4, <2>2, SeqEqual
<1> HIDE DEF grown
<1>8. g \in RedirectRecord
  BY <1>4, <1>6, RedirectFields DEF RedirectRecord
<1>9. Same(g, f) /\ g.text = grown /\ g.offset = f.offset /\ g.expected = f.expected /\ g.raced = f.raced
      /\ g.writers = writers
  BY RedirectFields DEF RedirectRecord, Same
<1> HIDE DEF g
<1>10. Holds(f, f.writers[p]) => Holds(g, w)
  BY <1>5, <1>7, <1>9 DEF Holds, copy
<1>11. g \in RedirectScope
  <2> HIDE DEF w
  <2> QED BY <1>4, <1>5, <1>8, <1>9, <1>10, RedirectFields, AdvancedScope DEF writers
<1> QED BY <1>9, <1>11 DEF g, writers, w, grown, copy

\* The byte is copied, if there is room for it.
LEMMA CopiedScope ==
  ASSUME NEW f \in RedirectScope, NEW p \in Procs, f.writers[p].step = "copy"
  PROVE  LET g == [f EXCEPT !.text = IF HasRoom(f, p) THEN [@ EXCEPT ![f.offset + 1] = "n"] ELSE @,
                            !.expected = Append(@, "n"),
                            !.writers = [@ EXCEPT ![p] = [f.writers[p] EXCEPT !.step = "advance"]]]
         IN  g \in RedirectScope /\ Same(g, f)
<1> DEFINE text == IF HasRoom(f, p) THEN [f.text EXCEPT ![f.offset + 1] = "n"] ELSE f.text
           expected == Append(f.expected, "n")
           w == [f.writers[p] EXCEPT !.step = "advance"]
           writers == [f.writers EXCEPT ![p] = w]
           g == [f EXCEPT !.text = text, !.expected = expected, !.writers = writers]
<1>1. f.writers[p] \in Writer /\ f.writers[p].end \in Nat
  <2>1. f.writers[p] \in Writer
    BY RedirectFields
  <2> QED BY <2>1 DEF Writer
<1>2. text \in Seq(Byte)
  <2>1. CASE HasRoom(f, p)
    <3>1. f.offset + 1 \in 1 .. Len(f.text) /\ "n" \in Byte
      BY <2>1, RedirectFields DEF HasRoom, Byte
    <3> QED BY <2>1, <3>1, RedirectFields, ExceptSeq
  <2>2. CASE ~HasRoom(f, p)
    BY <2>2, RedirectFields
  <2> QED BY <2>1, <2>2
<1>3. expected \in Seq(Byte) /\ Len(expected) = Len(f.expected) + 1
  BY RedirectFields, AppendProperties DEF Byte
<1>4. w \in Writer /\ w.step = "advance" /\ w.end = f.writers[p].end
  BY <1>1 DEF Writer
<1>5. writers \in [Procs -> Writer]
  <2> HIDE DEF w
  <2> QED BY <1>4, RedirectFields
<1>6. ASSUME Holds(f, f.writers[p]) PROVE text = expected /\ w.end = Len(expected)
  <2>1. f.text = Append(f.expected, "z") /\ f.offset = Len(f.expected) /\ f.writers[p].end = Len(f.expected) + 1
    BY <1>6 DEF Holds
  <2>2. Len(f.text) = Len(f.expected) + 1
    BY <2>1, RedirectFields, AppendProperties DEF Byte
  <2>3. HasRoom(f, p)
    BY <2>1, <2>2, RedirectFields DEF HasRoom
  <2>4. text = expected
    BY <2>1, <2>3, RedirectFields, ByteInPlace
  <2> QED BY <1>3, <1>4, <2>1, <2>4
<1> HIDE DEF text, expected
<1>7. g \in RedirectRecord
  BY <1>2, <1>3, <1>5, RedirectFields DEF RedirectRecord
<1>8. Same(g, f) /\ g.text = text /\ g.offset = f.offset /\ g.expected = expected /\ g.raced = f.raced
      /\ g.writers = writers
  BY RedirectFields DEF RedirectRecord, Same
<1> HIDE DEF g
<1>9. Holds(f, f.writers[p]) => Holds(g, w)
  BY <1>4, <1>6, <1>8 DEF Holds
<1>10. g \in RedirectScope
  <2> HIDE DEF w
  <2> QED BY <1>2, <1>3, <1>4, <1>7, <1>8, <1>9, RedirectFields, AdvancedScope DEF writers
<1> QED BY <1>8, <1>10 DEF g, writers, w, text, expected

\* A write ends, at its end or where it panics.
LEMMA EndedScope ==
  ASSUME NEW f \in RedirectScope, NEW p \in Procs, NEW offset \in Nat,
         \/ f.writers[p].step = "copy" /\ MayBeOutOfRange(f, p) /\ offset = f.offset
         \/ f.writers[p].step = "advance" /\ offset = f.writers[p].end
  PROVE  LET g == [f EXCEPT !.offset = offset, !.writers = [@ EXCEPT ![p] = Idle]]
         IN  g \in RedirectScope /\ Same(g, f)
<1> DEFINE writers == [f.writers EXCEPT ![p] = Idle]
           g == [f EXCEPT !.offset = offset, !.writers = writers]
<1>1. writers \in [Procs -> Writer]
  BY RedirectFields, IdleWriter
<1>2. g \in RedirectRecord
  BY <1>1, RedirectFields DEF RedirectRecord
<1>3. Same(g, f) /\ g.text = f.text /\ g.offset = offset /\ g.expected = f.expected /\ g.raced = f.raced
      /\ g.writers = writers
  BY RedirectFields DEF RedirectRecord, Same
<1> HIDE DEF g
<1>4. Holds(f, f.writers[p]) => Holds(g, Idle)
  <2> SUFFICES ASSUME Holds(f, f.writers[p]) PROVE Holds(g, Idle)
    OBVIOUS
  <2>1. CASE f.writers[p].step = "copy" /\ MayBeOutOfRange(f, p)
    <3>1. f.text = Append(f.expected, "z") /\ f.offset = Len(f.expected) /\ f.writers[p].end = Len(f.expected) + 1
      BY <2>1 DEF Holds
    <3>2. Len(f.text) = Len(f.expected) + 1
      BY <3>1, RedirectFields, AppendProperties DEF Byte
    <3> QED BY <2>1, <3>1, <3>2, RedirectFields DEF MayBeOutOfRange, OutOfRange
  <2>2. CASE f.writers[p].step = "advance" /\ offset = f.writers[p].end
    BY <1>3, <2>2, IdleWriter DEF Holds
  <2> QED BY <2>1, <2>2
<1>5. g \in RedirectScope
  BY <1>2, <1>3, <1>4, RedirectFields, IdleWriter, AdvancedScope DEF writers
<1> QED BY <1>3, <1>5 DEF g, writers

\* A step of a write to redirection i of process q.
LEMMA RewriteStep ==
  ASSUME IInv, NEW q \in Procs, NEW i \in DOMAIN scopes[q], scopes[q][i].kind = "redirect",
         NEW g \in RedirectScope, Same(g, scopes[q][i]),
         scopes' = [scopes EXCEPT ![q] = [scopes[q] EXCEPT ![i] = g]],
         UNCHANGED <<files, inherited, starting, program>>
  PROVE  IInv'
<1> DEFINE s == scopes[q]
           t == [s EXCEPT ![i] = g]
<1>1. /\ s \in Seq(Scope) /\ Len(s) \in Nat /\ DOMAIN s = 1 .. Len(s) /\ i \in 1 .. Len(s)
      /\ s[i] \in Scope /\ Stacked(s) /\ s # <<>>
  BY ScopesOf, EmptySeq DEF IInv
<1>2. g \in Scope /\ g.kind = "redirect" /\ g.name = s[i].name /\ g.stale = s[i].stale /\ g.guarded = s[i].guarded
  BY DEF Scope, Same
<1>4. /\ t \in Seq(Scope) /\ Len(t) = Len(s) /\ t[i] = g
      /\ \A k \in 1 .. Len(s) : k # i => t[k] = s[k]
  <2> HIDE DEF s
  <2> QED BY <1>1, <1>2, ExceptSeq
<1>5. scopes' = [scopes EXCEPT ![q] = t]
  OBVIOUS
<1> HIDE DEF t
<1>6. \A k \in 1 .. Len(s) : Guards(files, s[k])
  BY <1>1 DEF IInv, Protected
<1>7. \A k \in 1 .. Len(t) : Guards(files, t[k])
  <2>1. Guards(files, g)
    BY <1>1, <1>2, <1>6 DEF Guards
  <2> QED BY <1>4, <1>6, <2>1
<1>8. \A k \in 1 .. Len(s) : t[k].kind = s[k].kind /\ (s[k].kind # "redirect" => t[k] = s[k])
  BY <1>2, <1>4
<1>9. Stacked(t)
  <2>1. \A r, k \in 1 .. Len(s) : Belongs(s, r, k) /\ s[k].kind = "subshell" /\ t[k].clean /\ ~t[k].mutates
                                    => t[r].mask = t[k].entry
    <3> SUFFICES ASSUME NEW r \in 1 .. Len(s), NEW k \in 1 .. Len(s), Belongs(s, r, k),
                        s[k].kind = "subshell", t[k].clean, ~t[k].mutates
                 PROVE  t[r].mask = t[k].entry
      OBVIOUS
    <3>1. t[k] = s[k] /\ t[r] = s[r]
      BY <1>8 DEF Belongs
    <3> QED BY <1>1, <3>1, MaskHeld
  <2>2. \A k \in 1 .. Len(s) : s[k].kind = "shell" => t[k].saved = s[k].saved
    BY <1>8
  <2>3. \A k \in 1 .. Len(s) : s[k].kind = "subshell" =>
          t[k].mutates = s[k].mutates /\ t[k].entry = s[k].entry /\ (t[k].clean => s[k].clean)
    BY <1>8
  <2> HIDE DEF s
  <2> QED BY <1>1, <1>4, <1>8, <2>1, <2>2, <2>3, StackedSame
<1>10. Len(t) >= Len(s)
  BY <1>1, <1>4
<1> QED BY <1>1, <1>4, <1>5, <1>7, <1>8, <1>9, <1>10, GrowStep

\* A command writes to a redirection that no one else writes to.
LEMMA WriteStep ==
  ASSUME IInv, NEW p \in Procs, Write(p)
  PROVE  IInv'
<1> DEFINE i == Last(Output(p))
           g == Landed(scopes[p][i], "n")
<1>1. Output(p) # {} /\ scopes' = [scopes EXCEPT ![p] = [scopes[p] EXCEPT ![i] = g]]
      /\ UNCHANGED <<files, inherited, starting, program>>
  BY DEF Write
<1>2. /\ scopes[p] \in Seq(Scope) /\ Len(scopes[p]) \in Nat
      /\ DOMAIN scopes[p] = 1 .. Len(scopes[p])
  BY ScopesOf DEF IInv
<1>3. Output(p) \subseteq 1 .. Len(scopes[p]) /\ \A k \in Output(p) : scopes[p][k].kind = "redirect"
  BY <1>2 DEF Output, Kind
<1>4. i \in Output(p)
  <2>1. \E x \in Output(p) : \A y \in Output(p) : y <= x
    BY <1>1, <1>2, <1>3, MaximumExists
  <2> QED BY <2>1 DEF Last
<1> HIDE DEF i
<1>5. scopes[p][i] \in RedirectScope
  BY <1>2, <1>3, <1>4, ElementOfSeq, ScopeFacts
<1>6. g \in RedirectScope /\ Same(g, scopes[p][i])
  BY <1>5, LandedScope
<1> HIDE DEF g
<1> QED BY <1>1, <1>2, <1>3, <1>4, <1>6, RewriteStep

\* A redirection of main is one, and Becomes replaces it.
LEMMA SharedScope ==
  ASSUME IInv, NEW i \in DOMAIN scopes["main"], scopes["main"][i].kind = "redirect"
  PROVE  /\ scopes["main"][i] \in RedirectScope
         /\ \A g \in RedirectScope : Same(g, scopes["main"][i]) /\ Becomes(i, g) => IInv'
<1>1. "main" \in Procs
  BY DEF Procs
<1>2. scopes["main"][i] \in RedirectScope
  BY <1>1, ScopesOf, ScopeFacts DEF IInv
<1>3. ASSUME NEW g \in RedirectScope, Same(g, scopes["main"][i]), Becomes(i, g) PROVE IInv'
  <2>1. /\ scopes' = [scopes EXCEPT !["main"] = [scopes["main"] EXCEPT ![i] = g]]
        /\ UNCHANGED <<files, inherited, starting, program>>
    BY <1>3 DEF Becomes
  <2> QED BY <1>1, <1>3, <2>1, RewriteStep
<1> QED BY <1>2, <1>3

\* A process that is writing has a redirection of main to write to.
LEMMA DoingFacts ==
  ASSUME NEW p \in Procs, NEW i, NEW step, Doing(p, i, step)
  PROVE  i \in DOMAIN scopes["main"] /\ scopes["main"][i].kind = "redirect" /\ scopes["main"][i].writers[p].step = step
BY DEF Doing, Kind

\* A write to a redirection that the script and its job share begins.
LEMMA BeginWriteStep ==
  ASSUME IInv, NEW p \in Procs, BeginWrite(p)
  PROVE  IInv'
<1> DEFINE f == scopes["main"][inherited]
           end == f.offset + 1
           next == IF end > Len(f.text) THEN [step |-> "grow", end |-> end, text |-> Grown(f.text, end)]
                   ELSE [step |-> "copy", end |-> end, text |-> <<>>]
           g == [f EXCEPT !.writers = [@ EXCEPT ![p] = next], !.raced = Overlaps(f)]
<1>1. inherited # 0 /\ Becomes(inherited, g)
  BY DEF BeginWrite, SharesOutput
<1>2. inherited \in DOMAIN scopes["main"] /\ f.kind = "redirect"
  BY <1>1 DEF IInv, Typed
<1>3. f \in RedirectScope
  BY <1>2, SharedScope
<1> HIDE DEF f
<1>4. next \in Writer
  <2>1. <<>> \in Seq(Byte) /\ end \in Nat
    BY <1>3, RedirectFields
  <2>2. Grown(f.text, end) \in Seq(Byte)
    <3> HIDE DEF end
    <3> QED BY <1>3, <2>1, RedirectFields, GrownData
  <2> HIDE DEF end
  <2> QED BY <2>1, <2>2 DEF Writer
<1>5. g \in RedirectScope /\ Same(g, f)
  <2>1. next = IF f.offset + 1 > Len(f.text)
               THEN [step |-> "grow", end |-> f.offset + 1, text |-> Grown(f.text, f.offset + 1)]
               ELSE [step |-> "copy", end |-> f.offset + 1, text |-> <<>>]
    OBVIOUS
  <2> HIDE DEF next
  <2> QED BY <1>3, <1>4, <2>1, BegunScope
<1> HIDE DEF g
<1> QED BY <1>1, <1>2, <1>5, SharedScope DEF f

\* The steps of such a write, and its failure.
LEMMA SharedWriteStep ==
  ASSUME IInv, NEW p \in Procs, NEW i, GrowData(p, i) \/ CopyByte(p, i) \/ WriteFails(p, i) \/ MoveOffset(p, i)
  PROVE  IInv'
<1> DEFINE f == scopes["main"][i]
<1>1. CASE GrowData(p, i)
  <2>1. f.writers[p].step = "grow" /\ i \in DOMAIN scopes["main"] /\ f.kind = "redirect"
    BY <1>1, DoingFacts DEF GrowData
  <2>2. f \in RedirectScope
    BY <2>1, SharedScope
  <2>3. PICK inPlace \in BOOLEAN :
          LET copy == f.writers[p].text
              grown == [k \in DOMAIN copy |-> IF inPlace /\ k <= Len(f.text) THEN f.text[k] ELSE copy[k]]
          IN  Becomes(i, [f EXCEPT !.text = grown,
                                   !.writers = [@ EXCEPT ![p] = [f.writers[p] EXCEPT !.step = "copy", !.text = <<>>]]])
    BY <1>1 DEF GrowData
  <2> DEFINE copy == f.writers[p].text
             grown == [k \in DOMAIN copy |-> IF inPlace /\ k <= Len(f.text) THEN f.text[k] ELSE copy[k]]
             g == [f EXCEPT !.text = grown, !.writers = [@ EXCEPT ![p] = [f.writers[p] EXCEPT !.step = "copy", !.text = <<>>]]]
  <2>4. Becomes(i, g)
    BY <2>3
  <2>5. g \in RedirectScope /\ Same(g, f)
    <3> HIDE DEF f
    <3> QED BY <2>1, <2>2, GrownScope
  <2> HIDE DEF g
  <2> QED BY <2>1, <2>4, <2>5, SharedScope
<1>2. CASE CopyByte(p, i)
  <2>1. f.writers[p].step = "copy" /\ i \in DOMAIN scopes["main"] /\ f.kind = "redirect"
    BY <1>2, DoingFacts DEF CopyByte
  <2>2. f \in RedirectScope
    BY <2>1, SharedScope
  <2> DEFINE g == [f EXCEPT !.text = IF HasRoom(f, p) THEN [@ EXCEPT ![f.offset + 1] = "n"] ELSE @,
                            !.expected = Append(@, "n"),
                            !.writers = [@ EXCEPT ![p] = [f.writers[p] EXCEPT !.step = "advance"]]]
  <2>3. Becomes(i, g)
    BY <1>2 DEF CopyByte
  <2>4. g \in RedirectScope /\ Same(g, f)
    <3> HIDE DEF f
    <3> QED BY <2>1, <2>2, CopiedScope
  <2> HIDE DEF g
  <2> QED BY <2>1, <2>3, <2>4, SharedScope
<1>3. CASE WriteFails(p, i)
  <2>1. f.writers[p].step = "copy" /\ i \in DOMAIN scopes["main"] /\ f.kind = "redirect"
        /\ MayBeOutOfRange(f, p) /\ Becomes(i, [f EXCEPT !.writers = [@ EXCEPT ![p] = Idle]])
    BY <1>3, DoingFacts DEF WriteFails
  <2>2. f \in RedirectScope
    BY <2>1, SharedScope
  <2> DEFINE g == [f EXCEPT !.offset = f.offset, !.writers = [@ EXCEPT ![p] = Idle]]
  <2>3. g = [f EXCEPT !.writers = [@ EXCEPT ![p] = Idle]]
    BY <2>2, RedirectFields DEF RedirectRecord
  <2>4. g \in RedirectScope /\ Same(g, f)
    <3> HIDE DEF f
    <3> QED BY <2>1, <2>2, RedirectFields, EndedScope
  <2> HIDE DEF g
  <2> QED BY <2>1, <2>3, <2>4, SharedScope
<1>4. CASE MoveOffset(p, i)
  <2>1. f.writers[p].step = "advance" /\ i \in DOMAIN scopes["main"] /\ f.kind = "redirect"
    BY <1>4, DoingFacts DEF MoveOffset
  <2>2. f \in RedirectScope
    BY <2>1, SharedScope
  <2> DEFINE end == f.writers[p].end
             g == [f EXCEPT !.offset = end, !.writers = [@ EXCEPT ![p] = Idle]]
  <2>3. Becomes(i, g)
    BY <1>4 DEF MoveOffset
  <2>4. g \in RedirectScope /\ Same(g, f)
    <3>1. f.writers[p] \in Writer
      BY <2>2, RedirectFields
    <3>2. end \in Nat
      BY <3>1 DEF Writer
    <3> HIDE DEF f
    <3> QED BY <2>1, <2>2, <3>2, EndedScope
  <2> HIDE DEF g
  <2> QED BY <2>1, <2>3, <2>4, SharedScope
<1> QED BY <1>1, <1>2, <1>3, <1>4

\* The invariant of a state, from its parts.
LEMMA Assemble ==
  ASSUME NEW all \in [Procs -> Seq(Scope)], scopes' = all, files' \in [Files -> FileState], program' \in Programs,
         \A q \in Procs : Stacked(all[q]),
         \A q \in Procs : all[q] # <<>> => all[q][1].kind = "shell",
         all["main"] # <<>>,
         \A q \in Procs : \A i \in 1 .. Len(all[q]) : Guards(files', all[q][i]),
         inherited' \in Nat,
         inherited' # 0 => inherited' \in DOMAIN all["main"] /\ all["main"][inherited'].kind = "redirect",
         starting' \in [waiting : BOOLEAN, shell : Nat, mask : SUBSET Bits],
         starting'.shell # 0 => /\ starting'.shell \in DOMAIN all["main"]
                                /\ all["main"][starting'.shell].kind = "shell"
  PROVE  IInv'
<1>1. Typed'
  BY DEF Typed
<1>2. Protected'
  <2>1. ASSUME NEW q \in Procs, NEW i \in DOMAIN scopes'[q] PROVE Guards(files', scopes'[q][i])
    <3>1. all[q] \in Seq(Scope) /\ i \in DOMAIN all[q]
      BY <2>1
    <3>2. i \in 1 .. Len(all[q])
      BY <3>1, LenProperties
    <3> QED BY <3>2
  <2> QED BY <2>1 DEF Protected, Guards
<1>3. \A q \in Procs : Stacked(scopes'[q])
  OBVIOUS
<1> QED BY <1>1, <1>2, <1>3 DEF IInv, Stacked, Belongs, Returns, Above, Bracketing

\* Marking a copy as stale changes nothing else of it.
LEMMA MarkedScope ==
  ASSUME NEW f \in RedirectScope
  PROVE  LET g == [f EXCEPT !.stale = TRUE]
         IN  g \in RedirectScope /\ g.kind = "redirect" /\ g.stale
<1> DEFINE g == [f EXCEPT !.stale = TRUE]
<1>1. g \in RedirectRecord
  BY RedirectFields DEF RedirectRecord
<1>2. /\ g.kind = "redirect" /\ g.stale /\ g.text = f.text /\ g.offset = f.offset /\ g.expected = f.expected
      /\ g.append = f.append /\ g.trunc = f.trunc /\ g.mode = f.mode /\ g.was = f.was
      /\ g.writers = f.writers /\ g.raced = f.raced
  BY RedirectFields DEF RedirectRecord
<1> HIDE DEF g
<1>3. g \in RedirectScope
  BY <1>1, <1>2 DEF RedirectScope, Kept, Holds
<1> QED BY <1>2, <1>3 DEF g

\* Marking copies as stale moves no scope and touches no shell or subshell.
LEMMA ChangedFacts ==
  ASSUME NEW all \in [Procs -> Seq(Scope)], NEW name \in Files
  PROVE  /\ Changed(name, all) \in [Procs -> Seq(Scope)]
         /\ \A q \in Procs :
              LET s == all[q]
                  t == Changed(name, all)[q]
              IN  /\ Len(t) = Len(s) /\ DOMAIN t = DOMAIN s
                  /\ \A i \in 1 .. Len(s) :
                       /\ t[i].kind = s[i].kind
                       /\ s[i].kind # "redirect" \/ s[i].name # name => t[i] = s[i]
                       /\ s[i].kind = "redirect" /\ s[i].name = name => t[i].stale
                  /\ Stacked(s) => Stacked(t)
<1>1. ASSUME NEW q \in Procs
      PROVE  LET s == all[q]
                 t == Changed(name, all)[q]
             IN  /\ t \in Seq(Scope) /\ Len(t) = Len(s) /\ DOMAIN t = DOMAIN s
                 /\ \A i \in 1 .. Len(s) :
                      /\ t[i].kind = s[i].kind
                      /\ s[i].kind # "redirect" \/ s[i].name # name => t[i] = s[i]
                      /\ s[i].kind = "redirect" /\ s[i].name = name => t[i].stale
                 /\ Stacked(s) => Stacked(t)
  <2> DEFINE s == all[q]
             t == [i \in DOMAIN s |->
                     IF s[i].kind = "redirect" /\ s[i].name = name THEN [s[i] EXCEPT !.stale = TRUE] ELSE s[i]]
  <2>1. Changed(name, all)[q] = t
    BY DEF Changed
  <2>2. s \in Seq(Scope) /\ Len(s) \in Nat /\ DOMAIN s = 1 .. Len(s) /\ \A i \in 1 .. Len(s) : s[i] \in Scope
    BY LenProperties, ElementOfSeq
  <2> HIDE DEF s
  <2>3. ASSUME NEW i \in 1 .. Len(s)
        PROVE  /\ t[i] \in Scope /\ t[i].kind = s[i].kind
               /\ s[i].kind # "redirect" \/ s[i].name # name => t[i] = s[i]
               /\ s[i].kind = "redirect" /\ s[i].name = name => t[i].stale
    <3>1. CASE s[i].kind = "redirect" /\ s[i].name = name
      <4>1. s[i] \in RedirectScope
        BY <2>2, <3>1, ScopeFacts
      <4>2. t[i] = [s[i] EXCEPT !.stale = TRUE]
        BY <2>2, <3>1
      <4>3. t[i] \in RedirectScope /\ t[i].kind = "redirect" /\ t[i].stale
        <5> HIDE DEF t
        <5> QED BY <4>1, <4>2, MarkedScope
      <4> QED BY <3>1, <4>3 DEF Scope
    <3>2. CASE ~(s[i].kind = "redirect" /\ s[i].name = name)
      <4>1. t[i] = s[i]
        BY <2>2, <3>2
      <4> QED BY <2>2, <3>2, <4>1
    <3> QED BY <3>1, <3>2
  <2>4. t \in Seq(Scope) /\ Len(t) = Len(s) /\ DOMAIN t = DOMAIN s
    <3>1. DOMAIN t = DOMAIN s /\ t = [i \in DOMAIN s |-> t[i]]
      OBVIOUS
    <3> HIDE DEF t
    <3> QED BY <2>2, <2>3, <3>1, MappedScopes
  <2> HIDE DEF t
  <2>5. ASSUME Stacked(s) PROVE Stacked(t)
    <3>1. \A k \in 1 .. Len(s) : t[k].kind = s[k].kind /\ (s[k].kind # "redirect" => t[k] = s[k])
      BY <2>3
    <3>2. \A r, k \in 1 .. Len(s) : Belongs(s, r, k) /\ s[k].kind = "subshell" /\ t[k].clean /\ ~t[k].mutates
                                      => t[r].mask = t[k].entry
      <4> SUFFICES ASSUME NEW r \in 1 .. Len(s), NEW k \in 1 .. Len(s), Belongs(s, r, k),
                          s[k].kind = "subshell", t[k].clean, ~t[k].mutates
                   PROVE  t[r].mask = t[k].entry
        OBVIOUS
      <4>1. t[k] = s[k] /\ t[r] = s[r]
        BY <3>1 DEF Belongs
      <4> QED BY <2>2, <2>5, <4>1, MaskHeld
    <3>3. \A k \in 1 .. Len(s) : s[k].kind = "shell" => t[k].saved = s[k].saved
      BY <3>1
    <3>4. \A k \in 1 .. Len(s) : s[k].kind = "subshell" =>
            t[k].mutates = s[k].mutates /\ t[k].entry = s[k].entry /\ (t[k].clean => s[k].clean)
      BY <3>1
    <3> QED BY <2>2, <2>4, <2>5, <3>1, <3>2, <3>3, <3>4, StackedSame
  <2> QED BY <2>1, <2>3, <2>4, <2>5 DEF s
<1>2. Changed(name, all) \in [Procs -> Seq(Scope)]
  <2>1. DOMAIN Changed(name, all) = Procs /\ Changed(name, all) = [q \in Procs |-> Changed(name, all)[q]]
    BY DEF Changed
  <2> QED BY <1>1, <2>1
<1> QED BY <1>1, <1>2

\* A file changes, and the copies of it in the scopes are marked.
LEMMA ChangeStep ==
  ASSUME IInv, NEW all \in [Procs -> Seq(Scope)], NEW name \in Files, NEW file \in FileState,
         files' = [files EXCEPT ![name] = file], scopes' = Changed(name, all), UNCHANGED <<starting, program>>,
         \A q \in Procs : Stacked(all[q]),
         \A q \in Procs : all[q] # <<>> => all[q][1].kind = "shell",
         all["main"] # <<>>,
         \A q \in Procs : \A i \in 1 .. Len(all[q]) : Guards(files, all[q][i]),
         inherited' \in Nat,
         inherited' # 0 => inherited' \in DOMAIN all["main"] /\ all["main"][inherited'].kind = "redirect",
         starting.shell # 0 => /\ starting.shell \in DOMAIN all["main"]
                               /\ all["main"][starting.shell].kind = "shell"
  PROVE  IInv'
<1> DEFINE c == Changed(name, all)
<1>1. /\ c \in [Procs -> Seq(Scope)]
      /\ \A q \in Procs :
           /\ Len(c[q]) = Len(all[q]) /\ DOMAIN c[q] = DOMAIN all[q]
           /\ \A i \in 1 .. Len(all[q]) :
                /\ c[q][i].kind = all[q][i].kind
                /\ all[q][i].kind # "redirect" \/ all[q][i].name # name => c[q][i] = all[q][i]
                /\ all[q][i].kind = "redirect" /\ all[q][i].name = name => c[q][i].stale
           /\ Stacked(c[q])
  BY ChangedFacts
<1>2. scopes' = c
  OBVIOUS
<1> HIDE DEF c
<1>3. "main" \in Procs
  BY DEF Procs
<1>4. \A q \in Procs : all[q] \in Seq(Scope) /\ Len(all[q]) \in Nat /\ DOMAIN all[q] = 1 .. Len(all[q])
  BY LenProperties
<1>5. \A q \in Procs : c[q] # <<>> => c[q][1].kind = "shell"
  <2> SUFFICES ASSUME NEW q \in Procs, c[q] # <<>> PROVE c[q][1].kind = "shell"
    OBVIOUS
  <2>1. Len(c[q]) > 0
    BY <1>1, EmptySeq, LenProperties
  <2>2. all[q] # <<>> /\ 1 \in 1 .. Len(all[q])
    BY <1>1, <1>4, <2>1, EmptySeq
  <2> QED BY <1>1, <2>2
<1>6. c["main"] # <<>>
  BY <1>1, <1>3, <1>4, EmptySeq
<1>7. ASSUME NEW q \in Procs, NEW i \in 1 .. Len(c[q])
      PROVE  Guards(files', c[q][i])
  <2>1. i \in 1 .. Len(all[q]) /\ Guards(files, all[q][i])
    BY <1>1, <1>7
  <2>2. CASE all[q][i].kind = "redirect" /\ all[q][i].name = name
    <3>1. c[q][i].stale
      BY <1>1, <2>1, <2>2
    <3> QED BY <3>1 DEF Guards
  <2>3. CASE all[q][i].kind # "redirect"
    <3>1. c[q][i].kind # "redirect"
      BY <1>1, <2>1, <2>3
    <3> QED BY <3>1 DEF Guards
  <2>4. CASE all[q][i].kind = "redirect" /\ all[q][i].name # name
    <3>1. c[q][i] = all[q][i]
      BY <1>1, <2>1, <2>4
    <3>2. all[q][i].name \in Files
      <4>1. all[q][i] \in Scope
        BY <1>4, <2>1, ElementOfSeq
      <4>2. all[q][i] \in RedirectScope
        BY <2>4, <4>1, ScopeFacts
      <4> QED BY <4>2 DEF RedirectScope, RedirectRecord
    <3>3. files'[all[q][i].name] = files[all[q][i].name]
      BY <2>4, <3>2 DEF IInv, Typed
    <3> QED BY <2>1, <3>1, <3>3 DEF Guards
  <2> QED BY <2>2, <2>3, <2>4
<1>8. files' \in [Files -> FileState] /\ program' \in Programs
      /\ starting' \in [waiting : BOOLEAN, shell : Nat, mask : SUBSET Bits]
  BY DEF IInv, Typed
<1>9. /\ inherited' # 0 => inherited' \in DOMAIN c["main"] /\ c["main"][inherited'].kind = "redirect"
      /\ starting'.shell # 0 => /\ starting'.shell \in DOMAIN c["main"]
                                /\ c["main"][starting'.shell].kind = "shell"
  BY <1>1, <1>3, <1>4
<1> QED BY <1>1, <1>2, <1>5, <1>6, <1>7, <1>8, <1>9, Assemble

\* What Assemble asks of the scopes as they are.
LEMMA Parts ==
  ASSUME IInv
  PROVE  /\ scopes \in [Procs -> Seq(Scope)] /\ program \in Programs /\ "main" \in Procs /\ "job" \in Procs
         /\ files \in [Files -> FileState] /\ scopes["main"] # <<>>
         /\ \A q \in Procs : Stacked(scopes[q])
         /\ \A q \in Procs : scopes[q] # <<>> => scopes[q][1].kind = "shell"
         /\ \A q \in Procs : \A i \in 1 .. Len(scopes[q]) : Guards(files, scopes[q][i])
         /\ inherited \in Nat
         /\ inherited # 0 => inherited \in DOMAIN scopes["main"] /\ scopes["main"][inherited].kind = "redirect"
         /\ starting \in [waiting : BOOLEAN, shell : Nat, mask : SUBSET Bits]
         /\ starting.shell # 0 => starting.shell \in DOMAIN scopes["main"]
                                  /\ scopes["main"][starting.shell].kind = "shell"
<1>1. \A q \in Procs : DOMAIN scopes[q] = 1 .. Len(scopes[q])
  BY ScopesOf DEF IInv
<1>2. \A q \in Procs : \A i \in 1 .. Len(scopes[q]) : Guards(files, scopes[q][i])
  BY <1>1 DEF IInv, Protected
<1> QED BY <1>2 DEF IInv, Typed, Procs

\* chmod keeps the invariant.
LEMMA ChmodStep ==
  ASSUME IInv, NEW p \in Procs, NEW name \in Files, NEW m \in Masks, Chmod(p, name, Bits \ m)
  PROVE  IInv'
<1> DEFINE file == [files[name] EXCEPT !.mode = Bits \ m]
<1>1. file \in FileState
  BY Parts DEF FileState
<1>2. /\ files' = [files EXCEPT ![name] = file] /\ scopes' = Changed(name, scopes)
      /\ UNCHANGED <<inherited, starting, program>>
  BY DEF Chmod
<1> HIDE DEF file
<1> QED BY <1>1, <1>2, Parts, ChangeStep

\* rm keeps the invariant.
LEMMA RemoveStep ==
  ASSUME IInv, NEW p \in Procs, NEW name \in Files, Remove(p, name)
  PROVE  IInv'
<1>1. Absent \in FileState
  BY DEF Absent, FileState
<1>2. /\ files' = [files EXCEPT ![name] = Absent] /\ scopes' = Changed(name, scopes)
      /\ UNCHANGED <<inherited, starting, program>>
  BY DEF Remove
<1> QED BY <1>1, <1>2, Parts, ChangeStep

\* A redirection writes its file back and keeps the invariant.
LEMMA CloseStep ==
  ASSUME IInv, NEW p \in Procs, Close(p)
  PROVE  IInv'
<1> DEFINE s == scopes[p]
           f == Top(p)
           t == SubSeq(s, 1, Len(s) - 1)
           rest == [scopes EXCEPT ![p] = t]
<1>1. /\ s # <<>> /\ f.kind = "redirect"
      /\ files' = IF f.write THEN [files EXCEPT ![f.name] = Stored(f)] ELSE files
      /\ scopes' = IF f.write THEN Changed(f.name, rest) ELSE rest
      /\ inherited' = IF p = "main" /\ inherited = Len(s) THEN 0 ELSE inherited
      /\ UNCHANGED <<starting, program>>
  BY DEF Close, InheritedAfter
<1>2. /\ Len(s) > 1 /\ Len(s) \in Nat /\ f = s[Len(s)] /\ f \in Scope
      /\ t \in Seq(Scope) /\ Len(t) = Len(s) - 1 /\ DOMAIN t = 1 .. Len(s) - 1 /\ DOMAIN s = 1 .. Len(s)
      /\ \A i \in 1 .. Len(s) - 1 : t[i] = s[i] /\ Guards(files, s[i])
  BY <1>1, TopScope
<1>3. f \in RedirectScope
  BY <1>1, <1>2, ScopeFacts
<1>4. Stacked(t)
  <2>1. ~Bracketing(s[Len(s)])
    BY <1>1, <1>2 DEF Bracketing
  <2>2. s \in Seq(Scope) /\ Stacked(s)
    BY Parts
  <2> HIDE DEF s
  <2> QED BY <1>1, <2>1, <2>2, StackedFront
<1> HIDE DEF t, s
<1>5. /\ rest \in [Procs -> Seq(Scope)] /\ rest[p] = t /\ \A q \in Procs : q # p => rest[q] = scopes[q]
  BY <1>2, Parts
<1>6. s[1].kind = "shell" /\ t # <<>> /\ t[1].kind = "shell"
  <2>1. s[1].kind = "shell"
    BY <1>1, Parts DEF s
  <2> QED BY <1>2, <2>1, EmptySeq
<1>7. /\ \A q \in Procs : Stacked(rest[q])
      /\ \A q \in Procs : rest[q] # <<>> => rest[q][1].kind = "shell"
      /\ rest["main"] # <<>>
  BY <1>4, <1>5, <1>6, Parts
<1>8. \A q \in Procs : \A i \in 1 .. Len(rest[q]) : Guards(files, rest[q][i])
  <2>1. \A i \in 1 .. Len(t) : Guards(files, t[i])
    BY <1>2
  <2> QED BY <1>5, <2>1, Parts
<1>9. \A i \in DOMAIN scopes["main"] : (p = "main" /\ i = Len(s)) \/
        (i \in DOMAIN rest["main"] /\ rest["main"][i].kind = scopes["main"][i].kind)
  <2>1. CASE p = "main"
    <3>1. rest["main"] = t /\ scopes["main"] = s
      BY <1>5, <2>1 DEF s
    <3> QED BY <1>2, <2>1, <3>1
  <2>2. CASE p # "main"
    BY <1>5, <2>2, Parts
  <2> QED BY <2>1, <2>2
<1>10. /\ inherited' \in Nat
       /\ inherited' # 0 => inherited' \in DOMAIN rest["main"] /\ rest["main"][inherited'].kind = "redirect"
  BY <1>1, <1>9, Parts
<1>11. starting.shell # 0 => starting.shell \in DOMAIN rest["main"] /\ rest["main"][starting.shell].kind = "shell"
  <2>1. p = "main" => scopes["main"][Len(s)].kind = "redirect"
    BY <1>1, <1>2 DEF s
  <2> QED BY <1>9, <2>1, Parts
<1> HIDE DEF rest
<1>12. CASE f.write
  <2>1. Stored(f) \in FileState /\ f.name \in Files
    BY <1>3 DEF RedirectScope, RedirectRecord, Stored, FileState
  <2>2. files' = [files EXCEPT ![f.name] = Stored(f)] /\ scopes' = Changed(f.name, rest)
        /\ UNCHANGED <<starting, program>>
    BY <1>1, <1>12
  <2> QED BY <1>5, <1>7, <1>8, <1>10, <1>11, <2>1, <2>2, ChangeStep
<1>13. CASE ~f.write
  <2>1. files' = files /\ scopes' = rest /\ starting' = starting /\ program' = program
    BY <1>1, <1>13
  <2> QED BY <1>5, <1>7, <1>8, <1>10, <1>11, <2>1, Parts, Assemble
<1> QED BY <1>12, <1>13

-----------------------------------------------------------------------------
(* The job *)

\* A job is registered, with what it inherits.
LEMMA StartJobStep ==
  ASSUME IInv, StartJob
  PROVE  IInv'
<1>1. /\ starting' = [waiting |-> TRUE, shell |-> Running("main"), mask |-> {}]
      /\ inherited' = IF Output("main") = {} THEN 0 ELSE Last(Output("main"))
      /\ UNCHANGED <<files, scopes, program>>
  BY DEF StartJob
<1>2. /\ scopes["main"] \in Seq(Scope) /\ Len(scopes["main"]) \in Nat
      /\ DOMAIN scopes["main"] = 1 .. Len(scopes["main"])
  BY Parts, ScopesOf DEF IInv
<1>3. Innermost(scopes["main"], Running("main"))
  BY Parts, RunningIsShell DEF IInv
<1>4. Running("main") \in 1 .. Len(scopes["main"]) /\ scopes["main"][Running("main")].kind = "shell"
  BY <1>3 DEF Innermost
<1>5. inherited' # 0 => inherited' \in DOMAIN scopes["main"] /\ scopes["main"][inherited'].kind = "redirect"
  <2> SUFFICES ASSUME Output("main") # {}
               PROVE  inherited' \in DOMAIN scopes["main"] /\ scopes["main"][inherited'].kind = "redirect"
    BY <1>1
  <2>1. Output("main") \subseteq 1 .. Len(scopes["main"])
        /\ \A k \in Output("main") : scopes["main"][k].kind = "redirect"
    BY <1>2 DEF Output, Kind
  <2>2. Last(Output("main")) \in Output("main")
    <3>1. \E x \in Output("main") : \A y \in Output("main") : y <= x
      BY <1>2, <2>1, MaximumExists
    <3> QED BY <3>1 DEF Last
  <2> QED BY <1>1, <1>2, <2>1, <2>2
<1>6. inherited' \in Nat
  <2>1. inherited' = 0 \/ inherited' \in 1 .. Len(scopes["main"])
    BY <1>2, <1>5
  <2> QED BY <1>2, <2>1
<1>7. /\ starting' \in [waiting : BOOLEAN, shell : Nat, mask : SUBSET Bits]
      /\ starting'.shell \in DOMAIN scopes["main"] /\ scopes["main"][starting'.shell].kind = "shell"
  BY <1>1, <1>2, <1>4
<1> QED BY <1>1, <1>5, <1>6, <1>7, Parts, Assemble

\* A shell by itself is a stack.
LEMMA StackedAlone ==
  ASSUME NEW x \in ShellScope
  PROVE  <<x>> \in Seq(Scope) /\ Stacked(<<x>>) /\ Len(<<x>>) = 1 /\ <<x>>[1] = x /\ x.kind = "shell"
<1>1. x \in Scope /\ x.kind = "shell"
  BY DEF Scope, ShellScope
<1>2. <<x>> \in Seq(Scope) /\ Len(<<x>>) = 1 /\ <<x>>[1] = x /\ DOMAIN <<x>> = 1 .. 1
  BY <1>1
<1> QED BY <1>1, <1>2 DEF Stacked, Belongs

\* A job begins with a shell of its own.
LEMMA BeginJobStep ==
  ASSUME IInv, BeginJob
  PROVE  IInv'
<1> DEFINE x == Shell(JobMask)
           all == [scopes EXCEPT !["job"] = <<x>>]
<1>1. scopes' = all /\ starting' = Nobody /\ UNCHANGED <<files, inherited, program>>
  BY DEF BeginJob
<1>2. JobMask \in SUBSET Bits
  <2>1. CASE starting.shell = 0
    BY <2>1, Parts DEF JobMask
  <2>2. CASE starting.shell # 0
    <3>1. starting.shell \in 1 .. Len(scopes["main"]) /\ scopes["main"] \in Seq(Scope)
          /\ scopes["main"][starting.shell].kind = "shell"
      BY <2>2, Parts, LenProperties
    <3>2. scopes["main"][starting.shell] \in ShellScope
      BY <3>1, ElementOfSeq, ScopeFacts
    <3> QED BY <2>2, <3>2 DEF JobMask, ShellScope
  <2> QED BY <2>1, <2>2
<1>3. x \in ShellScope
  BY <1>2 DEF Shell, ShellScope
<1>4. <<x>> \in Seq(Scope) /\ Stacked(<<x>>) /\ Len(<<x>>) = 1 /\ <<x>>[1] = x /\ x.kind = "shell"
  BY <1>3, StackedAlone
<1> HIDE DEF x
<1>5. /\ all \in [Procs -> Seq(Scope)] /\ all["job"] = <<x>> /\ all["main"] = scopes["main"]
      /\ \A q \in Procs : q = "job" \/ all[q] = scopes[q]
  BY <1>4, Parts
<1> HIDE DEF all
<1>6. \A q \in Procs : Stacked(all[q]) /\ (all[q] # <<>> => all[q][1].kind = "shell")
  BY <1>4, <1>5, Parts
<1>7. \A q \in Procs : \A i \in 1 .. Len(all[q]) : Guards(files, all[q][i])
  <2>1. Guards(files, x)
    BY <1>4 DEF Guards
  <2>2. \A i \in 1 .. Len(<<x>>) : Guards(files, <<x>>[i])
    BY <1>4, <2>1
  <2> QED BY <1>5, <2>2, Parts
<1>8. Nobody \in [waiting : BOOLEAN, shell : Nat, mask : SUBSET Bits] /\ Nobody.shell = 0
  BY DEF Nobody
<1> QED BY <1>1, <1>5, <1>6, <1>7, <1>8, Parts, Assemble

\* A job ends.
LEMMA EndJobStep ==
  ASSUME IInv, EndJob
  PROVE  IInv'
<1> DEFINE all == [scopes EXCEPT !["job"] = <<>>]
<1>1. scopes' = all /\ inherited' = 0 /\ UNCHANGED <<files, starting, program>>
  BY DEF EndJob
<1>2. <<>> \in Seq(Scope) /\ Len(<<>>) = 0 /\ Stacked(<<>>)
  BY EmptySeq DEF Stacked
<1>3. /\ all \in [Procs -> Seq(Scope)] /\ all["job"] = <<>> /\ all["main"] = scopes["main"]
      /\ \A q \in Procs : q = "job" \/ all[q] = scopes[q]
  BY <1>2, Parts
<1> HIDE DEF all
<1>4. \A q \in Procs : Stacked(all[q]) /\ (all[q] # <<>> => all[q][1].kind = "shell")
  BY <1>2, <1>3, Parts
<1>5. ASSUME NEW q \in Procs, NEW i \in 1 .. Len(all[q]) PROVE Guards(files, all[q][i])
  <2>1. all[q] # <<>>
    BY <1>2, <1>5
  <2>2. all[q] = scopes[q]
    BY <1>3, <2>1
  <2> QED BY <1>5, <2>2, Parts
<1> QED BY <1>1, <1>3, <1>4, <1>5, Parts, Assemble

\* A script that panicked has ended, and the next one starts.
LEMMA ScriptFailsStep ==
  ASSUME IInv, ScriptFails
  PROVE  IInv'
<1> DEFINE x == Shell({})
           all == [scopes EXCEPT !["main"] = <<x>>]
<1>1. /\ scopes' = all /\ Len(scopes["main"]) = 1 /\ UNCHANGED <<files, inherited, starting, program>>
  BY DEF ScriptFails
<1>2. x \in ShellScope
  BY DEF Shell, ShellScope
<1>3. <<x>> \in Seq(Scope) /\ Stacked(<<x>>) /\ Len(<<x>>) = 1 /\ <<x>>[1] = x /\ x.kind = "shell"
  BY <1>2, StackedAlone
<1> HIDE DEF x
<1>4. /\ all \in [Procs -> Seq(Scope)] /\ all["main"] = <<x>> /\ \A q \in Procs : q = "main" \/ all[q] = scopes[q]
  BY <1>3, Parts
<1> HIDE DEF all
<1>5. DOMAIN scopes["main"] = 1 .. 1 /\ scopes["main"][1].kind = "shell"
  BY <1>1, Parts, ScopesOf DEF IInv
<1>6. DOMAIN <<x>> = 1 .. 1 /\ <<x>> # <<>>
  BY <1>3
<1>7. \A q \in Procs : Stacked(all[q]) /\ (all[q] # <<>> => all[q][1].kind = "shell")
  BY <1>3, <1>4, Parts
<1>8. \A q \in Procs : \A i \in 1 .. Len(all[q]) : Guards(files, all[q][i])
  <2>1. Guards(files, x)
    BY <1>3 DEF Guards
  <2>2. \A i \in 1 .. Len(<<x>>) : Guards(files, <<x>>[i])
    BY <1>3, <2>1
  <2> QED BY <1>4, <2>2, Parts
<1>9. inherited = 0
  BY <1>5, Parts
<1>10. starting.shell # 0 => starting.shell \in DOMAIN all["main"] /\ all["main"][starting.shell].kind = "shell"
  BY <1>3, <1>4, <1>5, <1>6, Parts
<1> QED BY <1>1, <1>4, <1>6, <1>7, <1>8, <1>9, <1>10, Parts, Assemble

-----------------------------------------------------------------------------
(* The specification *)

\* The invariant holds when the script starts.
LEMMA InitInv == Init => IInv
<1> SUFFICES ASSUME Init PROVE IInv
  OBVIOUS
<1> DEFINE x == Shell({})
<1>1. x \in ShellScope
  BY DEF Shell, ShellScope
<1>2. <<x>> \in Seq(Scope) /\ Stacked(<<x>>) /\ Len(<<x>>) = 1 /\ <<x>>[1] = x /\ x.kind = "shell"
  BY <1>1, StackedAlone
<1>3. <<>> \in Seq(Scope) /\ Len(<<>>) = 0 /\ Stacked(<<>>) /\ DOMAIN <<>> = {}
  BY EmptySeq DEF Stacked
<1>4. scopes = [main |-> <<x>>, job |-> <<>>] /\ inherited = 0 /\ starting = Nobody /\ program \in Programs
  BY DEF Init
<1> HIDE DEF x
<1>5. /\ scopes \in [Procs -> Seq(Scope)] /\ scopes["main"] = <<x>> /\ scopes["job"] = <<>>
      /\ \A q \in Procs : q = "main" \/ q = "job"
  <2>1. \A q \in Procs : q = "main" \/ q = "job"
    BY DEF Procs
  <2>2. scopes = [q \in {"main", "job"} |-> IF q = "main" THEN <<x>> ELSE <<>>]
    BY <1>4
  <2>3. scopes = [q \in Procs |-> IF q = "main" THEN <<x>> ELSE <<>>] /\ "main" \in Procs /\ "job" \in Procs
    BY <2>2 DEF Procs
  <2>4. \A q \in Procs : (IF q = "main" THEN <<x>> ELSE <<>>) \in Seq(Scope)
    BY <1>2, <1>3
  <2> QED BY <2>1, <2>3, <2>4
<1>6. files \in [Files -> FileState]
  <2>1. Absent \in FileState
    BY DEF Absent, FileState
  <2>2. [text |-> <<"o">>, mode |-> Bits, there |-> TRUE] \in FileState
    <3>1. "o" \in Byte
      BY DEF Byte
    <3>2. <<"o">> \in Seq(Byte)
      BY <3>1
    <3> QED BY <3>2 DEF FileState
  <2> QED BY <2>1, <2>2 DEF Init
<1>7. Nobody \in [waiting : BOOLEAN, shell : Nat, mask : SUBSET Bits] /\ Nobody.shell = 0
  BY DEF Nobody
<1>8. scopes["main"] # <<>>
  BY <1>2, <1>3, <1>5
<1>9. Typed
  BY <1>2, <1>3, <1>4, <1>5, <1>6, <1>7, <1>8 DEF Typed
<1>10. Protected
  <2>1. \A i \in DOMAIN <<x>> : Guards(files, <<x>>[i])
    BY <1>2 DEF Guards
  <2> QED BY <1>3, <1>5, <2>1 DEF Protected
<1> QED BY <1>2, <1>3, <1>5, <1>9, <1>10 DEF IInv

\* Every step keeps the invariant.
LEMMA NextInv == IInv /\ [Next]_vars => IInv'
<1> SUFFICES ASSUME IInv, [Next]_vars PROVE IInv'
  OBVIOUS
<1>1. ASSUME NEW p \in Procs, NEW m \in Masks, Umask(p, m) \/ UmaskInFunction(p, m) PROVE IInv'
  BY <1>1, UmaskStep, UmaskInFunctionStep
<1>2. ASSUME NEW p \in Procs, NEW mutates \in BOOLEAN, EnterSubshell(p, mutates) PROVE IInv'
  BY <1>2, EnterSubshellStep
<1>3. ASSUME NEW p \in Procs, EndSubshell(p) \/ ExitSubshell(p) \/ EnterShell(p) \/ EndShell(p) PROVE IInv'
  BY <1>3, EndSubshellStep, ExitSubshellStep, EnterShellStep, EndShellStep
<1>4. ASSUME NEW p \in Procs, SetNoclobber(p) PROVE IInv'
  BY <1>4, SetNoclobberStep
<1>5. ASSUME NEW p \in Procs, NEW name \in Files, NEW kind \in program[p].uses, openHandler(p, name, kind) PROVE IInv'
  BY <1>5, openHandlerStep
<1>6. ASSUME NEW p \in Procs, NEW name \in Files, NEW m \in Masks, Chmod(p, name, Bits \ m) PROVE IInv'
  BY <1>6, ChmodStep
<1>7. ASSUME NEW p \in Procs, NEW name \in Files, Remove(p, name) PROVE IInv'
  BY <1>7, RemoveStep
<1>8. ASSUME NEW p \in Procs, Write(p) \/ Close(p) PROVE IInv'
  BY <1>8, WriteStep, CloseStep
<1>9. ASSUME NEW p \in Procs, Commands(p) \/ Unwinds(p) PROVE IInv'
  BY <1>1, <1>2, <1>3, <1>4, <1>5, <1>6, <1>7, <1>8, <1>9 DEF Commands, Unwinds
<1>10. ASSUME NEW p \in Procs, SharedWrite(p) PROVE IInv'
  BY <1>10, BeginWriteStep, SharedWriteStep DEF SharedWrite
<1>11. CASE StartJob \/ BeginJob \/ EndJob \/ ScriptFails
  BY <1>11, StartJobStep, BeginJobStep, EndJobStep, ScriptFailsStep
<1>12. CASE UNCHANGED vars
  <2>1. UNCHANGED <<files, scopes, inherited, starting, program>>
    BY <1>12 DEF vars
  <2> QED BY <2>1, Parts, Assemble
<1> QED BY <1>9, <1>10, <1>11, <1>12 DEF Next

\* The scopes of a script and its job stay well formed: every redirection in
\* which no two writes overlapped holds what its commands wrote, and after each
\* step of a write what that step makes of it; a guarded one has no file to replace, and
\* every bracketed subshell finds its mask on the stack of its shell.
THEOREM InvariantHolds == Spec => []IInv
BY InitInv, NextInv, PTL DEF Spec

\* However subshells, child shells, functions and exits nest, a subshell that
\* reaches its end gives back the mask it was entered with
\* (shell_normalization.go:146, umaskScopeRestoreStatements).
THEOREM SubshellsRestoreMask == Spec => MaskScoped
<1>1. ASSUME IInv, NEW p \in Procs, EndSubshell(p), Top(p).clean PROVE Shells(p)'.mask = Top(p).entry
  BY <1>1, EndSubshellStep
<1>2. IInv /\ [Next]_vars =>
        [\A p \in Procs : EndSubshell(p) /\ Top(p).clean => Shells(p)'.mask = Top(p).entry]_vars
  BY <1>1
<1> QED BY <1>2, InvariantHolds, PTL DEF Spec, MaskScoped

\* Whatever other redirections, removals and changes of mode do in between, and
\* in whatever steps the script and its job write, a redirection writes what its
\* commands wrote to it and keeps the permissions of a file that was there; the
\* bytes only where no write overlapped another or was half done at the close
\* (fs_handlers.go:66-78, 131-149).
THEOREM RedirectionsWriteBack == Spec => WritesBack
<1>1. ASSUME IInv, NEW p \in Procs, Close(p), Top(p).write
      PROVE  LET f == Top(p)
                 new == files'[f.name]
             IN  /\ (f.append \/ f.trunc) /\ ~f.raced /\ ~HalfWritten(f) => new.text = f.expected
                 /\ f.was.there => new.mode = f.was.mode
  <2> DEFINE f == Top(p)
  <2>1. scopes[p] # <<>> /\ f.kind = "redirect" /\ files' = [files EXCEPT ![f.name] = Stored(f)]
    BY <1>1 DEF Close
  <2>2. f \in Scope
    BY <1>1, <2>1, TopScope
  <2> HIDE DEF f
  <2>3. f \in RedirectScope
    BY <2>1, <2>2, ScopeFacts
  <2>4. ASSUME f.append \/ f.trunc, ~f.raced, ~HalfWritten(f) PROVE f.text = f.expected
    <3>1. PICK q \in Procs : Holds(f, f.writers[q])
      BY <2>3, <2>4 DEF RedirectScope, Kept
    <3>2. f.writers[q] \in Writer
      BY <2>3, RedirectFields
    <3>3. f.writers[q].step \in {"idle", "grow", "advance"}
      BY <2>4, <3>2 DEF Writer, HalfWritten
    <3> QED BY <3>1, <3>3 DEF Holds
  <2>5. f.name \in Files /\ (f.was.there => f.mode = f.was.mode)
    BY <2>3 DEF RedirectScope, RedirectRecord
  <2>6. files'[f.name] = Stored(f)
    BY <1>1, <2>1, <2>5, Parts
  <2>7. files'[f.name].text = f.text /\ files'[f.name].mode = f.mode
    BY <2>6 DEF Stored
  <2> QED BY <2>4, <2>5, <2>7 DEF f
<1>2. IInv /\ [Next]_vars =>
        [\A p \in Procs : Close(p) /\ Top(p).write /\ ~Top(p).stale =>
           LET f == Top(p)
               new == files'[f.name]
           IN  /\ (f.append \/ f.trunc) /\ ~f.raced /\ ~HalfWritten(f) => new.text = f.expected
               /\ f.was.there => new.mode = f.was.mode]_vars
  BY <1>1
<1> QED BY <1>2, InvariantHolds, PTL DEF Spec, WritesBack

\* With noclobber in force at the open of a plain >, the close replaces no file
\* but one that appeared or changed since (fs_handlers.go:44).
THEOREM NoclobberProtects == Spec => NoclobberKeeps
<1>1. ASSUME IInv, NEW p \in Procs, Close(p), Top(p).guarded, files[Top(p).name].there
      PROVE  Top(p).stale
  <2>1. scopes[p] # <<>> /\ Top(p).kind = "redirect"
    BY <1>1 DEF Close
  <2>2. Top(p) = scopes[p][Len(scopes[p])] /\ Len(scopes[p]) \in 1 .. Len(scopes[p])
    BY <1>1, <2>1, TopScope
  <2>3. Guards(files, Top(p))
    BY <1>1, <2>2, Parts
  <2> QED BY <1>1, <2>1, <2>3 DEF Guards
<1>2. IInv /\ [Next]_vars =>
        [\A p \in Procs : Close(p) /\ Top(p).write /\ Top(p).guarded /\ files[Top(p).name].there
           => Top(p).stale]_vars
  BY <1>1
<1> QED BY <1>2, InvariantHolds, PTL DEF Spec, NoclobberKeeps
=============================================================================
