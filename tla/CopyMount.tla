----------------------------- MODULE CopyMount -----------------------------
(***************************************************************************)
(* Copy mounts: ApplyMount copies a source tree once into a filesystem     *)
(* that the shell goes on to use.  The copy is a series of calls to the    *)
(* destination; it ends early when a call is refused (the quota, an entry  *)
(* of another kind in the way) or when the process dies.                   *)
(***************************************************************************)
EXTENDS Memory

Seqs == INSTANCE SequencesExt

CONSTANTS
  Sources,   \* source trees: what is at each of the Paths
  Walk,      \* the Paths in the order of a sorted walk
  Points     \* targets of mounts

ASSUME CopyAssumption ==
  /\ Seqs!ToSet(Walk) = Paths /\ Len(Walk) = Cardinality(Paths)
  /\ Points \subseteq Places
  /\ \A s \in Sources : \A p \in Paths :
       s[p] \in [kind : {"none", "file", "dir", "link"}, size : Nat, links : Nat, target : LinkTargets]
  /\ \A s \in Sources : \A p \in Paths :
       s[p].kind # "none" /\ parent(p) # Root => s[parent(p)].kind = "dir"

Policies == {"ifabsent", "merge", "replace"}

Provided(source) == {p \in Paths : source[p].kind # "none"}

\* The calls that copy one entry.
MkdirAllCalls(name) ==
  [i \in 1..Len(name) |-> [op |-> "mkdir", name |-> SubSeq(name, 1, i), node |-> Directory]]
\* Variant: a link leads where it led in the source.
RebasedNot(t, target) == t
Rebased(t, target) == IF t.up = -1 THEN Absolute(target \o t.to) ELSE t
\* Variant: what is in the way of a link stays.
LinkCallsInPlace(name, t) == <<[op |-> "symlink", name |-> name, node |-> Symbolic(t)]>>
LinkCalls(name, t) ==
  <<[op |-> "removeAll", name |-> name, node |-> Nothing],
    [op |-> "symlink", name |-> name, node |-> Symbolic(t)]>>
EntryCalls(target, p, n) ==
  Then(target \o p, LAMBDA name :
    CASE n.kind = "dir"  -> MkdirAllCalls(name)
      [] n.kind = "file" -> <<[op |-> "write", name |-> name, node |-> n]>>
      [] n.kind = "link" -> LinkCalls(name, Rebased(n.target, target))
      [] n.kind = "none" -> <<>>)

CopyCalls(target, source) ==
  MkdirAllCalls(target)
    \o Seqs!FlattenSeq([i \in 1..Len(Walk) |-> EntryCalls(target, Walk[i], source[Walk[i]])])

Apply(m, call) ==
  CASE call.op = "mkdir"     -> mkdirStep(m, call.name)
    [] call.op = "write"     -> writeFile(m, call.name, call.node.size)
    [] call.op = "removeAll" -> removeAll(m, call.name)
    [] call.op = "symlink"   -> symlink(m, call.node.target, call.name)

\* The answers to the calls, up to the first that is refused.
Answers(m, calls) ==
  LET answer[k \in 0..Len(calls)] ==
        IF k = 0 THEN Answer(m, "ok")
        ELSE Then(answer[k - 1], LAMBDA before :
               IF before.err # "ok" THEN before ELSE Apply(before.fs, calls[k]))
  IN [k \in 1..Len(calls) |-> answer[k]]

hasContent(m, target) ==
  Then(Lstat(m, target), LAMBDA found :
    found.err = "ok" /\ (nodeAt(m, found.at).kind = "dir" => ReadDir(m, target) # {}))

clearCalls(m, target) ==
  LET Clear(p) == [op |-> "removeAll", name |-> p, node |-> Nothing]
  IN IF target # Root THEN <<Clear(target)>>
     ELSE Seqs!SetToSeq({Clear(p) : p \in ReadDir(m, Root)})

\* Variant: a populated directory does not count.
SkippedForFiles(m, target, policy) ==
  policy = "ifabsent" /\ hasContent(m, target) /\ Seen(m, target).kind # "dir"
Skipped(m, target, policy) == policy = "ifabsent" /\ hasContent(m, target)

\* The answers of the whole mount; one that refuses before its first call has
\* only the refusal.
ApplyMount(m, target, source, policy) ==
  Then(Lstat(m, target).err, LAMBDA err :
    IF err \notin {"ok", "notexist"} THEN <<Answer(m, err)>>
    ELSE IF Skipped(m, target, policy) THEN <<Answer(m, "ok")>>
    ELSE Then((IF policy = "replace" /\ hasContent(m, target) THEN clearCalls(m, target) ELSE <<>>)
                \o CopyCalls(target, source), LAMBDA calls : Answers(m, calls)))

\* ApplyMount while the shell is not running; it may be torn.
Mount == /\ making = <<>>
         /\ \E target \in Points, source \in Sources, policy \in Policies :
              \E run \in {ApplyMount(fs, target, source, policy)} :
                \E k \in 1..Len(run) : Returns(run[k])
         /\ UNCHANGED making

MountNext == Next \/ Mount
MountSpec == Init /\ [][MountNext]_vars

-----------------------------------------------------------------------------
(* Properties *)

Bounded(run) == \A k \in 1..Len(run) : run[k].err # "bound"
Done(run) == run = <<>> \/ Seqs!Last(run).err = "ok"
Content(m, p) == [nodeAt(m, p) EXCEPT !.links = 0]
Result(m, run) == IF run = <<>> THEN m ELSE Seqs!Last(run).fs

\* A link at the target, on the way to it or at a name the source provides.
MeetsLink(m, target, source) ==
  \/ \E i \in 1..Len(target) : nodeAt(m, SubSeq(target, 1, i)).kind = "link"
  \/ \E p \in Provided(source) : nodeAt(m, target \o p).kind = "link"

\* A link on the way to the target.
LedAway(m, target) == \E i \in 1..Len(target) - 1 : nodeAt(m, SubSeq(target, 1, i)).kind = "link"

\* Two names the source provides are one file in the target.
SharesFiles(m, target, source) ==
  \E p, q \in {r \in Provided(source) : nodeAt(m, target \o r).kind = "file"} :
    p # q /\ m.at[target \o p] = m.at[target \o q]

\* A mount that succeeds has copied every file of the source, under every
\* policy and over whatever the target held, unless links of the target took the
\* writes elsewhere, and its links lead to the copies of what they led to.
CopyIsComplete ==
  \A target \in Points, source \in Sources, policy \in Policies :
    \A run \in {ApplyMount(fs, target, source, policy)} : \A result \in {Result(fs, run)} :
    /\ Done(run) /\ Bounded(run)
    /\ ~Skipped(fs, target, policy)
    /\ IF policy = "replace" THEN ~LedAway(fs, target)
       ELSE ~MeetsLink(fs, target, source) /\ ~SharesFiles(fs, target, source)
    => \A p \in Provided(source) : \A copy \in {nodeAt(result, target \o p)} :
         source[p].kind # "dir" =>
           /\ copy.kind = source[p].kind
           /\ source[p].kind = "file" => copy.size = source[p].size
           /\ source[p].kind = "link" =>
                \A q \in {Follow(parent(p), source[p].target)} :
                  q \in Provided(source) /\ source[q].kind # "link" =>
                    Open(result, target \o p).at = target \o q

\* MountMerge "copies over an existing target, replacing files that the source
\* also provides and leaving every other entry alone" (copy.go:24): that is so
\* at every step of it, where the target has no link for a write to follow and
\* no directory in the place of a link of the source.  MountIfAbsent leaves
\* everything alone when the target is populated.
OthersAreLeftAlone ==
  \A target \in Points, source \in Sources :
    /\ hasContent(fs, target) =>
         \A run \in {ApplyMount(fs, target, source, "ifabsent")} : \A k \in DOMAIN run : run[k].fs = fs
    /\ ~MeetsLink(fs, target, source) =>
         \A run \in {ApplyMount(fs, target, source, "merge")} :
         \A k \in DOMAIN run : run[k].err # "bound" =>
           \A p \in Places :
             fs.at[p] # 0
             /\ (\A q \in Provided(source) : \A name \in {target \o q} :
                   /\ p # name
                   /\ source[q].kind = "link" => ~Within(name, p)
                   /\ name \in Places => fs.at[p] # fs.at[name])
             => Content(run[k].fs, p) = Content(fs, p)

\* A mount torn on a free target is finished by a later MountMerge: it reaches
\* what the whole mount would have, wherever the first one stopped.
MergeFinishes ==
  \A target \in Points, source \in Sources :
    \A run \in {ApplyMount(fs, target, source, "ifabsent")} :
    ~hasContent(fs, target) /\ Done(run) /\ Bounded(run) =>
      \A k \in DOMAIN run :
        \A again \in {ApplyMount(run[k].fs, target, source, "merge")} :
          /\ Done(again)
          /\ \A whole \in {Result(fs, run)}, finished \in {Result(fs, again)} :
               \A p \in Places : Content(finished, p) = Content(whole, p)
=============================================================================
