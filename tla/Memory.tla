------------------------------- MODULE Memory -------------------------------
(***************************************************************************)
(* One fs.Memory and the calls the commands of an execution and of its     *)
(* background jobs make on it.  MkdirAll takes the lock once per component *)
(* and can be overtaken between two of them.                               *)
(***************************************************************************)
EXTENDS MemoryFS, FiniteSets

CONSTANTS
  Written,   \* lengths the commands write and append
  Targets,   \* targets the commands give to symbolic links
  MovesRoot  \* TRUE: a command may name the root as the source of a rename

\* What links lead to.
LinkTargets == [up : Nat \cup {-1}, to : Clean]

ASSUME MemoryAssumption ==
  /\ IsFiniteSet(Paths) /\ Paths \subseteq Clean
  /\ Root \notin Paths /\ \A p \in Paths : parent(p) \in Places
  /\ IsFiniteSet(Ids) /\ Ids \subseteq Nat \ {0} /\ Ids # {}
  /\ Limit \in Nat /\ Written \subseteq Nat
  /\ Targets \subseteq LinkTargets
  /\ MovesRoot \in BOOLEAN

VARIABLES
  fs,     \* the filesystem
  making  \* the components a MkdirAll has left to make, <<>> when none runs

vars == <<fs, making>>

Init == fs = NewMemory /\ making = <<>>

\* The call returns r; a call that needs a name outside the instance is not made.
Returns(r) == r.err # "bound" /\ fs' = r.fs
Call(answer) == (\E r \in {answer} : Returns(r)) /\ UNCHANGED making

CreateFile(p) == \E n \in Written : Call(createFile(fs, p, n))
WriteFile(p) == \E n \in Written : Call(writeFile(fs, p, n))
AppendFile(p) == \E n \in Written : Call(appendFile(fs, p, n))
Mkdir(p) == Call(mkdir(fs, p))
Remove(p) == Call(remove(fs, p))
RemoveAll(p) == Call(removeAll(fs, p))
Symlink(p) == \E t \in Targets : Call(symlink(fs, t, p))
Link(p, q) == Call(link(fs, p, q))
Rename(p, q) == (p # Root \/ MovesRoot) /\ Call(rename(fs, p, q))

MkdirAll(p) == /\ making = <<>>
               /\ making' = [i \in 1..Len(p) |-> SubSeq(p, 1, i)]
               /\ UNCHANGED fs
MkdirNext == /\ making # <<>>
             /\ \E r \in {mkdirStep(fs, Head(making))} :
                  /\ Returns(r)
                  /\ making' = IF r.err = "ok" THEN Tail(making) ELSE <<>>

Next == \/ \E p \in Paths : \/ CreateFile(p) \/ WriteFile(p) \/ AppendFile(p) \/ Mkdir(p)
                            \/ Remove(p) \/ RemoveAll(p) \/ Symlink(p) \/ MkdirAll(p)
        \/ MkdirNext
        \/ \E p \in Places, q \in Paths : Link(p, q) \/ Rename(p, q)

Spec == Init /\ [][Next]_vars

-----------------------------------------------------------------------------
(* Properties *)

\* The table of nodes is a tree of the right types: what has a name is in a
\* directory, whatever links the names of the calls led through and whatever
\* came between two steps of MkdirAll.
TableIsTree ==
  /\ fs.at \in [Places -> Ids \cup {0}]
  /\ fs.node \in [Ids -> [kind : {"none", "file", "dir", "link"}, size : Nat, links : Nat,
                          target : [up : Int, to : Seq(STRING)]]]
  /\ fs.used \in Nat
  /\ \A p \in Paths : fs.at[p] # 0 => nodeAt(fs, parent(p)).kind = "dir"

\* Memory.used is the data that still has a name, within the limit: nothing is
\* charged twice for a second name, nothing stays charged when the last name is
\* gone, and no order of calls gets past the quota.  A node counts its names,
\* through links, renames onto another name of the file and removals of trees.
UsedIsReachable ==
  /\ fs.used = Sets!FoldSet(LAMBDA i, sum : sum + fs.node[i].size, 0,
                            {i \in Ids : Names(fs, i) # {}})
  /\ Limit > 0 => fs.used <= Limit
  /\ \A i \in Ids : fs.node[i].links = Cardinality(Names(fs, i))

\* A successful WriteFile is read back under the same name and under every other
\* name of the file, and no other file changes; a successful Link makes the new
\* name one of those names.
WriteIsRead ==
  \A p \in Paths : \A n \in Written : \A w \in {writeFile(fs, p, n)} : \A was \in {Open(fs, p)} :
    w.err = "ok" =>
      /\ \A read \in {Seen(w.fs, p)} : read.kind = "file" /\ read.size = n
      /\ \A q \in Paths : nodeAt(fs, q).kind = "file" =>
           nodeAt(w.fs, q).size = IF was.err = "ok" /\ fs.at[q] = fs.at[was.at]
                                  THEN n ELSE nodeAt(fs, q).size
      /\ \A q \in Paths : \A l \in {link(w.fs, p, q)} :
           l.err = "ok" => Seen(writeFile(l.fs, q, 0).fs, p).size = 0
=============================================================================
