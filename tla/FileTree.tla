------------------------------ MODULE FileTree ------------------------------
(***************************************************************************)
(* What a writable filesystem of pkg/fs promises to the commands: one tree *)
(* of directories and files, and operations that each change it at once or *)
(* not at all.  Symbolic links, permissions and times are left out.        *)
(***************************************************************************)
EXTENDS Naturals, Sequences

CONSTANTS Paths,    \* the names below the root, sequences of components
          Contents, \* what a file may hold
          Written,  \* what the commands write
          Longer    \* the contents after an append, per contents before it

Root == <<>>
Places == Paths \cup {Root}
Nodes == Contents \cup {"dir", "absent"}

Parent(p) == SubSeq(p, 1, Len(p) - 1)
Within(p, q) == Len(p) <= Len(q) /\ SubSeq(q, 1, Len(p)) = p
Children(p) == {q \in Paths : Parent(q) = p}
\* Where a rename of p to q takes r.
Moved(r, p, q) == q \o SubSeq(r, Len(p) + 1, Len(r))

\* Every entry is in a directory.
Trees == {t \in [Places -> Nodes] :
            /\ t[Root] = "dir"
            /\ \A p \in Paths : t[p] # "absent" => t[Parent(p)] = "dir"}

VARIABLE tree

WriteFile(p) ==
  /\ tree[Parent(p)] = "dir" /\ tree[p] # "dir"
  /\ \E c \in Written : tree' = [tree EXCEPT ![p] = c]

AppendFile(p) ==
  /\ tree[Parent(p)] = "dir" /\ tree[p] # "dir"
  /\ tree' = [tree EXCEPT ![p] = Longer[tree[p]]]

Mkdir(p) ==
  /\ tree[Parent(p)] = "dir" /\ tree[p] = "absent"
  /\ tree' = [tree EXCEPT ![p] = "dir"]

\* mkdir -p: no directory is made when a file is in the way.
MkdirAll(p) ==
  /\ \A q \in Paths : Within(q, p) => tree[q] \in {"dir", "absent"}
  /\ tree' = [r \in Places |-> IF Within(r, p) THEN "dir" ELSE tree[r]]

Remove(p) ==
  /\ tree[p] # "absent"
  /\ \A q \in Children(p) : tree[q] = "absent"
  /\ tree' = [tree EXCEPT ![p] = "absent"]

RemoveAll(p) ==
  tree' = [r \in Places |-> IF Within(p, r) THEN "absent" ELSE tree[r]]

\* A rename replaces a file by a file and an empty directory by a directory.
Rename(p, q) ==
  /\ tree[p] # "absent"
  /\ ~Within(p, q)
  /\ tree[Parent(q)] = "dir"
  /\ tree[q] # "absent" => (tree[q] = "dir") = (tree[p] = "dir")
  /\ \A r \in Children(q) : tree[r] = "absent"
  /\ tree' = [r \in Places |->
                IF \E s \in Paths : Within(p, s) /\ r = Moved(s, p, q)
                  THEN tree[CHOOSE s \in Paths : Within(p, s) /\ r = Moved(s, p, q)]
                ELSE IF Within(p, r) THEN "absent"
                ELSE tree[r]]

Next ==
  \E p \in Paths :
    \/ WriteFile(p) \/ AppendFile(p) \/ Mkdir(p) \/ MkdirAll(p) \/ Remove(p) \/ RemoveAll(p)
    \/ \E q \in Paths : Rename(p, q)

Spec == tree \in Trees /\ [][Next]_tree
=============================================================================
