------------------------------ MODULE MemoryFS ------------------------------
(***************************************************************************)
(* fs.Memory as operators: each takes the filesystem as a value and        *)
(* returns the filesystem after the call and the error.  A call holds the  *)
(* lock from its first line to its last, so it is one step.                *)
(*                                                                         *)
(* A name is a sequence of components, the root the empty one.  A file's   *)
(* data is its length; permissions and times are left out.                 *)
(***************************************************************************)
EXTENDS Integers, Sequences

Sets == INSTANCE FiniteSetsExt

CONSTANTS
  Paths,  \* bound: the names below the root
  Ids,    \* bound: the identities of *node, a set of positive integers
  Limit   \* Memory.limit, 0 for none

LinkHops == 40  \* symbolic links one name may lead through

\* What is done with a result, once it is there.
Then(result, F(_)) == CHOOSE y \in {F(x) : x \in {result}} : TRUE

Root == <<>>
Places == Paths \cup {Root}
parent(p) == IF p = Root THEN Root ELSE SubSeq(p, 1, Len(p) - 1)
Within(p, q) == Len(p) <= Len(q) /\ SubSeq(q, 1, Len(p)) = p
Moved(r, p, q) == q \o SubSeq(r, Len(p) + 1, Len(r))

\* A link target: up components up from the directory of the link and then to,
\* or to from the root when up is -1.
Absolute(to) == [up |-> -1, to |-> to]
Relative(up, to) == [up |-> up, to |-> to]
NoTarget == Absolute(Root)

Nothing == [kind |-> "none", size |-> 0, links |-> 0, target |-> NoTarget]
Directory == [Nothing EXCEPT !.kind = "dir", !.links = 1]
Regular(n) == [Nothing EXCEPT !.kind = "file", !.size = n, !.links = 1]
Symbolic(t) == [Nothing EXCEPT !.kind = "link", !.target = t, !.links = 1]

NewMemory ==
  LET root == CHOOSE i \in Ids : TRUE IN
  [at   |-> [p \in Places |-> IF p = Root THEN root ELSE 0],
   node |-> [i \in Ids |-> IF i = root THEN Directory ELSE Nothing],
   used |-> 0]

-----------------------------------------------------------------------------
(* Looking up *)

nodeAt(m, p) == IF p \in Places /\ m.at[p] # 0 THEN m.node[m.at[p]] ELSE Nothing
Names(m, i) == {p \in Places : m.at[p] = i}

\* Names are clean but for the one that stands for what is outside the root.
Components == STRING \ {".."}
Clean == Seq(Components)
Outcomes == {"ok", "notexist", "notdir", "follow", "loop", "invalid"}

\* The name a target stands for in directory d; Outside when it leaves the root,
\* which only a relative target can do.
Outside == <<"..">>
Follow(d, t) == IF t.up = -1 THEN t.to
                ELSE IF t.up > Len(d) THEN Outside
                ELSE SubSeq(d, 1, Len(d) - t.up) \o t.to

\* The components at which the walk along name stops: nothing is there, a link
\* is followed, or something that is not a directory is not the last component.
Stops(m, name, followFinal) ==
  {i \in 1..Len(name) :
     LET kind == nodeAt(m, SubSeq(name, 1, i)).kind
     IN \/ kind = "none"
        \/ kind = "link" /\ (followFinal \/ i < Len(name))
        \/ kind = "file" /\ i < Len(name)}

\* The walk up to there: the end, an error, or the name that a link leads to.
WalkTo(m, name, followFinal) ==
  IF name = Outside THEN [err |-> "invalid", at |-> name]
  ELSE Then(Stops(m, name, followFinal), LAMBDA stops :
    IF stops = {} THEN [err |-> "ok", at |-> name]
    ELSE Then(SubSeq(name, 1, Sets!Min(stops)), LAMBDA here :
      Then(nodeAt(m, here), LAMBDA node :
        CASE node.kind = "none" -> [err |-> "notexist", at |-> here]
          [] node.kind = "file" -> [err |-> "notdir", at |-> here]
          [] node.kind = "link" ->
               Then(Follow(parent(here), node.target), LAMBDA next :
                 [err |-> "follow", at |-> IF next = Outside THEN Outside
                                           ELSE next \o SubSeq(name, Len(here) + 1, Len(name))]))))

\* walk[hops] follows at most so many links from there.
resolveLocked(m, start, followFinal) ==
  LET walk[hops \in 0..LinkHops] ==
        [r \in [err : Outcomes, at : Clean \cup {Outside}] |->
           IF r.err # "follow" THEN r
           ELSE IF hops = 0 THEN [r EXCEPT !.err = "loop"]
           ELSE walk[hops - 1][WalkTo(m, r.at, followFinal)]]
  IN walk[LinkHops][WalkTo(m, start, followFinal)]

Open(m, name) == resolveLocked(m, name, TRUE)
Lstat(m, name) == resolveLocked(m, name, FALSE)

\* What ReadFile and Stat see, following links.
Seen(m, name) ==
  Then(Open(m, name), LAMBDA r : IF r.err = "ok" THEN nodeAt(m, r.at) ELSE Nothing)
Entries(m, p) == {q \in Paths : parent(q) = p /\ m.at[q] # 0}
ReadDir(m, name) ==
  Then(Open(m, name), LAMBDA r : IF r.err = "ok" THEN Entries(m, r.at) ELSE {})

-----------------------------------------------------------------------------
(* Changing.  "bound" stands for names the instance leaves out. *)

Answer(m, err) == [fs |-> m, err |-> err]
ReachesQuota(m, more) == Limit > 0 /\ m.used + more > Limit

\* Variant: the parent is not looked up.
SlotUnresolved(m, name) == [err |-> "ok", at |-> name]

\* Where a new entry for name goes: below its parent with the links followed.
Slot(m, name) ==
  Then(Open(m, parent(name)), LAMBDA r :
    IF r.err # "ok" THEN r
    ELSE IF nodeAt(m, r.at).kind # "dir" THEN [err |-> "notdir", at |-> r.at]
    ELSE [err |-> "ok", at |-> Append(r.at, name[Len(name)])])

Fresh(m) == {i \in Ids : Names(m, i) = {}}

\* The node leaves the name p; the last name takes the bytes with it.
Drop(m, p) ==
  Then(m.at[p], LAMBDA i :
    IF m.node[i].links = 1
    THEN [at   |-> [m.at EXCEPT ![p] = 0],
          node |-> [m.node EXCEPT ![i] = Nothing],
          used |-> m.used - m.node[i].size]
    ELSE [m EXCEPT !.at[p] = 0, !.node[i].links = @ - 1])

\* m.nodes[p] = n in place of nothing or of a dangling link.
Insert(m, p, n) ==
  IF p \notin Places \/ Fresh(m) = {} THEN Answer(m, "bound")
  ELSE Then(Sets!Min(Fresh(m)), LAMBDA i :
         Answer([at   |-> [m.at EXCEPT ![p] = i],
                 node |-> [j \in Ids |-> IF j = i THEN n
                                         ELSE IF j = m.at[p] THEN Nothing
                                         ELSE m.node[j]],
                 used |-> m.used + n.size], "ok"))

\* Variant: the new length is added and the old one forgotten.
overwriteAdds(m, i, n) ==
  [m EXCEPT !.node[i].size = n, !.used = @ + n]
overwrite(m, i, n) ==
  [m EXCEPT !.node[i].size = n, !.used = @ + n - m.node[i].size]

resized(m, i, n) ==
  IF ReachesQuota(m, n - m.node[i].size) THEN Answer(m, "quota")
  ELSE Answer(overwrite(m, i, n), "ok")

\* A new entry in the place the name has for it.
InsertAt(m, slot, n) ==
  IF slot.err # "ok" THEN Answer(m, slot.err) ELSE Insert(m, slot.at, n)

\* The same where nothing may be in that place.
InsertNew(m, slot, n) ==
  IF slot.err = "ok" /\ nodeAt(m, slot.at).kind # "none" THEN Answer(m, "exist")
  ELSE InsertAt(m, slot, n)

createFile(m, name, n) ==
  Then(Lstat(m, name), LAMBDA found :
    CASE found.err = "ok" -> Answer(m, "exist")
      [] found.err = "notexist" -> Then(Slot(m, name), LAMBDA slot :
        IF slot.err = "ok" /\ ReachesQuota(m, n) THEN Answer(m, "quota")
        ELSE InsertNew(m, slot, Regular(n)))
      [] OTHER -> Answer(m, found.err))

\* A dangling link is not followed: the file takes the place of the link.
writeFile(m, name, n) ==
  Then(Open(m, name), LAMBDA found :
    CASE found.err = "ok" /\ nodeAt(m, found.at).kind = "dir" -> Answer(m, "isdir")
      [] found.err = "ok" /\ nodeAt(m, found.at).kind # "dir" -> resized(m, m.at[found.at], n)
      [] found.err = "notexist" -> Then(Slot(m, name), LAMBDA slot :
        IF slot.err = "ok" /\ ReachesQuota(m, n) THEN Answer(m, "quota")
        ELSE InsertAt(m, slot, Regular(n)))
      [] OTHER -> Answer(m, found.err))

\* A file grows by n bytes.
Grow(m, p, n) ==
  Then(nodeAt(m, p), LAMBDA old :
    IF old.kind # "file" THEN Answer(m, "isdir") ELSE resized(m, m.at[p], old.size + n))

\* A missing file is made before the quota is looked at.
appendFile(m, name, n) ==
  Then(Open(m, name), LAMBDA found :
    CASE found.err = "ok" -> Grow(m, found.at, n)
      [] found.err = "notexist" ->
           Then(Slot(m, name), LAMBDA slot :
             Then(InsertAt(m, slot, Regular(0)), LAMBDA made :
               IF made.err # "ok" THEN made ELSE Grow(made.fs, slot.at, n)))
      [] OTHER -> Answer(m, found.err))

mkdir(m, name) ==
  Then(Open(m, name), LAMBDA found :
    CASE found.err = "ok" -> Answer(m, "exist")
      [] found.err = "notexist" -> Then(Slot(m, name), LAMBDA slot : InsertNew(m, slot, Directory))
      [] OTHER -> Answer(m, found.err))

\* One turn of the loop of MkdirAll: something in the way is no error.
mkdirStep(m, name) ==
  Then(mkdir(m, name), LAMBDA r : IF r.err = "exist" THEN Answer(m, "ok") ELSE r)

remove(m, name) ==
  Then(Lstat(m, name), LAMBDA found :
    IF name = Root THEN Answer(m, "root")
    ELSE IF found.err # "ok" THEN Answer(m, found.err)
    ELSE IF nodeAt(m, found.at).kind = "dir" /\ Entries(m, found.at) # {} THEN Answer(m, "notempty")
    ELSE Answer(Drop(m, found.at), "ok"))

removeAll(m, name) ==
  Then(Lstat(m, name), LAMBDA found :
    IF name = Root THEN Answer(m, "root")
    ELSE IF found.err = "notexist" THEN Answer(m, "ok")
    ELSE IF found.err # "ok" THEN Answer(m, found.err)
    ELSE Answer(Sets!FoldSet(LAMBDA p, f : Drop(f, p), m,
                             {p \in Paths : Within(found.at, p) /\ m.at[p] # 0}), "ok"))

\* What a rename takes along: the entry, and what is below it unless it is the root.
Moving(m, old) == {p \in Places : m.at[p] # 0 /\ (p = old \/ (old # Root /\ Within(old, p)))}
Relocated(m, cleared, old, new) ==
  Then(Moving(m, old), LAMBDA moving :
    IF \E p \in moving : Moved(p, old, new) \notin Places THEN Answer(m, "bound")
    ELSE Answer([cleared EXCEPT !.at =
                   [r \in Places |->
                      IF Within(new, r) /\ Moved(r, new, old) \in moving THEN m.at[Moved(r, new, old)]
                      ELSE IF r \in moving THEN 0
                      ELSE cleared.at[r]]], "ok"))

\* From the place the old name leads to, to the place of the new one.
MoveTo(m, old, new) ==
  Then([source |-> nodeAt(m, old).kind, target |-> nodeAt(m, new).kind], LAMBDA kinds :
    IF old = new \/ (old # Root /\ Within(old, new)) THEN Answer(m, "self")
    ELSE IF kinds.target = "dir" /\ kinds.source # "dir" THEN Answer(m, "isdir")
    ELSE IF kinds.target \notin {"dir", "none"} /\ kinds.source = "dir" THEN Answer(m, "notdir")
    ELSE IF kinds.target = "dir" /\ (new = Root \/ Entries(m, new) # {}) THEN Answer(m, "notempty")
    ELSE Then(IF kinds.target = "none" THEN m ELSE Drop(m, new), LAMBDA cleared :
           Relocated(m, cleared, old, new)))

rename(m, oldName, newName) ==
  Then([found |-> Lstat(m, oldName), up |-> Open(m, parent(newName))], LAMBDA at :
    IF at.found.err # "ok" THEN Answer(m, at.found.err)
    ELSE IF at.up.err # "ok" THEN Answer(m, at.up.err)
    ELSE IF nodeAt(m, at.up.at).kind # "dir" THEN Answer(m, "notdir")
    ELSE Then(IF newName = Root THEN Root ELSE Append(at.up.at, newName[Len(newName)]), LAMBDA new :
           MoveTo(m, at.found.at, new)))

symlink(m, target, name) ==
  Then(Lstat(m, name), LAMBDA found :
    CASE found.err = "ok" -> Answer(m, "exist")
      [] found.err = "notexist" -> Then(Slot(m, name), LAMBDA slot : InsertAt(m, slot, Symbolic(target)))
      [] OTHER -> Answer(m, found.err))

\* Variant: the new name gets a copy of the file.
linkCopies(m, oldName, newName) ==
  Then(Open(m, oldName), LAMBDA found :
    IF found.err # "ok" \/ newName \notin Places THEN Answer(m, "bound")
    ELSE IF m.at[newName] # 0 THEN Answer(m, "exist")
    ELSE IF nodeAt(m, parent(newName)).kind # "dir" THEN Answer(m, "notdir")
    ELSE Insert(m, newName, Regular(nodeAt(m, found.at).size)))
\* The directory of the new name is not resolved.
link(m, oldName, newName) ==
  Then(Open(m, oldName), LAMBDA found :
    IF found.err # "ok" THEN Answer(m, found.err)
    ELSE IF nodeAt(m, found.at).kind # "file" THEN Answer(m, "notregular")
    ELSE IF newName \notin Places THEN Answer(m, "bound")
    ELSE IF m.at[newName] # 0 THEN Answer(m, "exist")
    ELSE IF nodeAt(m, parent(newName)).kind = "none" THEN Answer(m, "notexist")
    ELSE IF nodeAt(m, parent(newName)).kind # "dir" THEN Answer(m, "notdir")
    ELSE Answer([m EXCEPT !.at[newName] = m.at[found.at], !.node[m.at[found.at]].links = @ + 1], "ok"))
=============================================================================
