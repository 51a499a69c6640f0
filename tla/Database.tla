------------------------------ MODULE Database ------------------------------
(***************************************************************************)
(* fs.Database: a filesystem in two SQL tables, rows of paths that point   *)
(* to rows of nodes.  An operation holds the mutex but no transaction: it  *)
(* is a series of statements, each atomic, and it is torn when the process *)
(* dies or a statement fails between two of them.  The tables then stay as *)
(* they are; the next process opens them and goes on.                      *)
(*                                                                         *)
(* The tables are a value [at, node] like that of MemoryFS, without the    *)
(* counts: "links" is 1 in every row and the bytes are summed when needed. *)
(***************************************************************************)
EXTENDS MemoryFS, FiniteSets

Seqs == INSTANCE SequencesExt

CONSTANTS Written, Targets,
          Tears,     \* TRUE: operations may be torn
          MaxOrphans \* bound: nodes that torn operations leave without a path

ASSUME DatabaseAssumption ==
  /\ Root \notin Paths /\ \A p \in Paths : parent(p) \in Places
  /\ Ids \subseteq Nat \ {0} /\ Ids # {}
  /\ Limit \in Nat /\ Written \subseteq Nat
  /\ Tears \in BOOLEAN /\ MaxOrphans \in Nat

VARIABLES
  db,    \* the two tables
  open   \* TRUE: a process has them open

vars == <<db, open>>

Empty == [at |-> [p \in Places |-> 0], node |-> [i \in Ids |-> Nothing]]
Init == db = Empty /\ open = FALSE

-----------------------------------------------------------------------------
(* Statements *)

Exists(d, i) == d.node[i].kind # "none"
Row(n) == [n EXCEPT !.links = 1]
unusedIds(d) == {i \in Ids : ~Exists(d, i) /\ Names(d, i) = {}}

\* Variant: a file counts once for every name.
usedBytesByPath(d) ==
  Sets!FoldSet(LAMBDA p, sum : sum + nodeAt(d, p).size, 0, Places)
usedBytes(d) == Sets!FoldSet(LAMBDA i, sum : sum + d.node[i].size, 0, Ids)

\* Variant: the nodes are left to whoever collects next.
collectLater(d) == d
collect(d) == [d EXCEPT !.node =
                 [i \in Ids |-> IF Names(d, i) = {} THEN Nothing ELSE d.node[i]]]

\* A run of statements: the tables after each of them.
Run(steps, err) == [steps |-> steps, err |-> err]
Refuse(err) == Run(<<>>, err)
After(d, r) == IF r.steps = <<>> THEN d ELSE Seqs!Last(r.steps)
\* The run r goes on with what more does to the tables r leaves.
AndThen(d, r, more(_)) ==
  Then(r, LAMBDA first :
    IF first.err # "ok" THEN first
    ELSE Then(After(d, first), LAMBDA e :
           Then(more(e), LAMBDA next : Run(first.steps \o next.steps, next.err))))

deletePaths(d, p) ==
  Then([d EXCEPT !.at[p] = 0], LAMBDA cut : Run(<<cut, collect(cut)>>, "ok"))

\* The node, then the path that points to it; the path is a primary key.
createEntry(d, p, n) ==
  IF p \notin Places \/ unusedIds(d) = {} THEN Refuse("bound")
  ELSE Then(Sets!Min(unusedIds(d)), LAMBDA i :
         Then([d EXCEPT !.node[i] = Row(n)], LAMBDA inserted :
           IF d.at[p] # 0 THEN Run(<<inserted>>, "constraint")
           ELSE Run(<<inserted, [inserted EXCEPT !.at[p] = i]>>, "ok")))

\* init: the root, when its path is not there.
prepareRoot(d) == IF d.at[Root] # 0 THEN Refuse("ok") ELSE createEntry(d, Root, Directory)

-----------------------------------------------------------------------------
(* Operations *)

resolve(d, name, followFinal) == resolveLocked(d, name, followFinal)
resolveParent(d, name) == Slot(d, name)
hasChildren(d, p) == Entries(d, p) # {}
checkQuota(d, delta) ==
  IF Limit > 0 /\ delta > 0 /\ usedBytes(d) + delta > Limit THEN "quota" ELSE "ok"

\* prepareCreate, and then the new entry, when the quota has room for it.
Place(d, name, n, replace) ==
  LET Fill(e, p) == IF checkQuota(e, n.size) # "ok" THEN Refuse("quota") ELSE createEntry(e, p, n)
  IN Then(resolveParent(d, name), LAMBDA slot :
       IF slot.err # "ok" THEN Refuse(slot.err)
       ELSE IF nodeAt(d, slot.at).kind = "none" THEN Fill(d, slot.at)
       ELSE IF ~replace THEN Refuse("exist")
       ELSE AndThen(d, deletePaths(d, slot.at), LAMBDA e : Fill(e, slot.at)))

Make(d, name, n, followFinal) ==
  Then(resolve(d, name, followFinal), LAMBDA found :
    CASE found.err = "ok" -> Refuse("exist")
      [] found.err = "notexist" -> Place(d, name, n, FALSE)
      [] OTHER -> Refuse(found.err))

createFileRun(d, name, n) == Make(d, name, Regular(n), FALSE)
mkdirRun(d, name) == Make(d, name, Directory, TRUE)
symlinkRun(d, target, name) == Make(d, name, Symbolic(target), FALSE)

writeFileRun(d, name, n) ==
  Then(resolve(d, name, TRUE), LAMBDA found :
    IF found.err = "notexist" THEN Place(d, name, Regular(n), TRUE)
    ELSE IF found.err # "ok" THEN Refuse(found.err)
    ELSE Then(nodeAt(d, found.at), LAMBDA old :
           IF old.kind = "dir" THEN Refuse("isdir")
           ELSE IF checkQuota(d, n - old.size) # "ok" THEN Refuse("quota")
           ELSE Run(<<[d EXCEPT !.node[d.at[found.at]].size = n]>>, "ok")))

appendFileRun(d, name, n) ==
  Then(resolve(d, name, TRUE), LAMBDA found :
    IF found.err \notin {"ok", "notexist"} THEN Refuse(found.err)
    ELSE IF checkQuota(d, n) # "ok" THEN Refuse("quota")
    ELSE IF found.err = "notexist" THEN Place(d, name, Regular(n), TRUE)
    ELSE IF nodeAt(d, found.at).kind # "file" THEN Refuse("isdir")
    ELSE Run(<<[d EXCEPT !.node[d.at[found.at]].size = @ + n]>>, "ok"))

removeRun(d, name) ==
  Then(resolve(d, name, FALSE), LAMBDA found :
    IF name = Root THEN Refuse("root")
    ELSE IF found.err # "ok" THEN Refuse(found.err)
    ELSE IF nodeAt(d, found.at).kind = "dir" /\ hasChildren(d, found.at) THEN Refuse("notempty")
    ELSE deletePaths(d, found.at))

removeSubtree(d, p) ==
  Then([d EXCEPT !.at = [q \in Places |-> IF Within(p, q) THEN 0 ELSE d.at[q]]], LAMBDA cut :
    Run(<<cut, collect(cut)>>, "ok"))

removeAllRun(d, name) ==
  Then(resolve(d, name, FALSE), LAMBDA found :
    IF name = Root THEN Refuse("root")
    ELSE IF found.err = "notexist" THEN Refuse("ok")
    ELSE IF found.err # "ok" THEN Refuse(found.err)
    ELSE removeSubtree(d, found.at))

\* Variant: the path is deleted and inserted anew.
UpdateInTwo(d, p, q) ==
  <<[d EXCEPT !.at[p] = 0], [d EXCEPT !.at[p] = 0, !.at[q] = d.at[p]]>>
Update(d, p, q) == <<[d EXCEPT !.at[p] = 0, !.at[q] = d.at[p]]>>

\* One UPDATE per path, the paths below a directory before the directory.  The
\* update of a path that is taken fails and ends the series.
movePaths(d, old, new) ==
  Seqs!FoldLeft(
    LAMBDA run, p : AndThen(d, run, LAMBDA e :
      IF e.at[Moved(p, old, new)] # 0 THEN Refuse("constraint")
      ELSE Run(Update(e, p, Moved(p, old, new)), "ok")),
    Refuse("ok"),
    Seqs!SetToSortSeq(Moving(d, old), LAMBDA p, q : Len(p) > Len(q)))

\* From the place the old name leads to, to the place of the new one.
MoveRun(d, old, new) ==
  Then([source |-> nodeAt(d, old).kind, target |-> nodeAt(d, new).kind], LAMBDA kinds :
    IF Within(old, new) THEN Refuse("self")
    ELSE IF kinds.target = "dir" /\ kinds.source # "dir" THEN Refuse("isdir")
    ELSE IF kinds.target \notin {"dir", "none"} /\ kinds.source = "dir" THEN Refuse("notdir")
    ELSE IF kinds.target = "dir" /\ hasChildren(d, new) THEN Refuse("notempty")
    ELSE IF \E p \in Moving(d, old) : Moved(p, old, new) \notin Places THEN Refuse("bound")
    ELSE IF kinds.target = "none" THEN movePaths(d, old, new)
    ELSE AndThen(d, deletePaths(d, new), LAMBDA e : movePaths(e, old, new)))

renameRun(d, oldName, newName) ==
  Then([found |-> resolve(d, oldName, FALSE), slot |-> resolveParent(d, newName)], LAMBDA at :
    IF at.found.err # "ok" THEN Refuse(at.found.err)
    ELSE IF at.slot.err # "ok" THEN Refuse(at.slot.err)
    ELSE MoveRun(d, at.found.at, at.slot.at))

linkRun(d, oldName, newName) ==
  Then([found |-> resolve(d, oldName, TRUE), taken |-> resolve(d, newName, FALSE).err,
        slot |-> resolveParent(d, newName)], LAMBDA at :
    IF at.found.err # "ok" THEN Refuse(at.found.err)
    ELSE IF nodeAt(d, at.found.at).kind # "file" THEN Refuse("notregular")
    ELSE IF at.taken = "ok" THEN Refuse("exist")
    ELSE IF at.taken # "notexist" THEN Refuse(at.taken)
    ELSE IF at.slot.err # "ok" THEN Refuse(at.slot.err)
    ELSE IF at.slot.at \notin Places THEN Refuse("bound")
    ELSE Run(<<[d EXCEPT !.at[at.slot.at] = d.at[at.found.at]]>>, "ok"))

-----------------------------------------------------------------------------
(* Actions *)

Orphans(d) == {i \in Ids : Exists(d, i) /\ Names(d, i) = {}}

\* A torn operation gets as far as it got.
Prefixes(r) == IF Tears THEN 0..Len(r.steps) ELSE {Len(r.steps)}
Does(answer) ==
  /\ \E r \in {answer} :
       /\ r.err # "bound"
       /\ \E k \in Prefixes(r) : db' = IF k = 0 THEN db ELSE r.steps[k]
  /\ Cardinality(Orphans(db')) <= MaxOrphans

\* NewDatabase.  A process that opens tables with a root changes nothing in them,
\* so a restart is left out after the first one that succeeds.
NewDatabase == /\ ~open
               /\ Does(prepareRoot(db))
               /\ open' = (db'.at[Root] # 0)

Operation(r) == open /\ Does(r) /\ UNCHANGED open

CreateFile(p) == \E n \in Written : Operation(createFileRun(db, p, n))
WriteFile(p) == \E n \in Written : Operation(writeFileRun(db, p, n))
AppendFile(p) == \E n \in Written : Operation(appendFileRun(db, p, n))
Mkdir(p) == Operation(mkdirRun(db, p))
Symlink(p) == \E t \in Targets : Operation(symlinkRun(db, t, p))
Link(p, q) == Operation(linkRun(db, p, q))
Rename(p, q) == Operation(renameRun(db, p, q))
Remove(p) == Operation(removeRun(db, p))
RemoveAll(p) == Operation(removeAllRun(db, p))

Next == \/ NewDatabase
        \/ \E p \in Paths : \/ CreateFile(p) \/ WriteFile(p) \/ AppendFile(p) \/ Mkdir(p)
                            \/ Symlink(p) \/ Remove(p) \/ RemoveAll(p)
                            \/ \E q \in Paths : Link(p, q) \/ Rename(p, q)

Spec == Init /\ [][Next]_vars

-----------------------------------------------------------------------------
(* Properties *)

\* The mutex "keeps the read-modify-write sequences consistent without
\* requiring the backend to support interactive transactions"
\* (database.go:50-52): every entry is in a directory.
EveryEntryInDirectory ==
  \A p \in Paths : db.at[p] # 0 => nodeAt(db, parent(p)).kind = "dir"

\* What a torn operation leaves behind is bounded: a removal that gets to its
\* end frees the rows of every earlier one, and with them the bytes they were
\* charged for.
RemovalCollects ==
  [][Orphans(db') # {} =>
       ~\E p \in Paths : \E r \in {removeRun(db, p), removeAllRun(db, p)} :
          r.steps # <<>> /\ Operation(r) /\ db' = After(db, r)]_vars

\* No step but a removal takes the last name of a file: not a torn rename of
\* the tree it is in, not a torn creation; a rename only that of its target.
FilesKeepAName ==
  [][\A i \in Ids :
       /\ db.node[i].kind = "file" /\ Names(db, i) # {} /\ Names(db', i) = {}
       => \E p, q \in Paths :
            \/ Remove(p) \/ RemoveAll(p)
            \/ Rename(p, q) /\ db.at[resolveParent(db, q).at] = i]_vars

\* The same filesystem in Memory, and what the two have in common.
InMemory(d) == [at |-> d.at, used |-> usedBytes(d),
                node |-> [i \in Ids |-> [d.node[i] EXCEPT !.links = Cardinality(Names(d, i))]]]
Shape(m) == [p \in Places |-> [kind |-> nodeAt(m, p).kind, size |-> nodeAt(m, p).size,
                               target |-> nodeAt(m, p).target,
                               names |-> IF m.at[p] = 0 THEN {} ELSE Names(m, m.at[p])]]
Same(d, run, call) ==
  \A r \in {run}, c \in {call} :
    r.err # "bound" /\ c.err # "bound" =>
      /\ (r.err = "ok") = (c.err = "ok")
      /\ r.err = "ok" => Shape(After(d, r)) = Shape(c.fs)

\* On tables no torn operation has touched, a Database answers and changes as a
\* Memory with the same entries does, links and second names included.
AgreesWithMemory ==
  open /\ EveryEntryInDirectory /\ Orphans(db) = {} =>
    \A m \in {InMemory(db)} : \A p, q \in Paths :
      /\ \A n \in Written : /\ Same(db, createFileRun(db, p, n), createFile(m, p, n))
                            /\ Same(db, writeFileRun(db, p, n), writeFile(m, p, n))
                            /\ Same(db, appendFileRun(db, p, n), appendFile(m, p, n))
      /\ \A t \in Targets : Same(db, symlinkRun(db, t, p), symlink(m, t, p))
      /\ Same(db, mkdirRun(db, p), mkdir(m, p))
      /\ Same(db, removeRun(db, p), remove(m, p))
      /\ Same(db, removeAllRun(db, p), removeAll(m, p))
      /\ Same(db, renameRun(db, p, q), rename(m, p, q))
      /\ link(m, p, q).err = "ok" => Same(db, linkRun(db, p, q), link(m, p, q))
=============================================================================
