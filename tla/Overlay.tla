------------------------------- MODULE Overlay -------------------------------
(***************************************************************************)
(* fs.Overlay: a writable upper filesystem over a read-only lower one.     *)
(* Every mutation goes to the upper layer: an entry that is only in the    *)
(* lower one is copied up first, a deletion of it is recorded by a marker  *)
(* (a file ".wh.<base>" beside the entry) that hides it and all below it.  *)
(*                                                                         *)
(* An operation is a series of calls to the upper filesystem, each of them *)
(* atomic (fs.Memory holds its lock).  It may be torn: the process dies,   *)
(* or a call fails, between two of them, and the upper layer stays as it   *)
(* is then.  Operations of one overlay are taken one at a time.            *)
(***************************************************************************)
EXTENDS Naturals, Sequences

Seqs == INSTANCE SequencesExt

CONSTANTS
  Paths, Contents, Written, Longer,
  Order,       \* the paths in the order a walk comes to them
  Early,       \* paths whose base name sorts before ".wh." in a listing
  Lowers,      \* the lower filesystems, trees over Paths
  Tears,       \* TRUE: an operation may be torn
  DirTargets   \* TRUE: commands also name directories as targets of writes
               \* and renames, and move directories onto files

VARIABLES
  lower,   \* Overlay.lower
  upper,   \* Overlay.upper: its entries, and the entries that have a marker
  outcome  \* how the last operation ended: "done", "failed" or "torn"

vars == <<lower, upper, outcome>>

Root == <<>>
Places == Paths \cup {Root}
Nodes == Contents \cup {"dir", "absent"}
parentName(p) == SubSeq(p, 1, Len(p) - 1)
Within(p, q) == Len(p) <= Len(q) /\ SubSeq(q, 1, Len(p)) = p
Children(p) == {q \in Paths : parentName(q) = p}
\* The entries on the way to p, top down.
Way(p) == [i \in 1..Len(p) |-> SubSeq(p, 1, i)]
Moved(r, p, q) == q \o SubSeq(r, Len(p) + 1, Len(r))

Components == UNION {Seqs!ToSet(p) : p \in Paths}

\* A walk comes to a directory before what is in it. A lower filesystem is a tree.
ASSUME OverlayAssumption ==
  /\ Paths \subseteq Seq(Components)
  /\ \A p \in Paths : p # Root /\ parentName(p) \in Places
  /\ Order \in Seq(Paths)
  /\ \A p \in Paths : \E i \in DOMAIN Order : Order[i] = p
  /\ \A i, j \in DOMAIN Order : Within(Order[i], Order[j]) => i <= j
  /\ Written \subseteq Contents
  /\ {"dir", "absent"} \cap Contents = {}
  /\ Longer \in [Contents \cup {"absent"} -> Contents]
  /\ Early \subseteq Paths
  /\ Lowers \subseteq [Places -> Nodes]
  /\ \A t \in Lowers : t[Root] = "dir" /\ \A p \in Paths : t[p] # "absent" => t[parentName(p)] = "dir"
  /\ Tears \in BOOLEAN /\ DirTargets \in BOOLEAN

Init ==
  /\ lower \in Lowers
  /\ upper = [node |-> [p \in Places |-> IF p = Root THEN "dir" ELSE "absent"],
              marks |-> {}]
  /\ outcome = "done"

-----------------------------------------------------------------------------
(* Reading *)

\* A file of the upper layer is on the way to p: the upper filesystem answers
\* ErrNotDir, which the overlay passes on.
Blocked(u, p) == \E q \in Paths : Within(q, p) /\ q # p /\ u.node[q] \in Contents

whitedOut(u, p) == \E q \in u.marks : Within(q, p)
visibleInLower(u, p) == ~whitedOut(u, p) /\ lower[p] # "absent"

\* Stat, Lstat and ReadFile: upper entries first, then
\* what no marker hides.
Seen(u, p) ==
  IF Blocked(u, p) THEN "absent"
  ELSE IF u.node[p] # "absent" THEN u.node[p]
  ELSE IF whitedOut(u, p) THEN "absent"
  ELSE lower[p]

\* Variant: the markers are left out of the listing and hide nothing in it.
ReadDirUnfiltered(u, p) == {q \in Children(p) : u.node[q] # "absent" \/ (~whitedOut(u, p) /\ lower[q] # "absent")}

\* ReadDir merges the lower entries that have no marker with the upper ones.
\* The upper listing is sorted, and each marker in it deletes what was merged
\* so far under its name.
ReadDir(u, p) ==
  {q \in Children(p) :
     IF u.node[q] # "absent" THEN q \in u.marks => q \notin Early
     ELSE q \notin u.marks /\ visibleInLower(u, q)}

\* A file in either layer where a directory is expected.
ReadDirFails(u, p) ==
  \/ Blocked(u, p)
  \/ u.node[p] \in Contents
  \/ (~whitedOut(u, p) /\ lower[p] \in Contents)

-----------------------------------------------------------------------------
(* A run of an operation: the upper layer now, what it was before each of  *)
(* the calls made so far, and whether no call failed yet.                  *)

Begin == [now |-> upper, past |-> {}, ok |-> TRUE]

Fail(r) == [r EXCEPT !.ok = FALSE]

\* One call of the upper filesystem that leaves it as u.
Do(r, u) == IF r.ok /\ u # r.now THEN [r EXCEPT !.now = u, !.past = @ \cup {r.now}] ELSE r

Require(r, condition) == IF condition THEN r ELSE Fail(r)

\* One step for each of the paths, in turn.
InTurn(Step(_, _), r, paths) ==
  LET run[i \in 0 .. Len(paths)] == IF i = 0 THEN r ELSE Step(run[i - 1], paths[i])
  IN  run[Len(paths)]

Put(u, p, node) == [u EXCEPT !.node[p] = node]

\* Remove and RemoveAll of the upper filesystem.
Cut(u, p) == [node  |-> [q \in Places |-> IF Within(p, q) THEN "absent" ELSE u.node[q]],
              marks |-> {q \in u.marks : ~(Within(p, q) /\ p # q)}]

\* One directory of the way to p: it is there, or is copied up empty, or is
\* made when the operation creates what is missing.
Made(r, q, create) ==
  IF Seen(r.now, q) = "dir" \/ (create /\ Seen(r.now, q) = "absent")
    THEN Do(r, Put(r.now, q, "dir"))
    ELSE Fail(r)

materializeParents(r, p) ==
  InTurn(LAMBDA run, q : Made(run, q, FALSE), r, Way(parentName(p)))
materializeDirs(r, p) == InTurn(LAMBDA run, q : Made(run, q, TRUE), r, Way(p))

\* Variant: the data follows the file in a second call.
copyUpInTwo(r, p) ==
  LET m == materializeParents(r, p) IN
  IF r.now.node[p] # "absent" \/ Seen(r.now, p) = "absent" THEN r
  ELSE Do(Do(m, Put(m.now, p, Longer["absent"])), Put(m.now, p, lower[p]))

\* An entry that only the lower layer has is copied, a directory without what
\* is in it; anything else is left to the operation itself.
copyUp(r, p) ==
  LET m == materializeParents(r, p) IN
  IF r.now.node[p] # "absent" THEN r
  ELSE IF Seen(r.now, p) = "absent" THEN Require(r, ~Blocked(r.now, p))
  ELSE Do(m, Put(m.now, p, lower[p]))

\* The entry and, under a directory, whatever ReadDir lists.
Listed(u, p) == {q \in Paths :
  Within(p, q) /\ \A s \in Paths : Within(p, s) /\ p # s /\ Within(s, q) => s \in ReadDir(u, parentName(s))}

CopiedUp(r, q) ==
  LET c == copyUp(r, q) IN Require(c, Seen(c.now, q) = "dir" => ~ReadDirFails(c.now, q))

copyUpTree(r, p) ==
  LET listed == Listed(r.now, p)
  IN  InTurn(LAMBDA run, q : IF q \in listed THEN CopiedUp(run, q) ELSE run, r, Order)

clearWhiteout(r, p) == Do(r, [r.now EXCEPT !.marks = @ \ {p}])
clearMarkers(r, p) ==
  InTurn(LAMBDA run, q : IF q \in Children(p) THEN clearWhiteout(run, q) ELSE run, r, Order)

setWhiteout(r, p) ==
  LET m == materializeParents(r, p) IN Do(m, [m.now EXCEPT !.marks = @ \cup {p}])

hideLower(r, p) == IF visibleInLower(r.now, p) THEN setWhiteout(r, p) ELSE r

\* The upper directory p holds no entry and no marker.
Bare(u, p) == \A q \in Children(p) : u.node[q] = "absent" /\ q \notin u.marks

-----------------------------------------------------------------------------
(* The operations *)

CreateFileRun(p, c) ==
  LET r == materializeParents(Begin, p)
      w == Require(r, Seen(r.now, p) = "absent")
  IN clearWhiteout(Do(w, Put(w.now, p, c)), p)

WriteFileRun(p, c) ==
  LET r == materializeParents(Begin, p)
      w == Require(r, r.now.node[p] # "dir")
  IN clearWhiteout(Do(w, Put(w.now, p, c)), p)

AppendFileRun(p) ==
  LET r == copyUp(materializeParents(Begin, p), p)
      w == Require(r, r.now.node[p] # "dir")
  IN clearWhiteout(IF w.ok THEN Do(w, Put(w.now, p, Longer[w.now.node[p]])) ELSE w, p)

\* Variant: the marker of a recreated directory is dropped as a file's is.
MkdirRunTransparent(p) ==
  LET r == materializeParents(Begin, p)
      w == Require(r, Seen(r.now, p) = "absent")
  IN clearWhiteout(Do(w, Put(w.now, p, "dir")), p)

\* The marker, if any, stays: the directory starts empty.
MkdirRun(p) ==
  LET r == materializeParents(Begin, p)
      w == Require(r, Seen(r.now, p) = "absent")
  IN Do(w, Put(w.now, p, "dir"))

MkdirAllRun(p) == materializeDirs(Begin, p)

\* Chmod and Chtimes.
TouchRun(p) ==
  LET r == copyUp(materializeParents(Begin, p), p) IN Require(r, r.now.node[p] # "absent")

RemoveRun(p) ==
  LET seen == Seen(upper, p)
      asked == Require(Begin, /\ seen # "absent"
                              /\ seen = "dir" => ~ReadDirFails(upper, p) /\ ReadDir(upper, p) = {})
      cleared == IF upper.node[p] = "dir" THEN clearMarkers(asked, p) ELSE asked
      removed == Do(Require(cleared, Bare(cleared.now, p)), Put(cleared.now, p, "absent"))
  IN hideLower(removed, p)

\* What is hidden is decided before the upper entries go.
RemoveAllRun(p) ==
  LET asked == Require(Begin, ~Blocked(upper, p))
      removed == Do(asked, Cut(upper, p))
  IN IF visibleInLower(upper, p) THEN setWhiteout(removed, p) ELSE removed

\* The upper filesystem moves entries and markers below p alike.
Shifted(u, p, q) ==
  [node |-> [r \in Places |->
      IF \E s \in Paths : Within(p, s) /\ r = Moved(s, p, q)
        THEN u.node[CHOOSE s \in Paths : Within(p, s) /\ r = Moved(s, p, q)]
      ELSE IF Within(p, r) THEN "absent"
      ELSE u.node[r]],
   marks |-> {r \in u.marks : ~(Within(p, r) /\ p # r)}
             \cup {Moved(r, p, q) : r \in {s \in u.marks : Within(p, s) /\ p # s}}]

RenameRun(p, q) ==
  LET asked == Require(Begin, Seen(upper, p) # "absent")
      copied == materializeParents(copyUpTree(asked, p), q)
      target == copied.now.node[q]
      fits == /\ ~Within(p, q)
              /\ target # "absent" => (target = "dir") = (copied.now.node[p] = "dir")
              /\ Bare(copied.now, q)
      allowed == Require(copied, fits)
      moved == IF allowed.ok THEN Do(allowed, Shifted(allowed.now, p, q)) ELSE allowed
      hidden == hideLower(moved, p)
  IN IF hidden.now.node[q] \in Contents THEN clearWhiteout(hidden, q) ELSE hidden

-----------------------------------------------------------------------------
\* The run is completed or torn.
Perform(r) ==
  /\ \/ upper' = r.now /\ outcome' = (IF r.ok THEN "done" ELSE "failed")
     \/ Tears /\ upper' \in r.past /\ outcome' = "torn"
  /\ UNCHANGED lower

\* p is visible and only in the lower layer.
LowerOnly(p) == upper.node[p] = "absent" /\ Seen(upper, p) # "absent"

WriteTarget(p) == DirTargets \/ ~(LowerOnly(p) /\ lower[p] = "dir")
RenameTarget(p, q) ==
  \/ DirTargets
  \/ "dir" \notin {Seen(upper, p), Seen(upper, q)}
  \/ \A s \in Paths : Within(q, s) => ~LowerOnly(s)

\* Bound: what is moved keeps names of Paths.
Fits(p, q) == \A s \in Paths :
  Within(p, s) /\ (s \in upper.marks \/ Seen(upper, s) # "absent") => Moved(s, p, q) \in Paths

CreateFile(p) == \E c \in Written : Perform(CreateFileRun(p, c))
WriteFile(p) == WriteTarget(p) /\ \E c \in Written : Perform(WriteFileRun(p, c))
AppendFile(p) == Perform(AppendFileRun(p))
Mkdir(p) == Perform(MkdirRun(p))
MkdirAll(p) == Perform(MkdirAllRun(p))
Touch(p) == Perform(TouchRun(p))
Remove(p) == Perform(RemoveRun(p))
RemoveAll(p) == Perform(RemoveAllRun(p))
Rename(p, q) == RenameTarget(p, q) /\ Fits(p, q) /\ Perform(RenameRun(p, q))

Next ==
  \E p \in Paths :
    \/ CreateFile(p) \/ WriteFile(p) \/ AppendFile(p) \/ Mkdir(p) \/ MkdirAll(p)
    \/ Touch(p) \/ Remove(p) \/ RemoveAll(p)
    \/ \E q \in Paths : Rename(p, q)

Spec == Init /\ [][Next]_vars

-----------------------------------------------------------------------------
(* Properties *)

view == [p \in Places |-> Seen(upper, p)]
Tree == INSTANCE FileTree WITH tree <- view

\* The upper layer is a tree of its own, and every marker lies in one of its
\* directories, so a persisted upper layer can be opened again.
TypeOK ==
  /\ upper.node \in Tree!Trees
  /\ \A p \in upper.marks : p \in Paths /\ upper.node[parentName(p)] = "dir"
  /\ outcome \in {"done", "failed", "torn"}

\* Whatever was torn, what the commands see is a tree: no entry shows below a
\* file, or below a directory that is not there.
ViewIsTree == view \in Tree!Trees

\* Walking the listings and looking up by name show one and the same tree.
ListingMatches ==
  /\ ViewIsTree
  /\ \A p \in Places : view[p] = "dir" =>
       /\ ~ReadDirFails(upper, p)
       /\ ReadDir(upper, p) = {q \in Children(p) : view[q] # "absent"}

\* The runs that may start now.
Attempts ==
  (UNION {{CreateFileRun(p, c), WriteFileRun(p, c), AppendFileRun(p), MkdirRun(p), MkdirAllRun(p),
           TouchRun(p), RemoveRun(p), RemoveAllRun(p)} : p \in {s \in Paths : WriteTarget(s)}, c \in Written})
  \cup {RenameRun(s[1], s[2]) : s \in {x \in Paths \X Paths : RenameTarget(x[1], x[2]) /\ Fits(x[1], x[2])}}

\* A torn operation loses no data but its own: in between, each entry reads as
\* before, as after, or as the lower layer has it.
TornReadsOldNewOrLower ==
  \A r \in Attempts : \A u \in r.past : \A p \in Paths :
    Seen(u, p) \in {view[p], Seen(r.now, p), lower[p]}

\* Seen through the overlay, an operation that is not torn is one operation on
\* one writable tree, or changes nothing; one that fails changes nothing.
ImplementsTree ==
  [][/\ outcome' = "done" => Tree!Next \/ UNCHANGED view
     /\ outcome' = "failed" => UNCHANGED view]_vars
=============================================================================
