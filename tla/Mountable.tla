----------------------------- MODULE Mountable -----------------------------
(***************************************************************************)
(* fs.Mountable: a namespace over a base filesystem and the filesystems    *)
(* mounted in it, here all of them Memory.  A call is routed by its name   *)
(* alone; symbolic links are followed inside one filesystem.               *)
(*                                                                         *)
(* A rename between two filesystems copies and then removes, one call      *)
(* after the other, each of them routed anew: a call may be refused, the   *)
(* process may die, and jobs and the host go on in between.                *)
(***************************************************************************)
EXTENDS MemoryFS, FiniteSets

Seqs == INSTANCE SequencesExt

CONSTANTS
  Points,    \* where filesystems may be mounted
  ReadOnlys, \* the points of filesystems without write capabilities
  Written, Targets,
  Walk       \* the Paths in the order of a sorted walk

ASSUME MountableAssumption ==
  /\ Root \notin Paths /\ \A p \in Paths : parent(p) \in Places
  /\ Ids \subseteq Nat \ {0} /\ Ids # {} /\ Limit \in Nat /\ Written \subseteq Nat
  /\ Root \notin Points /\ ReadOnlys \subseteq Points
  /\ Seqs!ToSet(Walk) = Paths /\ Len(Walk) = Cardinality(Paths)

VARIABLES
  vol,      \* the filesystems: the base at Root, one for each point
  mounts,   \* Mountable.mounts: the points in use
  moving,   \* the rename under way: its names and the calls it has to make
  cargo     \* the files below the source when the last rename began: where
            \* they were, where they go, and their data; {} once it was disturbed

vars == <<vol, mounts, moving, cargo>>

\* What a read-only filesystem holds: a file of one byte under every top name.
Stocked == Sets!FoldSet(LAMBDA p, m : writeFile(m, p, 1).fs, NewMemory, {p \in Paths : Len(p) = 1})

Idle == [from |-> Root, to |-> Root, todo |-> <<>>]
Init ==
  /\ vol = [v \in Points \cup {Root} |-> IF v \in ReadOnlys THEN Stocked ELSE NewMemory]
  /\ mounts \in SUBSET Points
  /\ moving = Idle /\ cargo = {}

\* The names of the namespace.
All == Paths \cup Points \cup {v \o p : v \in Points, p \in Paths}

-----------------------------------------------------------------------------
(* Routing and reading *)

\* The filesystem of a name: that of the longest mounted prefix.
route(ms, name) ==
  LET over == {v \in ms : Within(v, name)}
  IN IF over = {} THEN Root ELSE CHOOSE v \in over : \A w \in over : Len(v) >= Len(w)
relative(ms, name) == SubSeq(name, Len(route(ms, name)) + 1, Len(name))

\* Variant: only mounts directly below are listed.
childMountsDirect(ms, name) == {v \in ms : v # Root /\ parent(v) = name}
childMounts(ms, name) == {SubSeq(v, 1, Len(name) + 1) : v \in {w \in ms : Within(name, w) /\ w # name}}
hasVirtualDir(ms, name) == childMounts(ms, name) # {}
Busy(ms, name) == name \in ms \/ hasVirtualDir(ms, name)

\* What look makes of the routed filesystem and the name relative to it.
In(vs, ms, name, look(_, _)) ==
  Then(route(ms, name), LAMBDA v :
    Then(SubSeq(name, Len(v) + 1, Len(name)), LAMBDA p : look(vs[v], p)))

At(vs, ms, name) == In(vs, ms, name, LAMBDA m, p : nodeAt(m, Lstat(m, p).at))

\* Mountable.Lstat: what the routed filesystem has, or a virtual directory
\* on the way to a mount.
LstatKind(vs, ms, name) ==
  In(vs, ms, name, LAMBDA m, p :
    Then(Lstat(m, p), LAMBDA found :
      IF found.err = "ok" THEN nodeAt(m, found.at).kind
      ELSE IF Busy(ms, name) THEN "dir" ELSE "none"))

\* Mountable.ReadDir: the entries of the routed filesystem and the mounts below.
Listing(vs, ms, name) ==
  {name \o <<p[Len(p)]>> : p \in In(vs, ms, name, ReadDir)} \cup childMounts(ms, name)

ReadFile(vs, ms, name) == In(vs, ms, name, Seen)

-----------------------------------------------------------------------------
(* Writing: the call of op(filesystem, relative name), and the filesystems *)
(* it leaves.                                                              *)

Routed(vs, ms, name, op(_, _)) ==
  Then(route(ms, name), LAMBDA v :
    IF v \in ReadOnlys THEN Answer(vs, "readonly")
    ELSE Then(In(vs, ms, name, op), LAMBDA r : Answer([vs EXCEPT ![v] = r.fs], r.err)))

MountWriteFile(vs, ms, name, n) == Routed(vs, ms, name, LAMBDA m, p : writeFile(m, p, n))
MountAppendFile(vs, ms, name, n) == Routed(vs, ms, name, LAMBDA m, p : appendFile(m, p, n))
MountCreateFile(vs, ms, name, n) == Routed(vs, ms, name, LAMBDA m, p : createFile(m, p, n))
MountSymlink(vs, ms, target, name) == Routed(vs, ms, name, LAMBDA m, p : symlink(m, target, p))

MountMkdir(vs, ms, name) ==
  IF name \in ms THEN Answer(vs, "exist") ELSE Routed(vs, ms, name, mkdir)

\* The components one after the other, until one is refused.
mkdirAll(m, name) ==
  Seqs!FoldLeft(LAMBDA r, dir : IF r.err # "ok" THEN r ELSE mkdirStep(r.fs, dir),
                Answer(m, "ok"), [i \in 1..Len(name) |-> SubSeq(name, 1, i)])
MountMkdirAll(vs, ms, name) ==
  IF Busy(ms, name) THEN Answer(vs, "ok") ELSE Routed(vs, ms, name, mkdirAll)

MountRemove(vs, ms, name) ==
  IF Busy(ms, name) THEN Answer(vs, "busy") ELSE Routed(vs, ms, name, remove)
MountRemoveAll(vs, ms, name) ==
  IF Busy(ms, name) THEN Answer(vs, "busy") ELSE Routed(vs, ms, name, removeAll)

MountLink(vs, ms, oldName, newName) ==
  IF route(ms, oldName) # route(ms, newName) THEN Answer(vs, "crossdevice")
  ELSE Then(relative(ms, newName), LAMBDA q : Routed(vs, ms, oldName, LAMBDA m, p : link(m, p, q)))

-----------------------------------------------------------------------------
(* Actions *)

Returns(r) == r.err # "bound" /\ vol' = r.fs

\* What another job does disturbs the rename under way.
Call(answer) == \E r \in {answer} :
                  /\ Returns(r)
                  /\ cargo' = IF r.fs = vol THEN cargo ELSE {}
                  /\ UNCHANGED <<mounts, moving>>

CreateFile(p) == \E n \in Written : Call(MountCreateFile(vol, mounts, p, n))
WriteFile(p) == \E n \in Written : Call(MountWriteFile(vol, mounts, p, n))
AppendFile(p) == \E n \in Written : Call(MountAppendFile(vol, mounts, p, n))
Mkdir(p) == Call(MountMkdir(vol, mounts, p))
MkdirAll(p) == Call(MountMkdirAll(vol, mounts, p))
Remove(p) == Call(MountRemove(vol, mounts, p))
RemoveAll(p) == Call(MountRemoveAll(vol, mounts, p))
Symlink(p) == \E t \in Targets : Call(MountSymlink(vol, mounts, t, p))
Link(p, q) == Call(MountLink(vol, mounts, p, q))

\* The host changes the mounts at any time.
Mount(v) == /\ v \notin mounts /\ mounts' = mounts \cup {v}
            /\ cargo' = {} /\ UNCHANGED <<vol, moving>>
Unmount(v) == /\ v \in mounts /\ mounts' = mounts \ {v}
              /\ cargo' = {} /\ UNCHANGED <<vol, moving>>

CopyCall(src, dst) == [op |-> "copy", src |-> src, dst |-> dst]
RemoveCall(src) == [op |-> "remove", src |-> src, dst |-> src]

\* No entry of the namespace is at the name or below it.
Free(name) == \A q \in All : Within(name, q) => LstatKind(vol, mounts, q) = "none"

Rename(p, q) ==
  /\ moving = Idle /\ p # q /\ ~Busy(mounts, p)
  /\ \/ /\ route(mounts, p) = route(mounts, q)
        /\ \E to \in {relative(mounts, q)} :
             \E r \in {Routed(vol, mounts, p, LAMBDA m, from : rename(m, from, to))} : Returns(r)
        /\ cargo' = {} /\ UNCHANGED <<mounts, moving>>
     \/ /\ route(mounts, p) # route(mounts, q)
        /\ moving' = [from |-> p, to |-> q, todo |-> <<CopyCall(p, q), RemoveCall(p)>>]
        /\ cargo' = IF ~Free(q) THEN {}
                    ELSE {[was |-> r, goes |-> Moved(r, p, q), node |-> At(vol, mounts, r)] :
                            r \in {s \in All : /\ Within(p, s)
                                               /\ LstatKind(vol, mounts, s) \in {"file", "link"}}}
        /\ UNCHANGED <<vol, mounts>>

\* Variant: the copy goes on after a refusal.
RemainingAnyway(err, calls) == calls
Remaining(err, calls) == IF err = "ok" THEN calls ELSE <<>>

\* The entries of a directory, in the order of its listing.
Below(name) ==
  Then([listing |-> Listing(vol, mounts, name), at |-> relative(mounts, name)], LAMBDA dir :
    SelectSeq(Walk, LAMBDA p : parent(p) = dir.at /\ name \o <<p[Len(p)]>> \in dir.listing))

\* One level of copyAcross.
CopyOne(kind, src, dst) ==
  CASE kind = "none" -> Answer(vol, "notexist")
    [] kind = "link" -> Then(At(vol, mounts, src), LAMBDA n : MountSymlink(vol, mounts, n.target, dst))
    [] kind = "dir"  -> MountMkdirAll(vol, mounts, dst)
    [] kind = "file" -> Then(ReadFile(vol, mounts, src), LAMBDA n : MountWriteFile(vol, mounts, dst, n.size))

CopyKids(kind, src, dst) ==
  IF kind # "dir" THEN <<>>
  ELSE Then(Below(src), LAMBDA below :
         [i \in DOMAIN below |-> Then(<<below[i][Len(below[i])]>>, LAMBDA last :
                                   CopyCall(src \o last, dst \o last))])

copyAcross ==
  /\ moving.todo # <<>>
  /\ \E call \in {Head(moving.todo)} : \E kind \in {LstatKind(vol, mounts, call.src)} :
       /\ call.op = "copy"
       /\ \E r \in {CopyOne(kind, call.src, call.dst)} :
            /\ Returns(r)
            /\ \E left \in {Remaining(r.err, CopyKids(kind, call.src, call.dst) \o Tail(moving.todo))} :
                 moving' = IF left = <<>> THEN Idle ELSE [moving EXCEPT !.todo = left]
       /\ UNCHANGED <<mounts, cargo>>

\* The removal at the end.
removeSource ==
  /\ moving.todo # <<>>
  /\ \E call \in {Head(moving.todo)} :
       /\ call.op = "remove"
       /\ \E r \in {IF LstatKind(vol, mounts, call.src) = "dir" THEN MountRemoveAll(vol, mounts, call.src)
                    ELSE MountRemove(vol, mounts, call.src)} : Returns(r)
       /\ moving' = Idle
       /\ UNCHANGED <<mounts, cargo>>

\* The process of the rename dies.
Die == moving # Idle /\ moving' = Idle /\ UNCHANGED <<vol, mounts, cargo>>

Next == \/ \E p \in All : \/ CreateFile(p) \/ WriteFile(p) \/ AppendFile(p) \/ Mkdir(p) \/ MkdirAll(p)
                          \/ Remove(p) \/ RemoveAll(p) \/ Symlink(p)
                          \/ \E q \in All : Link(p, q) \/ Rename(p, q)
        \/ \E v \in Points : Mount(v) \/ Unmount(v)
        \/ copyAcross \/ removeSource \/ Die

Spec == Init /\ [][Next]_vars

-----------------------------------------------------------------------------
(* Properties *)

\* A rename to a free name in another filesystem loses nothing that it was to
\* move, wherever it is refused or dies, as long as nobody else changes the
\* namespace: every file and link of the source is at its old name or at its
\* new one, as it was.
MovedIsSomewhere ==
  \A c \in cargo :
    \E name \in {c.was, c.goes} :
      \E n \in {At(vol, mounts, name)} :
        n.kind = c.node.kind /\ n.size = c.node.size /\ n.target = c.node.target

\* The names of a directory are those that can be looked up in it, at the mount
\* points and above them too.
ListingMatches ==
  \A p \in All \cup {Root} : LstatKind(vol, mounts, p) = "dir" =>
    Listing(vol, mounts, p) = {q \in All : parent(q) = p /\ LstatKind(vol, mounts, q) # "none"}
=============================================================================
