------------------------------- MODULE Files -------------------------------
(* The commands that change files (src/internal/commands/files): cp, mv, rm, *)
(* mktemp, install, ln, rmdir, mkdir, unlink, touch and split, one or two of *)
(* them at once over one Memory filesystem. Every call of the filesystem is  *)
(* a step; what a command found out by one call may be over by the next.     *)
(* A job is what it was asked to do, the operands left, the calls to come    *)
(* for the operand at hand, and what it has printed. Names are absolute.     *)
EXTENDS CommandRun

CONSTANTS
  FileJobs,        \* what runs at once: sequences of commands
  FileTrees,       \* filesystems they start from
  FilePaths, FileIds, FileLimit,  \* bounds and quota of the filesystem
  FileOrder,       \* the names in order
  Suffixes,        \* what mktemp may come upon for the X of its template
  MktempAttempts,  \* mktempAttempts of mktemp.go
  PieceNames,      \* the names split gives its pieces, in order
  Letters          \* how many of them letters can tell apart

F == INSTANCE MemoryFS WITH Paths <- FilePaths, Ids <- FileIds, Limit <- FileLimit

Job(opts) ==
  [opts |-> opts, left |-> <<>>, calls |-> <<[do |-> "start"]>>, into |-> FALSE, out |-> <<>>, code |-> 0]
FilesStarts ==
  {[phase |-> "run", before |-> tree, fs |-> tree, jobs |-> [j \in DOMAIN jobs |-> Job(jobs[j])], code |-> 0] :
     jobs \in FileJobs, tree \in FileTrees}

Flag(job, x) == x \in job.opts.flags
Base(p) == p[Len(p)]
MkdirAll(p) == [n \in DOMAIN p |-> [do |-> "mkdirStep", at |-> SubSeq(p, 1, n)]]
TargetOf(job, operand) ==
  IF job.into THEN Append(job.opts.dest, Base(operand)) ELSE job.opts.dest

-----------------------------------------------------------------------------
(* What a command does with one operand: the calls it begins with.           *)

cpCalls(job, src, target) ==
  (IF Flag(job, "n") THEN <<[do |-> "unless", at |-> target]>> ELSE <<>>)
    \o IF F!Within(src, target) THEN <<[do |-> "refuse"]>> ELSE <<[do |-> "copy", at |-> src, to |-> target]>>
installCalls(job, src, target) ==
  IF Flag(job, "d") THEN MkdirAll(src)
  ELSE (IF Flag(job, "D") THEN MkdirAll(F!parent(target)) ELSE <<>>)
         \o <<[do |-> "source", at |-> src, to |-> target]>>
lnCalls(job, src, dest) ==
  (IF Flag(job, "f") THEN <<[do |-> "clear", at |-> dest]>> ELSE <<>>)
    \o <<[do |-> IF Flag(job, "s") THEN "symlink" ELSE "link", at |-> dest, old |-> src, target |-> F!Absolute(src)]>>

mvCalls(job, src) == <<[do |-> "rename", at |-> src, to |-> job.opts.dest]>>
rmCalls(name) == <<[do |-> "present", at |-> name]>>
mktempCalls(directory) == <<[do |-> "pick", at |-> directory, attempt |-> 0]>>
rmdirCalls(name) == <<[do |-> "isDir", at |-> name, removed |-> FALSE]>>
mkdirCalls(job, name) == IF Flag(job, "p") THEN MkdirAll(name) ELSE <<[do |-> "mkdir", at |-> name]>>

OperandCalls(job, operand) ==
  CASE job.opts.does = "cp"      -> cpCalls(job, operand, TargetOf(job, operand))
    [] job.opts.does = "mv"      -> mvCalls(job, operand)
    [] job.opts.does = "rm"      -> rmCalls(operand)
    [] job.opts.does = "mktemp"  -> mktempCalls(operand)
    [] job.opts.does = "install" -> installCalls(job, operand, IF Flag(job, "D") THEN job.opts.dest ELSE TargetOf(job, operand))
    [] job.opts.does = "ln"      -> lnCalls(job, operand, job.opts.dest)
    [] job.opts.does = "rmdir"   -> rmdirCalls(operand)
    [] job.opts.does = "mkdir"   -> mkdirCalls(job, operand)
    [] job.opts.does = "unlink"  -> <<[do |-> "isFile", at |-> operand]>>
    [] job.opts.does = "touch"   -> <<[do |-> "touch", at |-> operand]>>
    [] job.opts.does = "split"   -> <<[do |-> "cut", at |-> operand]>>

-----------------------------------------------------------------------------
(* One call: what it makes of the filesystem and of the job. The calls that  *)
(* follow from it come before those that were to come anyway; after an error *)
(* the rest of the operand is left and the job goes on with the next.        *)

Goes(fs, job, more) == [fs |-> fs, job |-> [job EXCEPT !.calls = more \o Tail(@)]]
Skips(fs, job) == [fs |-> fs, job |-> [job EXCEPT !.calls = <<>>]]
Errs(fs, job) == [fs |-> fs, job |-> [job EXCEPT !.calls = <<>>, !.code = 1]]
GoesIf(ok, fs, job, more) == IF ok THEN Goes(fs, job, more) ELSE Errs(fs, job)
Answered(answer, job) == GoesIf(answer.err = "ok", answer.fs, job, <<>>)

OrderOf(p) == CHOOSE n \in DOMAIN FileOrder : FileOrder[n] = Base(p)
Earlier1(p, q) == OrderOf(p) < OrderOf(q)

\* cp and install look at the destination once, before the first operand.
Start(fs, job) ==
  LET into == F!Seen(fs, job.opts.dest).kind = "dir"
      operands == job.opts.operands
      refused == operands = <<>> \/ (Len(operands) > 1 /\ (~into \/ Flag(job, "D")))
      ready == [job EXCEPT !.left = operands]
  IN CASE job.opts.does = "install" /\ Flag(job, "d") -> GoesIf(operands # <<>> /\ ~Flag(job, "D"), fs, ready, <<>>)
       [] job.opts.does \in {"cp", "install"} /\ refused -> Errs(fs, job)
       [] job.opts.does \in {"cp", "install"} /\ ~refused -> Goes(fs, [ready EXCEPT !.into = into], <<>>)
       [] OTHER -> Goes(fs, ready, <<>>)

\* copyPath. A directory is copied into what it finds, a link only where nothing is.
CopyPath(fs, job, c) ==
  Then(F!Lstat(fs, c.at), LAMBDA found : Then(F!nodeAt(fs, found.at).kind, LAMBDA kind :
    IF found.err # "ok" \/ (kind # "file" /\ ~Flag(job, "r")) THEN Errs(fs, job)
    ELSE Goes(fs, job, CASE kind = "link" -> <<[c EXCEPT !.do = "readlink"]>>
                         [] kind = "dir"  -> MkdirAll(c.to) \o <<[c EXCEPT !.do = "list"]>>
                         [] kind = "file" -> <<[c EXCEPT !.do = "read"]>>)))
ListChildren(fs, job, c) ==
  Then(Seqs!SetToSortSeq(F!ReadDir(fs, c.at), Earlier1), LAMBDA kids :
    GoesIf(F!Seen(fs, c.at).kind = "dir", fs, job,
           [n \in DOMAIN kids |-> [do |-> "copy", at |-> Append(c.at, Base(kids[n])), to |-> Append(c.to, Base(kids[n]))]]))
Read(fs, job, c) ==
  Then(F!Seen(fs, c.at), LAMBDA node :
    GoesIf(node.kind = "file", fs, job,
           <<[do |-> IF job.opts.does = "install" THEN "existed" ELSE "write", at |-> c.to, size |-> node.size]>>))
Readlink(fs, job, c) ==
  Then(F!Lstat(fs, c.at), LAMBDA found : Then(F!nodeAt(fs, found.at), LAMBDA node :
    GoesIf(found.err = "ok" /\ node.kind = "link", fs, job, <<[do |-> "symlink", at |-> c.to, target |-> node.target]>>)))

\* mktemp: a name that is taken, now or by the time it is to be made, is given
\* up for another.
Again(fs, job, c) ==
  GoesIf(c.attempt + 1 < MktempAttempts, fs, job, <<[do |-> "pick", at |-> c.at, attempt |-> c.attempt + 1]>>)
Pick(fs, job, c, suffix) ==
  Then(Append(c.at, suffix), LAMBDA name : Then(F!Lstat(fs, name).err, LAMBDA err :
    IF err = "ok" THEN Again(fs, job, c)
    ELSE GoesIf(err = "notexist", fs, job, <<[do |-> "temp", at |-> c.at, attempt |-> c.attempt, name |-> name]>>)))
\* Variant: a file is written whether or not there is one by now.
CreateTempWrites(fs, job, name) == IF Flag(job, "d") THEN F!mkdir(fs, name) ELSE F!writeFile(fs, name, 0)
CreateTemp(fs, job, name) == IF Flag(job, "d") THEN F!mkdir(fs, name) ELSE F!createFile(fs, name, 0)
Temp(fs, job, c) ==
  Then(CreateTemp(fs, job, c.name), LAMBDA made :
    IF made.err = "exist" THEN Again(fs, job, c)
    ELSE IF made.err = "ok" THEN Goes(made.fs, [job EXCEPT !.out = Append(@, c.name)], <<>>)
    ELSE Errs(fs, job))

\* rmdir -p goes on upwards until something is in the way, which is no error.
Rmdir(fs, job, c) ==
  LET Stuck == IF c.removed /\ Flag(job, "p") THEN Skips(fs, job) ELSE Errs(fs, job)
  IN CASE c.do = "isDir" -> IF F!Seen(fs, c.at).kind = "dir" THEN Goes(fs, job, <<[c EXCEPT !.do = "isEmpty"]>>) ELSE Stuck
       [] c.do = "isEmpty" -> IF F!ReadDir(fs, c.at) = {} THEN Goes(fs, job, <<[c EXCEPT !.do = "rmdir"]>>) ELSE Stuck
       [] c.do = "rmdir" ->
            Then(F!remove(fs, c.at), LAMBDA r :
              GoesIf(r.err = "ok", r.fs, job,
                     IF Flag(job, "p") /\ Len(c.at) > 1 THEN <<[do |-> "isDir", at |-> F!parent(c.at), removed |-> TRUE]>>
                     ELSE <<>>))

\* split: pieces of an amount, or so many pieces. Letters start over when they
\* run out.
PieceOf(job, size) ==
  IF Flag(job, "n") THEN (size + job.opts.amount - 1) \div job.opts.amount ELSE job.opts.amount
Pieces(job, size) ==
  Then(PieceOf(job, size), LAMBDA piece :
    [n \in 1 .. (IF size = 0 THEN 0 ELSE (size + piece - 1) \div piece) |->
       [do |-> "write", size |-> Smaller(piece, size - (n - 1) * piece),
        at |-> Append(job.opts.dest, PieceNames[IF Flag(job, "d") THEN n ELSE ((n - 1) % Letters) + 1])]])
CutUp(fs, job, c) ==
  Then(F!Seen(fs, c.at), LAMBDA node :
    IF job.opts.amount <= 0 \/ node.kind # "file" THEN Errs(fs, job) ELSE Goes(fs, job, Pieces(job, node.size)))

\* Whether something is there, and what follows from that.
Present(fs, job, c) ==
  Then(F!Lstat(fs, c.at).err, LAMBDA err :
    IF err = "notexist" /\ Flag(job, "f") THEN Skips(fs, job)
    ELSE GoesIf(err = "ok", fs, job, <<[c EXCEPT !.do = IF Flag(job, "r") THEN "removeAll" ELSE "remove"]>>))
IsFile(fs, job, c) ==
  Then(F!Lstat(fs, c.at), LAMBDA found :
    GoesIf(found.err = "ok" /\ F!nodeAt(fs, found.at).kind # "dir", fs, job, <<[c EXCEPT !.do = "remove"]>>))
Touch(fs, job, c) ==
  Then(F!Open(fs, c.at).err, LAMBDA err :
    GoesIf(err \in {"ok", "notexist"}, fs, job,
           <<IF err = "ok" THEN [c EXCEPT !.do = "change"] ELSE [do |-> "write", at |-> c.at, size |-> 0]>>))
Source(fs, job, c) ==
  GoesIf(F!Seen(fs, c.at).kind = "file" /\ c.at # c.to, fs, job, <<[c EXCEPT !.do = "read"]>>)
Existed(fs, job, c) ==
  Goes(fs, job, <<[c EXCEPT !.do = "write"]>>
                  \o IF F!Open(fs, c.at).err = "ok" THEN <<[do |-> "change", at |-> c.at]>> ELSE <<>>)
Unless(fs, job, c) == IF F!Open(fs, c.at).err = "ok" THEN Skips(fs, job) ELSE Goes(fs, job, <<>>)

Changes(fs, c) ==
  CASE c.do = "write"     -> F!writeFile(fs, c.at, c.size)
    [] c.do = "symlink"   -> F!symlink(fs, c.target, c.at)
    [] c.do = "link"      -> F!link(fs, c.old, c.at)
    [] c.do = "rename"    -> F!rename(fs, c.at, c.to)
    [] c.do = "remove"    -> F!remove(fs, c.at)
    [] c.do = "removeAll" -> F!removeAll(fs, c.at)
    [] c.do = "mkdir"     -> F!mkdir(fs, c.at)
    [] c.do = "mkdirStep" -> F!mkdirStep(fs, c.at)
    [] c.do = "change"    -> F!Answer(fs, F!Open(fs, c.at).err)
    [] c.do = "clear"     -> F!Answer(F!remove(fs, c.at).fs, "ok")

Call1(fs, job, c) ==
  CASE c.do = "start"    -> Start(fs, job)
    [] c.do = "refuse"   -> Errs(fs, job)
    [] c.do = "copy"     -> CopyPath(fs, job, c)
    [] c.do = "list"     -> ListChildren(fs, job, c)
    [] c.do = "read"     -> Read(fs, job, c)
    [] c.do = "readlink" -> Readlink(fs, job, c)
    [] c.do = "temp"     -> Temp(fs, job, c)
    [] c.do = "cut"      -> CutUp(fs, job, c)
    [] c.do \in {"isDir", "isEmpty", "rmdir"} -> Rmdir(fs, job, c)
    [] c.do = "unless"   -> Unless(fs, job, c)
    [] c.do = "present"  -> Present(fs, job, c)
    [] c.do = "isFile"   -> IsFile(fs, job, c)
    [] c.do = "touch"    -> Touch(fs, job, c)
    [] c.do = "source"   -> Source(fs, job, c)
    [] c.do = "existed"  -> Existed(fs, job, c)
    [] OTHER -> Answered(Changes(fs, c), job)

Becoming(j, result) == Becomes([state EXCEPT !.fs = result.fs, !.jobs[j] = result.job])

FilesOperand(j) ==
  /\ state.jobs[j].calls = <<>> /\ state.jobs[j].left # <<>>
  /\ Becomes([state EXCEPT !.jobs[j].left = Tail(@), !.jobs[j].calls = OperandCalls(state.jobs[j], Head(state.jobs[j].left))])
FilesCall(j) ==
  /\ state.jobs[j].calls # <<>> /\ Head(state.jobs[j].calls).do # "pick"
  /\ \E r \in {Call1(state.fs, state.jobs[j], Head(state.jobs[j].calls))} : Becoming(j, r)
FilesPick(j) ==
  /\ state.jobs[j].calls # <<>> /\ Head(state.jobs[j].calls).do = "pick"
  /\ \E suffix \in Suffixes :
       \E r \in {Pick(state.fs, state.jobs[j], Head(state.jobs[j].calls), suffix)} : Becoming(j, r)
FilesEnd ==
  /\ \A j \in DOMAIN state.jobs : state.jobs[j].calls = <<>> /\ state.jobs[j].left = <<>>
  /\ Becomes(Done(0))

FilesNext ==
  /\ Runs("files", "run")
  /\ FilesEnd \/ \E j \in DOMAIN state.jobs : FilesOperand(j) \/ FilesCall(j) \/ FilesPick(j)

-----------------------------------------------------------------------------
(* What came of it, before and after.                                        *)

Shown(fs, p) == LET n == F!nodeAt(fs, p) IN <<n.kind, n.size, n.target>>
Pairs(job) ==
  LET Of(o) == IF job.into /\ ~Flag(job, "D") THEN Append(job.opts.dest, Base(o)) ELSE job.opts.dest
  IN {<<o, Of(o)>> : o \in Seqs!ToSet(job.opts.operands)}

\* The names a job is to change, and what is in their way by a link.
Told(job) ==
  LET own == CASE job.opts.does \in {"cp", "ln"} -> {x[2] : x \in Pairs(job)}
               [] job.opts.does = "install" /\ ~Flag(job, "d") -> {x[2] : x \in Pairs(job)}
               [] job.opts.does = "mv"     -> {job.opts.dest} \cup Seqs!ToSet(job.opts.operands)
               [] job.opts.does = "mktemp" -> {Append(o, x) : o \in Seqs!ToSet(job.opts.operands), x \in Suffixes}
               [] job.opts.does = "split"  -> {Append(job.opts.dest, x) : x \in Seqs!ToSet(PieceNames)}
               [] OTHER -> Seqs!ToSet(job.opts.operands)
  IN own \cup {F!Open(state.before, p).at : p \in own}

\* Done as it was asked: what an operand has become.
Copied(p, q) ==
  LET was == F!nodeAt(state.before, p)
      is == F!Seen(state.fs, q)
  IN CASE was.kind = "link" -> Shown(state.fs, q) = Shown(state.before, p)
       [] was.kind = "dir"  -> is.kind = "dir"
       [] was.kind = "file" -> is.kind = "file" /\ is.size = was.size
       [] OTHER -> TRUE
Carried(job, x) ==
  LET below == {p \in FilePaths : F!Within(x[1], p)}
      Absent1(p) == F!nodeAt(state.fs, p).kind = "none"
  IN CASE job.opts.does = "cp" ->
            \/ Flag(job, "n") /\ F!Seen(state.before, x[2]).kind # "none" /\ Shown(state.fs, x[2]) = Shown(state.before, x[2])
            \/ \A p \in below : Copied(p, F!Moved(p, x[1], x[2]))
       [] job.opts.does = "mv" ->
            \A p \in below : Absent1(p) /\ Shown(state.fs, F!Moved(p, x[1], x[2])) = Shown(state.before, p)
       [] job.opts.does \in {"rm", "rmdir", "unlink"} -> Absent1(x[1])
       [] job.opts.does = "mkdir" \/ (job.opts.does = "install" /\ Flag(job, "d")) -> F!Seen(state.fs, x[1]).kind # "none"
       [] job.opts.does = "install" /\ ~Flag(job, "d") -> F!Seen(state.fs, x[2]).size = F!Seen(state.before, x[1]).size
       [] job.opts.does = "ln" /\ Flag(job, "s") -> F!nodeAt(state.fs, x[2]).target = F!Absolute(x[1])
       [] job.opts.does = "ln" /\ ~Flag(job, "s") -> state.fs.at[x[2]] = state.fs.at[F!Open(state.before, x[1]).at]
       [] job.opts.does = "touch" ->
            F!Seen(state.fs, x[1]).kind # "none" /\ F!Seen(state.fs, x[1]).size = F!Seen(state.before, x[1]).size
       [] OTHER -> TRUE

Alone(job) ==
  LET changed == {p \in FilePaths : Shown(state.fs, p) # Shown(state.before, p)}
  IN /\ \A p \in changed : \E r \in Told(job) :
          \/ F!Within(r, p)
          \/ /\ F!Within(p, r) /\ Shown(state.before, p)[1] = "none" /\ Shown(state.fs, p)[1] = "dir"
             /\ Flag(job, "p") \/ Flag(job, "D") \/ Flag(job, "d") \/ Flag(job, "r")
          \/ F!Within(p, r) /\ job.opts.does = "rmdir" /\ Flag(job, "p") /\ Shown(state.before, p)[1] = "dir"
     /\ job.code = 0 => \A x \in Pairs(job) : Carried(job, x)
     /\ job.opts.does = "split" /\ job.code = 0 =>
          LET size == F!Seen(state.before, job.opts.operands[1]).size
              names == {p \in changed : F!parent(p) = job.opts.dest}
          IN Len(Pieces(job, size)) <= Letters =>
               Sets!MapThenSumSet(LAMBDA p : F!nodeAt(state.fs, p).size, names) = size

\* Several at once that only make, move or copy to names of their own lose nothing.
Making == {"cp", "mv", "mktemp", "mkdir", "ln", "install", "rmdir", "split"}
OwnNames ==
  \A j \in DOMAIN state.jobs :
    LET job == state.jobs[j]
        Targets(k) == Told(state.jobs[k]) \ Seqs!ToSet(state.jobs[k].opts.operands)
    IN /\ job.opts.does \in Making
       /\ \A p \in Targets(j) : F!Seen(state.before, p).kind = "none"
       /\ \A k \in DOMAIN state.jobs \ {j} : job.opts.does # "mktemp" => Targets(j) \cap Targets(k) = {}

\* A command changes the names it was told to change and no others, and if it
\* reports no error, has done to them what it was asked; names from mktemp are
\* new and each is given out once; and commands that run at the same time and do
\* not remove or overwrite lose no file between them.
FilesAsTold ==
  Ended("files") =>
    LET names == Seqs!FlattenSeq([j \in DOMAIN state.jobs |-> state.jobs[j].out])
        Sizes(fs) == {F!nodeAt(fs, p).size : p \in {q \in FilePaths : F!nodeAt(fs, q).kind = "file"}}
    IN /\ Len(state.jobs) = 1 => Alone(state.jobs[1])
       /\ \A i, k \in DOMAIN names : names[i] = names[k] => i = k
       /\ \A i \in DOMAIN names : Shown(state.before, names[i])[1] = "none" /\ Shown(state.fs, names[i])[1] # "none"
       /\ OwnNames => Sizes(state.before) \subseteq Sizes(state.fs)
=============================================================================
