------------------------------ MODULE Archive ------------------------------
(* tar and gzip (src/internal/commands/archive/archive.go) over a Memory     *)
(* filesystem that another job changes in the meantime. A run of tar here    *)
(* creates an archive, lists it and extracts it somewhere else, or extracts  *)
(* an archive that came from outside. Entries are read and extracted one     *)
(* after the other; nothing is written before all have been read.            *)
(* tar.Writer, which counts the bytes it is given, is external.              *)
EXTENDS CommandRun

CONSTANTS
  TarPaths, TarIds, TarLimit,  \* bounds and quota of the filesystem
  TarOrder,                    \* the names in order
  TarTrees,                    \* filesystems a run starts from
  TarOptions,                  \* base, operands, dest, strip, wanted, toStdout, noOverwrite
  TarArchives,                 \* archives from outside
  TarMaxEntries, TarMaxBytes,  \* the limits of archive.go
  TarOthers,                   \* names other jobs write and remove
  GzipRuns                     \* files, operands and options of gzip

M == INSTANCE MemoryFS WITH Paths <- TarPaths, Ids <- TarIds, Limit <- TarLimit

-----------------------------------------------------------------------------
(* tar -c                                                                    *)

Pending == [kind |-> "none"]
Nowhere == [do |-> "none"]

TarStarts ==
  {[phase |-> "create", fs |-> fs, opts |-> opts, todo |-> opts.operands, pending |-> Pending,
    archive |-> <<>>, at |-> 1, expanded |-> 0, listed |-> <<>>, created |-> TRUE,
    was |-> fs, others |-> 0, making |-> <<>>, call |-> Nowhere, stdout |-> <<>>, code |-> 0] :
     fs \in TarTrees, opts \in TarOptions}
  \cup
  {[phase |-> "extract", fs |-> fs, opts |-> opts, todo |-> <<>>, pending |-> Pending,
    archive |-> archive, at |-> 1, expanded |-> 0, listed |-> <<>>, created |-> FALSE,
    was |-> fs, others |-> 0, making |-> <<>>, call |-> Nowhere, stdout |-> <<>>, code |-> 0] :
     fs \in TarTrees, opts \in TarOptions, archive \in TarArchives}

TarFails == Becomes(Done(1))

\* "." is stored under the name of the directory, what is in it is not.
StoredName(base, rel) == IF rel = <<>> THEN <<base[Len(base)]>> ELSE rel

\* addTarPath: the header, with the size the file has now.
TarHeader ==
  /\ Runs("tar", "create") /\ state.pending = Pending /\ state.todo # <<>>
  /\ LET rel == Head(state.todo)
         found == M!Lstat(state.fs, state.opts.base \o rel)
         node == M!nodeAt(state.fs, found.at)
         entry == [name |-> StoredName(state.opts.base, rel), type |-> node.kind,
                   size |-> node.size, target |-> node.target, to |-> <<>>]
     IN  IF found.err # "ok" \/ Len(state.archive) >= TarMaxEntries THEN TarFails
         ELSE Becomes([state EXCEPT
                !.todo = Tail(@), !.archive = Append(@, entry),
                !.pending = IF node.kind = "link" THEN Pending
                            ELSE [kind |-> node.kind, rel |-> rel, size |-> node.size]])

Place(p) == CHOOSE i \in DOMAIN TarOrder : TarOrder[i] = p[Len(p)]
Before(p, q) == Place(p) < Place(q)

\* and then what the file or the directory holds.
TarContent ==
  /\ Runs("tar", "create") /\ state.pending # Pending
  /\ LET full == state.opts.base \o state.pending.rel
         seen == M!Seen(state.fs, full)
         kids == Seqs!SetToSortSeq(M!ReadDir(state.fs, full), Before)
         below == [i \in DOMAIN kids |-> Append(state.pending.rel, kids[i][Len(kids[i])])]
         next == [state EXCEPT !.pending = Pending]
     IN  IF seen.kind # state.pending.kind \/ seen.size # state.pending.size THEN TarFails
         ELSE Becomes(IF seen.kind = "dir" THEN [next EXCEPT !.todo = below \o @] ELSE next)

\* Every entry takes room of its own besides its data.
ArchiveSize(archive) == Seqs!FoldLeft(LAMBDA sum, e : sum + 1 + e.size, 0, archive)

TarWrite ==
  /\ Runs("tar", "create") /\ state.pending = Pending /\ state.todo = <<>>
  /\ IF ArchiveSize(state.archive) > TarMaxBytes THEN TarFails
     ELSE Becomes([state EXCEPT !.phase = "list"])

-----------------------------------------------------------------------------
(* tar -t and -x                                                             *)

tarNameWanted(opts, name) ==
  opts.wanted = {} \/ \E op \in opts.wanted : Seqs!IsPrefix(op, name)

TarList ==
  /\ Runs("tar", "list")
  /\ LET wanted == SelectSeq(state.archive, LAMBDA e : tarNameWanted(state.opts, e.name))
     IN  Becomes([state EXCEPT !.phase = "extract",
                               !.listed = [i \in DOMAIN wanted |-> wanted[i].name]])

\* The name below the destination, without the components stripped.
safeTarName(name, strip) ==
  [ok |-> ".." \notin Seqs!ToSet(name) /\ name # <<>>,
   name |-> SubSeq(name, strip + 1, Len(name))]

safeLinkTarget(base, dest, target) ==
  LET to == M!Follow(Seqs!Front(dest), target) IN to # M!Outside /\ M!Within(base, to)

\* Parents of dest below base that are links, or cannot be looked at.
ensureNoSymlinkParent(fs, base, dest) ==
  \A i \in Len(base) + 1 .. Len(dest) - 1 :
    LET found == M!Lstat(fs, SubSeq(dest, 1, i))
    IN  found.err = "notexist" \/ (found.err = "ok" /\ M!nodeAt(fs, found.at).kind # "link")

Exists(fs, name) == M!Lstat(fs, name).err = "ok"

\* Takes a file that is there for one that is not.
KeepsNever(fs, opts, dest) == FALSE

\* -k leaves files and links that are there.
Keeps(fs, opts, dest) == opts.noOverwrite /\ Exists(fs, dest)

\* What one entry asks of the filesystem: directories first, one after the
\* other, and then one call; or nothing; or the end of the run.
Settled == state.making = <<>> /\ state.call = Nowhere
Wants(making, call) == [refused |-> FALSE, making |-> making, call |-> call]
Unwanted == [refused |-> TRUE, making |-> <<>>, call |-> Nowhere]
Prefixes(name) == [i \in 1 .. Len(name) |-> SubSeq(name, 1, i)]
ParentsOf(dest) == Prefixes(Seqs!Front(dest))

ExtractEntry(fs, opts, e, dest) ==
  LET hard == safeTarName(e.to, opts.strip)
      safe == ensureNoSymlinkParent(fs, opts.dest, dest)
  IN  CASE e.type = "dir"  -> Wants(Prefixes(dest), Nowhere)
        [] e.type = "file" ->
             IF opts.toStdout \/ Keeps(fs, opts, dest) THEN Wants(<<>>, Nowhere)
             ELSE IF ~safe THEN Unwanted
             ELSE Wants(ParentsOf(dest), [do |-> "write", dest |-> dest, size |-> e.size])
        [] e.type = "link" ->
             IF opts.toStdout THEN Wants(<<>>, Nowhere)
             ELSE IF ~safeLinkTarget(opts.dest, dest, e.target) \/ ~safe THEN Unwanted
             ELSE IF Keeps(fs, opts, dest) THEN Wants(<<>>, Nowhere)
             ELSE Wants(ParentsOf(dest), [do |-> "symlink", dest |-> dest, target |-> e.target])
        [] e.type = "hard" ->
             IF opts.toStdout THEN Wants(<<>>, Nowhere)
             ELSE IF ~hard.ok \/ hard.name = <<>> \/ ~safe THEN Unwanted
             ELSE Wants(<<>>, [do |-> "link", dest |-> dest, old |-> opts.dest \o hard.name])

TarExtract ==
  /\ Runs("tar", "extract") /\ Settled /\ state.at <= Len(state.archive)
  /\ LET e == state.archive[state.at]
         opts == state.opts
         safe == safeTarName(e.name, opts.strip)
         expanded == state.expanded + e.size
     IN  IF state.at > TarMaxEntries THEN TarFails
         ELSE IF ~tarNameWanted(opts, e.name) THEN Becomes([state EXCEPT !.at = @ + 1])
         ELSE IF ~safe.ok THEN TarFails
         ELSE IF safe.name = <<>> THEN Becomes([state EXCEPT !.at = @ + 1])
         ELSE IF expanded > TarMaxBytes THEN TarFails
         ELSE \E wants \in {ExtractEntry(state.fs, opts, e, opts.dest \o safe.name)} :
                IF wants.refused THEN TarFails
                ELSE Becomes([state EXCEPT
                       !.expanded = expanded, !.at = @ + 1, !.making = wants.making, !.call = wants.call,
                       !.stdout = IF opts.toStdout /\ e.type = "file" THEN Append(@, e.size) ELSE @])

\* One call of the filesystem, next what follows it; a refusal ends the run.
Calls(r, next) ==
  /\ r.err # "bound"
  /\ Becomes(IF r.err = "ok" THEN [next EXCEPT !.fs = r.fs] ELSE [Done(1) EXCEPT !.fs = r.fs])

TarMakesParent ==
  /\ Runs("tar", "extract") /\ state.making # <<>>
  /\ \E r \in {M!mkdirStep(state.fs, Head(state.making))} : Calls(r, [state EXCEPT !.making = Tail(@)])

TarPuts ==
  /\ Runs("tar", "extract") /\ state.making = <<>> /\ state.call # Nowhere
  /\ LET call == state.call IN
     \E r \in {CASE call.do = "write"   -> M!writeFile(state.fs, call.dest, call.size)
                 [] call.do = "symlink" -> M!symlink(state.fs, call.target, call.dest)
                 [] call.do = "link"    -> M!link(state.fs, call.old, call.dest)} :
       Calls(r, [state EXCEPT !.call = Nowhere])

TarEnds ==
  /\ Runs("tar", "extract") /\ Settled /\ state.at > Len(state.archive)
  /\ Becomes(Done(0))

\* Another job writes or removes a file.
TarOther(name) ==
  /\ command = "tar" /\ state.phase # "done" /\ state.others = 0
  /\ \E r \in {M!writeFile(state.fs, name, 2), M!remove(state.fs, name)} :
       r.err = "ok" /\ Becomes([state EXCEPT !.fs = r.fs, !.others = 1])

-----------------------------------------------------------------------------
(* gzip, gunzip, zcat: a name is the sequence of its parts between dots, the *)
(* content of a file what it was and how often it has been compressed.       *)

GzipStarts ==
  {[phase |-> "run", files |-> run.files, was |-> run.files, names |-> run.names,
    opts |-> run.opts, at |-> 1, wrote |-> {}, stdout |-> <<>>, code |-> 0] : run \in GzipRuns}

stripGzipSuffix(name) ==
  IF name[Len(name)] \in {"gz", "Z"} THEN Seqs!Front(name)
  ELSE IF name[Len(name)] = "tgz" THEN Append(Seqs!Front(name), "tar")
  ELSE Append(name, "out")

gzipDefaultOutput(name) == Append(name, "gz")

\* One name; the file it came from stays.
gzipOne ==
  /\ Runs("gzip", "run") /\ state.at <= Len(state.names)
  /\ LET opts == state.opts
         name == state.names[state.at]
         input == state.files[name]
         result == [input EXCEPT !.packed = IF opts.decompress THEN @ - 1 ELSE @ + 1]
         out == IF opts.decompress THEN stripGzipSuffix(name) ELSE gzipDefaultOutput(name)
         next == [state EXCEPT !.at = @ + 1]
     IN  Becomes(
           IF name \notin DOMAIN state.files \/ (opts.decompress /\ input.packed = 0)
           THEN [next EXCEPT !.code = 1]
           ELSE IF opts.decompress /\ opts.test THEN next
           ELSE IF opts.stdout THEN [next EXCEPT !.stdout = Append(@, result)]
           ELSE [next EXCEPT !.wrote = @ \cup {out},
                             !.files = [n \in DOMAIN @ \cup {out} |-> IF n = out THEN result ELSE @[n]]])

gzipEnds ==
  /\ Runs("gzip", "run") /\ state.at > Len(state.names)
  /\ Becomes(Done(state.code))

ArchiveNext ==
  \/ TarHeader \/ TarContent \/ TarWrite \/ TarList \/ TarExtract \/ TarMakesParent
  \/ TarPuts \/ TarEnds
  \/ \E name \in TarOthers : TarOther(name)
  \/ gzipOne \/ gzipEnds

-----------------------------------------------------------------------------
Same(fs, p, gs, q) ==
  LET a == M!nodeAt(fs, p)
      b == M!nodeAt(gs, q)
  IN  a.kind = b.kind /\ a.size = b.size /\ a.target = b.target

\* The operands and everything below them, by the names they are stored under.
Stored ==
  {p \in TarPaths : M!nodeAt(state.was, p).kind # "none"
     /\ \E i \in DOMAIN state.opts.operands :
          M!Within(state.opts.base \o state.opts.operands[i], p) /\ p # state.opts.base}
NameOf(p) == SubSeq(p, Len(state.opts.base) + 1, Len(p))

\* What tar -c takes and tar -x, without options that drop something, puts
\* somewhere else is the tree it took, provided nobody changed it meanwhile;
\* nothing is changed while it is read; -k changes nothing that was there
\* before, however far the extraction gets; what the list names is there after
\* an extraction of the same names, and a file comes back from gzip and gunzip
\* with no other file touched (archive.go:386-456, 509-632, 166-227).
ArchivesReturn ==
  /\ command = "tar" =>
       /\ state.created /\ state.phase = "done" /\ state.code = 0 /\ state.others = 0
            /\ state.opts.strip = 0 /\ state.opts.wanted = {} /\ ~state.opts.toStdout
            /\ M!ReadDir(state.was, state.opts.dest) = {} =>
            \A p \in Stored : Same(state.was, p, state.fs, state.opts.dest \o NameOf(p))
       /\ state.phase = "create" /\ state.others = 0 => state.fs = state.was
       /\ state.opts.noOverwrite /\ state.others = 0 =>
            \A p \in TarPaths : M!nodeAt(state.was, p).kind # "none" => Same(state.was, p, state.fs, p)
       /\ state.created /\ state.phase = "done" /\ state.code = 0 =>
            \A i \in DOMAIN state.listed :
              state.opts.strip = 0 /\ ~state.opts.toStdout /\ state.others = 0 =>
                Exists(state.fs, state.opts.dest \o state.listed[i])
  /\ command = "gzip" =>
       /\ \A n \in DOMAIN state.was \ state.wrote : state.files[n] = state.was[n]
       /\ state.phase = "done" /\ state.code = 0 /\ ~state.opts.test /\ ~state.opts.stdout =>
            \A i \in DOMAIN state.names :
              LET n == state.names[i]
                  back == IF state.opts.decompress THEN stripGzipSuffix(n) ELSE n
                  packed == IF state.opts.decompress THEN n ELSE gzipDefaultOutput(n)
              IN  state.files[back].text = state.files[packed].text
                  /\ state.files[back].packed = state.files[packed].packed - 1
=============================================================================
