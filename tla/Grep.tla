-------------------------------- MODULE Grep --------------------------------
(* grep and rg (src/internal/commands/text/grep.go, rg.go): which files of a *)
(* tree are searched, and what is printed of a file. The tree may change     *)
(* between the walk and the reading. A line is the number of its matches; a  *)
(* path is the sequence of its names below the working directory, and names  *)
(* are numbers: 0 is .gitignore, other names up to 0 begin with a dot.       *)
EXTENDS CommandRun

CONSTANTS
  GrepTrees,     \* path -> Folder, a file with lines, or one with patterns
  GrepRuns,      \* tool, operands, recursive, the options below, stdin
  GrepDepth,     \* maxGrepDepth, and rg's maxDepth
  CommonNames    \* node_modules, vendor and the like

NoFile == [kind |-> "none"]
Folder == [kind |-> "dir"]
TextFile(lines) == [kind |-> "file", lines |-> lines, patterns |-> <<>>]
IgnoreFile(patterns) == [kind |-> "file", lines |-> <<>>, patterns |-> patterns]

NodeAt(tree, p) == IF p \in DOMAIN tree THEN tree[p] ELSE NoFile
BaseOf(p) == p[Len(p)]
IsHidden(name) == name <= 0
Inside(tree, p) == {q \in DOMAIN tree : q # p /\ Seqs!IsPrefix(p, q) /\ Len(q) = Len(p) + 1}
EntriesOf(tree, p) == Seqs!SetToSortSeq(Inside(tree, p), LAMBDA q, r : BaseOf(q) < BaseOf(r))

\* Operands or entries to look at, depth levels down.
Todo(paths, depth) == [i \in DOMAIN paths |-> [path |-> paths[i], depth |-> depth]]

\* rg searches the working directory when it is given nothing else.
RgPaths(run) == IF run.operands = <<>> THEN <<<<>>>> ELSE run.operands

GrepStarts ==
  {[phase |-> IF run.tool = "grep" THEN "expand"
              ELSE IF run.operands = <<>> /\ run.stdin # <<>> THEN "stdin" ELSE "load",
    tree |-> tree, was |-> tree, opts |-> run,
    todo |-> Todo(IF run.tool = "grep" THEN run.operands ELSE RgPaths(run), 0), seen |-> {}, ignores |-> <<>>, files |-> <<>>, at |-> 1,
    sources |-> <<>>, failed |-> FALSE, matched |-> FALSE, out |-> <<>>, others |-> 0, code |-> 0] :
     tree \in GrepTrees, run \in GrepRuns}

-----------------------------------------------------------------------------
(* What is printed of one file                                               *)

Item(line, mark) == [line |-> line, mark |-> mark]
Gap == Item(0, "--")

SelectsLine(lines, opts) == {i \in DOMAIN lines : (lines[i] > 0) # opts.invert}
\* The lines up to -m.
Matching(lines, opts) ==
  Then(SelectsLine(lines, opts), LAMBDA all :
    IF opts.max = 0 THEN all ELSE {i \in all : Cardinality({j \in all : j <= i}) <= opts.max})

InOrder(lines) == Seqs!SetToSortSeq(lines, <)

IsApart(start, last) == last > 0 /\ start > last + 1

\* The match in line i with the lines around it that are not printed yet.
WithContext(printed, i, first, end) ==
  Then(SelectSeq([k \in 1 .. end - first + 1 |-> first + k - 1], LAMBDA n : n \notin printed.lines),
    LAMBDA fresh :
      [lines |-> printed.lines \cup Seqs!ToSet(fresh),
       last  |-> IF fresh = <<>> THEN printed.last ELSE fresh[Len(fresh)],
       out   |-> printed.out \o (IF IsApart(first, printed.last) THEN <<Gap>> ELSE <<>>)
                   \o [k \in DOMAIN fresh |-> Item(fresh[k], IF fresh[k] = i THEN ":" ELSE "-")]])

Context(lines, opts, matching) ==
  Seqs!FoldLeft(
    LAMBDA printed, i : WithContext(printed, i, Larger(1, i - opts.before), Smaller(Len(lines), i + opts.after)),
    [lines |-> {}, last |-> 0, out |-> <<>>], InOrder(matching)).out

Matches(lines, opts, matching) ==
  IF opts.invert THEN Cardinality(matching)
  ELSE Seqs!FoldLeft(LAMBDA n, i : n + lines[i], 0, InOrder(matching))

OnlyMatches(lines, opts, matching) ==
  IF opts.invert THEN <<>>
  ELSE Seqs!FlattenSeq(Then(InOrder(matching), LAMBDA order :
         [k \in DOMAIN order |-> [n \in 1 .. lines[order[k]] |-> Item(order[k], "o")]]))

\* searchGrepContent and searchRgContent.
Printout(lines, opts, matching) ==
  LET counted == IF opts.show = "matches" THEN Matches(lines, opts, matching) ELSE Cardinality(matching) IN
  CASE opts.show \in {"count", "matches"} ->
         IF opts.tool = "rg" /\ counted = 0 /\ ~opts.zero THEN <<>> ELSE <<Item(counted, "#")>>
    [] opts.before > 0 \/ opts.after > 0 -> Context(lines, opts, matching)
    [] opts.show = "only" -> OnlyMatches(lines, opts, matching)
    [] opts.show = "through" -> [i \in DOMAIN lines |-> Item(i, IF i \in matching THEN ":" ELSE "")]
    [] OTHER -> Then(InOrder(matching), LAMBDA order : [n \in DOMAIN order |-> Item(order[n], ":")])
searchContent(lines, opts) ==
  Then(Matching(lines, opts), LAMBDA matching :
    [matched |-> matching # {}, out |-> Printout(lines, opts, matching)])

From(file, items) == [i \in DOMAIN items |-> [file |-> file, item |-> items[i]]]
Listed(file) == <<[file |-> file, item |-> Item(0, "l")]>>

\* What a file adds to the output; a file without a name is not listed.
Adds(file, result, opts) ==
  CASE opts.show = "quiet" -> <<>>
    [] opts.show \in {"list", "without"} ->
         IF result.matched = (opts.show = "list") /\ (opts.tool = "rg" \/ file # <<>>)
         THEN Listed(file) ELSE <<>>
    [] OTHER -> IF opts.tool = "grep" \/ result.matched \/ (opts.zero /\ opts.show \in {"count", "matches"})
                  THEN From(file, result.out) ELSE <<>>

\* -L is about the files that are named, everything else about a match.
Status(opts, matched, out) ==
  IF opts.show = "without" THEN (IF out # <<>> THEN 0 ELSE 1) ELSE IF matched THEN 0 ELSE 1

-----------------------------------------------------------------------------
(* grep: expand all operands, read all files, then search.                   *)

grepFileAllowed(opts, p) ==
  BaseOf(p) \notin opts.exclude /\ (opts.include = {} \/ BaseOf(p) \in opts.include)

Expanded(next, p, depth) ==
  Then(NodeAt(state.tree, p), LAMBDA node :
    IF ~state.opts.recursive
    THEN IF grepFileAllowed(state.opts, p) THEN [next EXCEPT !.files = Append(@, p)] ELSE next
    ELSE IF depth >= GrepDepth THEN next
    ELSE CASE node.kind = "none" -> [next EXCEPT !.files = Append(@, p)]
           [] node.kind = "file" ->
                IF grepFileAllowed(state.opts, p) THEN [next EXCEPT !.files = Append(@, p)] ELSE next
           [] node.kind = "dir" ->
                IF p # <<>> /\ BaseOf(p) \in state.opts.excludeDir THEN next
                ELSE [next EXCEPT !.todo = Todo(SelectSeq(EntriesOf(state.tree, p),
                                                          LAMBDA q : ~IsHidden(BaseOf(q))), depth + 1) \o @])

GrepExpand ==
  /\ Runs("grep", "expand") /\ state.todo # <<>>
  /\ \E item \in {Head(state.todo)} : Becomes(Expanded([state EXCEPT !.todo = Tail(@)], item.path, item.depth))

GrepExpanded ==
  /\ Runs("grep", "expand") /\ state.todo = <<>>
  /\ Becomes([state EXCEPT !.phase = "read",
                !.sources = IF state.opts.operands = <<>>
                            THEN <<[file |-> <<>>, lines |-> state.opts.stdin]>> ELSE <<>>])

\* A directory is passed over, a file that is missing is an error.
GrepRead ==
  /\ Runs("grep", "read") /\ state.at <= Len(state.files)
  /\ \E node \in {NodeAt(state.tree, state.files[state.at])} :
       Becomes([state EXCEPT !.at = @ + 1, !.failed = @ \/ node.kind = "none",
                  !.sources = IF node.kind # "file" THEN @
                              ELSE Append(@, [file |-> state.files[state.at], lines |-> node.lines])])

GrepSearch ==
  /\ Runs("grep", "read") /\ state.at > Len(state.files) /\ state.sources # <<>>
  /\ \E source \in {Head(state.sources)} : \E result \in {searchContent(source.lines, state.opts)} :
       Becomes(IF result.matched /\ state.opts.show = "quiet" THEN Done(0)
               ELSE [state EXCEPT !.sources = Tail(@), !.matched = @ \/ result.matched,
                                  !.out = @ \o Adds(source.file, result, state.opts)])

GrepEnds ==
  /\ Runs("grep", "read") /\ state.at > Len(state.files) /\ state.sources = <<>>
  /\ Becomes(Done(IF state.failed THEN 2 ELSE Status(state.opts, state.matched, state.out)))

-----------------------------------------------------------------------------
(* rg: collect the ignore patterns, walk, then read and search file by file. *)

rgGitignoreMatch(p, pattern) == IF pattern.rooted THEN p = pattern.path ELSE Seqs!IsSuffix(pattern.path, p)
Applies(pattern, p, isDir) == (pattern.dirOnly => isDir) /\ rgGitignoreMatch(p, pattern)

\* Variant: the first pattern that applies decides.
rgIgnoredByFirst(ignores, p, isDir) ==
  Then({i \in DOMAIN ignores : Applies(ignores[i], p, isDir)}, LAMBDA hits :
    hits # {} /\ ~ignores[Sets!Min(hits)].negated)
\* The last pattern that applies decides.
rgIgnored(ignores, p, isDir) ==
  Then({i \in DOMAIN ignores : Applies(ignores[i], p, isDir)}, LAMBDA hits :
    hits # {} /\ ~ignores[Sets!Max(hits)].negated)
rgWhitelisted(ignores, p, isDir) == \E i \in DOMAIN ignores : ignores[i].negated /\ Applies(ignores[i], p, isDir)

\* The ignore files of a directory and of all below it, ignored ones too.
RgLoad ==
  /\ Runs("rg", "load") /\ state.todo # <<>>
  /\ \E item \in {Head(state.todo)} : \E node \in {NodeAt(state.tree, item.path)} :
       \E dir \in {IF node.kind = "file" THEN Seqs!Front(item.path) ELSE item.path} :
         Becomes(IF state.opts.noIgnore \/ dir \in state.seen THEN [state EXCEPT !.todo = Tail(@)]
                 ELSE [state EXCEPT
                        !.seen = @ \cup {dir},
                        !.ignores = IF Append(dir, 0) \in DOMAIN state.tree
                                    THEN @ \o state.tree[Append(dir, 0)].patterns ELSE @,
                        !.todo = Todo(SelectSeq(EntriesOf(state.tree, dir),
                                                LAMBDA q : state.tree[q].kind = "dir"), 0) \o Tail(@)])

RgLoaded ==
  /\ Runs("rg", "load") /\ state.todo = <<>>
  /\ Becomes([state EXCEPT !.phase = "walk", !.todo = Todo(RgPaths(state.opts), 0)])

\* An entry of a directory, not an operand, may be passed over.
Passed(p, isDir, depth) ==
  depth > 0 /\ \/ BaseOf(p) \in CommonNames /\ ~state.opts.noIgnore
               \/ rgIgnored(state.ignores, p, isDir)
               \/ IsHidden(BaseOf(p)) /\ ~rgWhitelisted(state.ignores, p, isDir)

RgWalk ==
  /\ Runs("rg", "walk") /\ state.todo # <<>>
  /\ \E item \in {Head(state.todo)} : \E node \in {NodeAt(state.tree, item.path)} :
       \E next \in {[state EXCEPT !.todo = Tail(@)]} :
         Becomes(
           IF node.kind = "none" \/ Passed(item.path, node.kind = "dir", item.depth) THEN next
           ELSE IF node.kind = "file"
           THEN IF rgIgnored(state.ignores, item.path, FALSE) THEN next
                ELSE [next EXCEPT !.files = Append(@, item.path)]
           ELSE IF item.depth >= GrepDepth THEN next
           ELSE [next EXCEPT !.todo = Todo(EntriesOf(state.tree, item.path), item.depth + 1) \o @])

RgWalked ==
  /\ Runs("rg", "walk") /\ state.todo = <<>>
  /\ Becomes(IF state.files = <<>> THEN Done(1) ELSE [state EXCEPT !.phase = "search"])

\* A file that is gone by now is passed over.
RgSearch ==
  /\ Runs("rg", "search") /\ state.at <= Len(state.files)
  /\ \E file \in {state.files[state.at]} : \E node \in {NodeAt(state.tree, state.files[state.at])} :
       Becomes(
         IF node.kind # "file" THEN [state EXCEPT !.at = @ + 1]
         ELSE Then(searchContent(node.lines, state.opts), LAMBDA result :
                [state EXCEPT !.at = IF result.matched /\ state.opts.show = "quiet" THEN Len(state.files) + 1 ELSE @ + 1,
                              !.matched = @ \/ result.matched,
                              !.out = @ \o Adds(file, result, state.opts)]))

RgEnds ==
  \/ /\ Runs("rg", "search") /\ state.at > Len(state.files)
     /\ Becomes(Done(Status(state.opts, state.matched, state.out)))
  \/ /\ Runs("rg", "stdin")
     /\ \E result \in {searchContent(state.opts.stdin, state.opts)} :
          Becomes([Done(IF result.matched = (state.opts.show # "without") THEN 0 ELSE 1) EXCEPT
                     !.out = IF state.opts.show \in {"quiet", "list", "without"}
                             THEN Adds(<<>>, result, state.opts) ELSE From(<<>>, result.out)])

\* Another job removes a file.
GrepOther ==
  /\ command \in {"grep", "rg"} /\ state.phase # "done" /\ state.others = 0
  /\ \E p \in DOMAIN state.tree : state.tree[p].kind = "file" /\
       Becomes([state EXCEPT !.tree = [q \in DOMAIN @ \ {p} |-> @[q]], !.others = 1])

GrepNext ==
  \/ GrepExpand \/ GrepExpanded \/ GrepRead \/ GrepSearch \/ GrepEnds
  \/ RgLoad \/ RgLoaded \/ RgWalk \/ RgWalked \/ RgSearch \/ RgEnds \/ GrepOther

-----------------------------------------------------------------------------
Steps(p, operand) == {SubSeq(p, 1, n) : n \in Len(operand) + 1 .. Len(p)}
Files(tree) == {p \in DOMAIN tree : tree[p].kind = "file"}

\* The last pattern that applies to a path, if one does.
Decides(ignores, p, isDir) ==
  {n \in DOMAIN ignores : /\ Applies(ignores[n], p, isDir)
                         /\ \A k \in n + 1 .. Len(ignores) : ~Applies(ignores[k], p, isDir)}

\* The files that a search is about, path by path: those no directory on the
\* way hides, and for rg no pattern, of which a later one has the last word.
GrepIsAbout(p, operand, opts) ==
  /\ IF opts.recursive THEN Len(p) - Len(operand) < GrepDepth ELSE p = operand
  /\ \A q \in Steps(p, operand) : ~IsHidden(BaseOf(q))
  /\ BaseOf(p) \notin opts.exclude /\ (opts.include = {} \/ BaseOf(p) \in opts.include)
  /\ \A q \in Steps(p, SubSeq(operand, 1, Len(operand) - 1)) \ {p} : BaseOf(q) \notin opts.excludeDir
RgIsAbout(p, operand, opts, ignores) ==
  /\ Len(p) - Len(operand) <= GrepDepth
  /\ \A q \in Steps(p, operand) \cup {p} : \A n \in Decides(ignores, q, q # p) : ignores[n].negated
  /\ \A q \in Steps(p, operand) :
       /\ BaseOf(q) \notin CommonNames \/ opts.noIgnore
       /\ IsHidden(BaseOf(q)) => \E n \in DOMAIN ignores : ignores[n].negated /\ Applies(ignores[n], q, q # p)
IsAbout(p, operand, opts, ignores) ==
  /\ Seqs!IsPrefix(operand, p)
  /\ IF opts.tool = "grep" THEN GrepIsAbout(p, operand, opts) ELSE RgIsAbout(p, operand, opts, ignores)

\* The patterns of all the ignore files below what is searched, or beside it.
Patterns(opts, tree) ==
  UNION {Seqs!ToSet(tree[p].patterns) :
    p \in {q \in Files(tree) : \E i \in DOMAIN opts.operands : \E operand \in {opts.operands[i]} :
             \/ Seqs!IsPrefix(operand, Seqs!Front(q))
             \/ NodeAt(tree, operand).kind = "file" /\ Seqs!IsPrefix(Seqs!Front(operand), Seqs!Front(q))}}

\* The lines around the matches in order, each once; a match is marked as one
\* unless an earlier match has had it printed. Asked for lines around them, there
\* is a gap between two lines exactly where others were left out, and asked for
\* none there is no gap.
ShowsContext(items, lines, opts) ==
  LET matching == Matching(lines, opts)
      Near(i) == \E j \in matching : j - opts.before <= i /\ i <= j + opts.after
      shown == SelectSeq(items, LAMBDA item : item # Gap)
      gaps == {n \in DOMAIN items : items[n] = Gap}
  IN  /\ [n \in DOMAIN shown |-> shown[n].line] = InOrder({i \in DOMAIN lines : Near(i)})
      /\ \A n \in DOMAIN shown : (shown[n].mark = ":") =
           (shown[n].line \in matching
              /\ ~\E j \in matching : j < shown[n].line /\ shown[n].line <= j + opts.after)
      /\ opts.before + opts.after = 0 => gaps = {}
      /\ \A n \in gaps : n > 1 /\ n < Len(items) /\ items[n + 1].line > items[n - 1].line + 1
      /\ \A n \in 2 .. Len(items) :
           items[n] # Gap /\ items[n - 1] # Gap /\ opts.before + opts.after > 0 =>
             items[n].line = items[n - 1].line + 1

\* Every file that nothing hides or ignores is searched, once for each operand
\* it is below, and no other; its lines come with their context; and the exit
\* status tells whether there was a match, or that an operand was missing. A
\* file that another job removes meanwhile may be missing, and no other.
GrepSees ==
  (Ended("grep") \/ Ended("rg")) /\ state.opts.operands # <<>> =>
    LET opts == state.opts
        about == {p \in Files(state.was) : \E i \in DOMAIN opts.operands :
                    IsAbout(p, opts.operands[i], opts, state.ignores)}
        kept == about \cap DOMAIN state.tree
        Matched(p) == Matching(state.was[p].lines, opts) # {}
        Wanted(p) == Matched(p) = (opts.show = "list")
        Items(p) == [n \in DOMAIN SelectSeq(state.out, LAMBDA o : o.file = p) |->
                       SelectSeq(state.out, LAMBDA o : o.file = p)[n].item]
        named == {state.out[n].file : n \in DOMAIN state.out}
        absent == opts.tool = "grep" /\ \E i \in DOMAIN opts.operands : opts.operands[i] \notin DOMAIN state.was
        found == \E p \in about : Matched(p) = (opts.show # "without")
    IN  /\ named \subseteq about
        /\ state.others = 0 =>
             /\ state.code = IF absent /\ ~(opts.show = "quiet" /\ found) THEN 2 ELSE IF found THEN 0 ELSE 1
             /\ opts.tool = "rg" /\ ~opts.noIgnore => Seqs!ToSet(state.ignores) = Patterns(opts, state.was)
        /\ opts.show \in {"list", "without"} =>
             {p \in kept : Wanted(p)} \subseteq named /\ \A p \in named : Wanted(p)
        /\ opts.show = "lines" /\ Len(opts.operands) = 1 =>
             \A p \in kept : ShowsContext(Items(p), state.was[p].lines, opts)
        /\ opts.show = "count" /\ Len(opts.operands) = 1 =>
             \A p \in kept : opts.tool = "grep" \/ Matched(p) =>
               Items(p) = <<Item(Cardinality(Matching(state.was[p].lines, opts)), "#")>>
=============================================================================
