-------------------------------- MODULE Sed --------------------------------
(* sed (src/internal/commands/text/sed.go): the cycle over the lines, the    *)
(* commands and groups of a script, branches, address ranges and their       *)
(* state, the queues printed at the end of a cycle, and -i over files. A     *)
(* line is a symbol, a regular expression is the symbol it looks for, the    *)
(* pattern and hold spaces are the sequences of lines in them.               *)
EXTENDS CommandRun

CONSTANTS
  SedScripts,      \* sequences of commands
  SedInputs,       \* sequences of files, each its lines, or Missing
  MaxIterations    \* commands and restarts in one cycle: 10000 in the source

Blank == ""
Missing == <<"missing">>
Empty == <<Blank>>
NoRange == [active |-> FALSE, completed |-> FALSE, startLine |-> 0]

Frame(commands) == [commands |-> commands, i |-> 1, iterations |-> 0]

SedStartStates ==
  {[phase |-> "file", files |-> files, f |-> 1, script |-> script, silent |-> silent,
    inPlace |-> inPlace, lines |-> <<>>, lineIndex |-> 0, consumed |-> 0, pattern |-> Empty,
    hold |-> Empty, deleted |-> FALSE, quit |-> FALSE, quitSilent |-> FALSE, changed |-> <<>>,
    appends |-> <<>>, inserts |-> <<>>, numbers |-> <<>>, nexts |-> <<>>, subst |-> FALSE,
    restart |-> FALSE, restarts |-> 0, ranges |-> <<>>, label |-> "", frames |-> <<>>,
    output |-> <<>>, stdout |-> <<>>, code |-> 0] :
     files \in SedInputs, script \in SedScripts, silent \in BOOLEAN, inPlace \in BOOLEAN}

LineNumber(s) == s.lineIndex + s.consumed
TotalLines(s) == Len(s.lines)

-----------------------------------------------------------------------------
(* Addresses.                                                                *)

sedMatchesAddress(a, s) ==
  CASE a.kind = "line"  -> LineNumber(s) = a.line
    [] a.kind = "last"  -> LineNumber(s) = TotalLines(s)
    [] a.kind = "step"  -> IF a.step = 0 THEN LineNumber(s) = a.line
                           ELSE LineNumber(s) >= a.line /\ (LineNumber(s) - a.line) % a.step = 0
    [] a.kind = "regex" -> \E i \in DOMAIN s.pattern : s.pattern[i] = a.pattern
    [] OTHER            -> FALSE

sedAddressLineNumber(a, s) ==
  IF a.kind = "last" THEN TotalLines(s) ELSE IF a.kind = "line" THEN a.line ELSE 1

\* Ranges with the same text share one state.
Key(r) == [start |-> r.start, end |-> r.end]
RangeOf(r, s) == IF Key(r) \in DOMAIN s.ranges THEN s.ranges[Key(r)] ELSE NoRange

\* What a range answers for the current line, and the state it is left in.
Answer(selected, range) == [selected |-> selected, range |-> range]

\* Forgets to close.
NeverClosing(r, s, range) == [range EXCEPT !.active = TRUE]

\* Ends at the first line that matches, the opening one included.
Closing(r, s, range) ==
  IF sedMatchesAddress(r.end, s)
  THEN [range EXCEPT !.active = FALSE, !.completed = (r.start.kind = "line")]
  ELSE [range EXCEPT !.active = TRUE]

OffsetRange(r, s, range) ==
  IF range.active
  THEN Answer(TRUE, [range EXCEPT !.active = LineNumber(s) < range.startLine + r.end.offset])
  ELSE IF sedMatchesAddress(r.start, s)
  THEN Answer(TRUE, [range EXCEPT !.active = r.end.offset # 0, !.startLine = LineNumber(s)])
  ELSE Answer(FALSE, range)

NumberRange(r, s, range) ==
  LET first == sedAddressLineNumber(r.start, s)
      last == sedAddressLineNumber(r.end, s)
      opens == ~range.completed /\ LineNumber(s) >= first
  IN  IF first <= last THEN Answer(LineNumber(s) \in first .. last, range)
      ELSE Answer(opens, [range EXCEPT !.completed = @ \/ opens])

RegexRange(r, s, range) ==
  LET opens == IF r.start.kind = "line" THEN LineNumber(s) >= r.start.line
               ELSE sedMatchesAddress(r.start, s)
  IN  IF range.active \/ (~range.completed /\ opens)
      THEN Answer(TRUE, Closing(r, s, range)) ELSE Answer(FALSE, range)

sedInRangeInternal(r, s) ==
  LET range == RangeOf(r, s) IN
  IF r.start.kind = "none" THEN Answer(TRUE, range)
  ELSE IF r.end.kind = "none" THEN Answer(sedMatchesAddress(r.start, s), range)
  ELSE IF r.end.kind = "offset" THEN OffsetRange(r, s, range)
  ELSE IF r.start.kind # "regex" /\ r.end.kind # "regex" THEN NumberRange(r, s, range)
  ELSE RegexRange(r, s, range)

\* sedInRange(r, s).selected, and s with what evaluating the address changed.
sedInRange(r, s) ==
  LET a == sedInRangeInternal(r, s)
      key == Key(r)
  IN  [selected |-> a.selected # r.negated,
       s |-> IF r.end.kind = "none" THEN s
             ELSE [s EXCEPT !.ranges =
                     [k \in DOMAIN @ \cup {key} |-> IF k = key THEN a.range ELSE @[k]]]]

-----------------------------------------------------------------------------
(* The commands that only edit: executeSedCommand and executeSedSubstitute.  *)

\* The first occurrence, or with g all of them; either way t remembers it.
executeSedSubstitute(c, s) ==
  LET matches == {i \in DOMAIN s.pattern : s.pattern[i] = c.from}
      replaced == IF c.global THEN matches ELSE {i \in matches : \A j \in matches : i <= j}
      new == [i \in DOMAIN s.pattern |-> IF i \in replaced THEN c.to ELSE s.pattern[i]]
  IN  IF matches = {} THEN s
      ELSE [s EXCEPT !.subst = TRUE, !.pattern = new,
                     !.numbers = IF c.print THEN @ \o new ELSE @]

executeSedCommand(c, s) ==
  CASE c.do = "s" -> executeSedSubstitute(c, s)
    [] c.do = "p" -> [s EXCEPT !.numbers = @ \o s.pattern]
    [] c.do = "P" -> [s EXCEPT !.numbers = Append(@, Head(s.pattern))]
    [] c.do = "=" -> [s EXCEPT !.numbers = Append(@, LineNumber(s))]
    [] c.do = "d" -> [s EXCEPT !.deleted = TRUE]
    [] c.do = "D" -> IF Len(s.pattern) > 1
                     THEN [s EXCEPT !.pattern = Tail(@), !.restart = TRUE]
                     ELSE [s EXCEPT !.deleted = TRUE]
    [] c.do = "z" -> [s EXCEPT !.pattern = Empty]
    [] c.do = "a" -> [s EXCEPT !.appends = Append(@, c.text)]
    [] c.do = "i" -> [s EXCEPT !.inserts = <<c.text>> \o @]
    [] c.do = "c" -> [s EXCEPT !.deleted = TRUE, !.changed = <<c.text>>]
    [] c.do = "h" -> [s EXCEPT !.hold = s.pattern]
    [] c.do = "H" -> [s EXCEPT !.hold = IF @ = Empty THEN s.pattern ELSE @ \o s.pattern]
    [] c.do = "g" -> [s EXCEPT !.pattern = s.hold]
    [] c.do = "G" -> [s EXCEPT !.pattern = @ \o s.hold]
    [] c.do = "x" -> [s EXCEPT !.pattern = s.hold, !.hold = s.pattern]
    [] c.do = "q" -> [s EXCEPT !.quit = TRUE]
    [] c.do = "Q" -> [s EXCEPT !.quit = TRUE, !.quitSilent = TRUE]
    [] OTHER      -> s

-----------------------------------------------------------------------------
(* The commands that move: executeSedCommands, one command a step. frames is *)
(* the nest of groups being executed, innermost last.                        *)

Current(s) == s.frames[Len(s.frames)]
Labels(commands) == {i \in DOMAIN commands : commands[i].do = ":"}
Target(commands, label) == {i \in Labels(commands) : commands[i].label = label}

At(s, i) == [s EXCEPT !.frames[Len(s.frames)].i = i]
Advance(s) == At(s, Current(s).i + 1)
Left(s) == [s EXCEPT !.frames = SubSeq(@, 1, Len(@) - 1)]

HasNext(s) == LineNumber(s) < TotalLines(s)

\* n prints and replaces the pattern space, at the end of the input it only
\* prints; N joins, at the end of the input it prints and stops.
Next_n(s) ==
  LET printed == [s EXCEPT !.nexts = @ \o s.pattern] IN
  IF HasNext(s)
  THEN Advance([printed EXCEPT !.consumed = @ + 1, !.pattern = <<s.lines[LineNumber(s) + 1]>>,
                               !.subst = FALSE])
  ELSE [printed EXCEPT !.quit = TRUE, !.deleted = TRUE]

NextAppend(s) ==
  IF HasNext(s)
  THEN Advance([s EXCEPT !.consumed = @ + 1, !.pattern = Append(@, s.lines[LineNumber(s) + 1])])
  ELSE [s EXCEPT !.quit = TRUE]

Taken(c, s) ==
  CASE c.do = "b" -> TRUE [] c.do = "t" -> s.subst [] c.do = "T" -> ~s.subst

\* A branch with no label, or to a label of an enclosing group, does not move
\* on: the command is executed again until the iterations run out, or, for t,
\* until it finds its flag cleared and falls through.
Branch(c, s) ==
  IF ~Taken(c, s) THEN Advance(s)
  ELSE LET cleared == IF c.do = "t" THEN [s EXCEPT !.subst = FALSE] ELSE s
           target == Target(Current(s).commands, c.label)
       IN  IF c.label = "" THEN cleared
           ELSE IF target # {} THEN At(cleared, Sets!Max(target))
           ELSE [cleared EXCEPT !.label = c.label]

\* A group is over: the branch it asked for is taken here if the label is here.
AfterGroup(s) ==
  LET out == Left(s)
      target == Target(Current(out).commands, s.label)
  IN  IF s.label = "" THEN Advance(out)
      ELSE IF target # {} THEN At([out EXCEPT !.label = ""], Sets!Max(target))
      ELSE out

Stopped(s) ==
  \/ Current(s).iterations >= MaxIterations
  \/ s.deleted \/ s.quit \/ s.quitSilent \/ s.restart
  \/ Current(s).i > Len(Current(s).commands)

Counted(s) == [s EXCEPT !.frames[Len(s.frames)].iterations = @ + 1]

executeSedCommands(s) ==
  IF Stopped(s) THEN AfterGroup(s)
  ELSE LET c == Current(s).commands[Current(s).i]
           in == sedInRange(c.address, Counted(s))
       IN  IF c.do = ":" THEN Advance(Counted(s))
           ELSE IF ~in.selected THEN Advance(in.s)
           ELSE CASE c.do = "n" -> Next_n(in.s)
                  [] c.do = "N" -> NextAppend(in.s)
                  [] c.do \in {"b", "t", "T"} -> Branch(c, in.s)
                  [] c.do = "{" -> [in.s EXCEPT !.frames = Append(@, Frame(c.commands))]
                  [] OTHER -> Advance(executeSedCommand(c, in.s))

-----------------------------------------------------------------------------
(* The cycle: processSedContent, and commandSed around it.                   *)

\* A file that is not there ends the run: at once without -i, with -i when its
\* turn comes, after the files before it have been rewritten.
Unreadable ==
  IF state.inPlace THEN state.files[state.f] = Missing
  ELSE \E f \in DOMAIN state.files : state.files[f] = Missing

SedUnreadable ==
  /\ Runs("sed", "file") /\ Unreadable
  /\ Becomes(Done(1))

\* Without -i the files are one input.
SedOpen ==
  /\ Runs("sed", "file") /\ ~Unreadable
  /\ LET content == IF state.inPlace THEN state.files[state.f] ELSE Seqs!FlattenSeq(state.files)
     IN  Becomes([state EXCEPT !.phase = "cycle", !.lines = content, !.lineIndex = 0,
                    !.consumed = 0, !.hold = Empty, !.ranges = <<>>, !.output = <<>>])

SedCycle ==
  /\ Runs("sed", "cycle") /\ LineNumber(state) < TotalLines(state)
  /\ Becomes([state EXCEPT
       !.phase = "run", !.lineIndex = LineNumber(state) + 1, !.consumed = 0,
       !.pattern = <<state.lines[LineNumber(state) + 1]>>, !.deleted = FALSE, !.quit = FALSE,
       !.quitSilent = FALSE, !.changed = <<>>, !.appends = <<>>, !.inserts = <<>>,
       !.numbers = <<>>, !.nexts = <<>>, !.subst = FALSE, !.restart = FALSE, !.restarts = 1,
       !.label = "", !.frames = <<Frame(state.script)>>])

SedCommand ==
  /\ Runs("sed", "run") /\ ~(Len(state.frames) = 1 /\ Stopped(state))
  /\ Becomes(executeSedCommands(state))

\* D starts the script again on what is left, without a new line.
Restarts(s) ==
  s.restart /\ ~s.deleted /\ ~s.quit /\ ~s.quitSilent /\ s.restarts < MaxIterations

SedRestart ==
  /\ Runs("sed", "run") /\ Len(state.frames) = 1 /\ Stopped(state) /\ Restarts(state)
  /\ Becomes([state EXCEPT !.restart = FALSE, !.restarts = @ + 1, !.frames = <<Frame(state.script)>>])

PatternOutput(s) ==
  IF s.deleted \/ s.quitSilent THEN s.changed ELSE IF s.silent THEN <<>> ELSE s.pattern

\* What the end of a cycle prints, in this order whatever order its commands
\* came in.
CycleOutput(s) ==
  (IF s.silent THEN <<>> ELSE s.nexts) \o s.numbers \o s.inserts \o PatternOutput(s) \o s.appends

SedEndCycle ==
  /\ Runs("sed", "run") /\ Len(state.frames) = 1 /\ Stopped(state) /\ ~Restarts(state)
  /\ Becomes([state EXCEPT
       !.output = @ \o CycleOutput(state),
       !.phase = IF state.quit \/ state.quitSilent THEN "close" ELSE "cycle"])

\* All lines read, or q.
SedInputEnds ==
  /\ Runs("sed", "cycle") /\ LineNumber(state) >= TotalLines(state)
  /\ Becomes([state EXCEPT !.phase = "close"])

SedClose ==
  /\ Runs("sed", "close")
  /\ Becomes(IF ~state.inPlace THEN [Done(0) EXCEPT !.stdout = state.output]
             ELSE LET written == [state EXCEPT !.files[state.f] = state.output, !.f = @ + 1]
                  IN  IF state.f = Len(state.files) THEN [written EXCEPT !.phase = "done"]
                      ELSE [written EXCEPT !.phase = "file"])

SedNext ==
  SedOpen \/ SedUnreadable \/ SedCycle \/ SedCommand \/ SedRestart \/ SedEndCycle \/ SedInputEnds \/ SedClose

-----------------------------------------------------------------------------
RECURSIVE Commands(_)
Commands(script) ==
  UNION {IF script[i].do = "{" THEN Commands(script[i].commands) ELSE {script[i].do} :
           i \in DOMAIN script}

\* Moves through the input and changes nothing.
Moving(script) == Commands(script) \subseteq {":", "n", "N", "b", "t", "T"}

Dos(script) == [i \in DOMAIN script |-> script[i].do]
Odd(lines) == [i \in 1 .. ((Len(lines) + 1) \div 2) |-> lines[2 * i - 1]]

\* The lines a range selects, said without a state: the range is open at a line
\* if it was opened there or before and no line from the opening one up to the
\* one before it closed it.
Selects(r, lines, k) ==
  LET at == [lines |-> lines, lineIndex |-> 0, consumed |-> 0, pattern |-> Empty]
      matches(a, j) == sedMatchesAddress(a, [at EXCEPT !.lineIndex = j, !.pattern = <<lines[j]>>])
      opens(j) == IF r.start.kind = "line" THEN j >= r.start.line ELSE matches(r.start, j)
  IN  r.negated #
        (\/ r.end.kind = "none" /\ matches(r.start, k)
         \/ /\ r.end.kind = "regex"
            /\ \E o \in 1 .. k : /\ IF r.start.kind = "line"
                                   THEN o = Smaller(r.start.line, Len(lines) + 1) ELSE opens(o)
                                /\ \A j \in o .. k - 1 : ~matches(r.end, j))

\* Scripts whose output is known without running them, over every input: those
\* that only move print each line exactly once and in order, whatever n, N, a
\* branch or a group does to the cycle; $!N;P;D and the plain p of an address
\* range keep, respectively select, the same lines a reader would; n;d keeps
\* the odd lines and 1!G;h;$!d turns the input around (sed.go:793-891, 904-1004,
\* 1243-1295).
SedIdioms ==
  command = "sed" /\ state.phase = "done" /\ ~state.inPlace /\ state.code = 0 =>
    LET lines == state.lines
        script == state.script
    IN  /\ ~state.silent /\ (Moving(script) \/ Dos(script) = <<"N", "P", "D">>) => state.stdout = lines
        /\ ~state.silent /\ Dos(script) = <<"n", "d">> => state.stdout = Odd(lines)
        /\ ~state.silent /\ Dos(script) = <<"G", "h", "d">> => state.stdout = Seqs!Reverse(lines)
        /\ state.silent /\ Dos(script) = <<"p">> /\ script[1].address.end.kind \in {"none", "regex"} =>
             state.stdout = Seqs!FlattenSeq([k \in DOMAIN lines |->
               IF Selects(script[1].address, lines, k) THEN <<lines[k]>> ELSE <<>>])
=============================================================================
