-------------------------------- MODULE Awk --------------------------------
(* awk (src/internal/commands/text/awk.go): the records of the files one     *)
(* after the other, shared by the main loop and getline, the rules and their *)
(* ranges, and the machine that runs actions, with its fields, arrays, calls *)
(* and limits. A text is a sequence of symbols: digits (numbers below 100),  *)
(* letters (from 100) and separators; only a single digit is a number.       *)
EXTENDS CommandRun

CONSTANTS
  AwkPrograms,     \* programs, and the text they are known by
  AwkInputs,       \* sequences of files, each a sequence of records
  AwkSeparators,   \* values of -F
  MaxLoop,         \* awkMaxLoopIterations
  MaxDepth         \* awkMaxCallDepth

Comma == -1001
Space == -1002
isDigit(x) == x \in 0 .. 99
Trim(s) == Seqs!SelectSeq(s, LAMBDA x : x # Space)
ParseFloat(s) == IF Len(s) = 1 /\ isDigit(s[1]) THEN [ok |-> TRUE, num |-> s[1]] ELSE [ok |-> FALSE, num |-> 0]

\* A value, with what it is as a text and as a number: a text that is no number
\* counts as 0, and as false.
Value(s, parsed) == [str |-> s, num |-> parsed.num, numeric |-> parsed.ok]
Num(n) == [str |-> <<n>>, num |-> n, numeric |-> TRUE]
Str(s) == Value(s, ParseFloat(Trim(s)))
Unset == Num(0)
boolNum(b) == Num(IF b THEN 1 ELSE 0)
Bool(v) == v.num # 0

TextBefore(s, t) ==
  \E n \in 0 .. Smaller(Len(s), Len(t) - 1) :
    /\ SubSeq(s, 1, n) = SubSeq(t, 1, n)
    /\ n = Len(s) \/ s[n + 1] < t[n + 1]
LessValue(a, b) == IF a.numeric /\ b.numeric THEN a.num < b.num ELSE TextBefore(a.str, b.str)
SameValue(a, b) == IF a.numeric /\ b.numeric THEN a.num = b.num ELSE a.str = b.str

\* The pieces between separators; a blank separator takes runs of them.
Cut(s, sep) ==
  LET ends == {i \in 1 .. Len(s) + 1 : i = Len(s) + 1 \/ s[i] = sep}
      Starts(e) == Sets!Max({i \in ends : i < e} \cup {0}) + 1
      order == Seqs!SetToSortSeq(ends, LAMBDA a, b : a < b)
  IN [i \in DOMAIN order |-> SubSeq(s, Starts(order[i]), order[i] - 1)]
Split(s, sep) == IF sep = Space THEN Seqs!SelectSeq(Cut(s, sep), LAMBDA p : p # <<>>) ELSE Cut(s, sep)
Join(fields, sep) ==
  LET J[i \in 0 .. Len(fields)] ==
        IF i = 0 THEN <<>> ELSE IF i = 1 THEN fields[1] ELSE J[i - 1] \o <<sep>> \o fields[i]
  IN J[Len(fields)]

-----------------------------------------------------------------------------
Get(f, x, default) == IF x \in DOMAIN f THEN f[x] ELSE default
Put(f, x, v) == [y \in DOMAIN f \cup {x} |-> IF y = x THEN v ELSE f[y]]
NoEntries == [x \in {} |-> Unset]

getVar(vm, name) == IF name \in DOMAIN vm.locals THEN vm.locals[name] ELSE Get(vm.globals, name, Unset)
setVar(vm, name, v) == [vm EXCEPT !.globals = Put(@, name, v)]
setVarScoped(vm, name, v) ==
  IF name \in DOMAIN vm.locals \/ (vm.depth > 0 /\ name = "return")
  THEN [vm EXCEPT !.locals = Put(@, name, v)] ELSE setVar(vm, name, v)

\* Fields are cut again, NF follows.
WithFields(vm, fields) == setVar([vm EXCEPT !.fields = fields], "NF", Num(Len(fields)))
splitFields(vm) == WithFields(vm, Split(vm.record, vm.FS))

\* Leaves the record as it was.
setFieldAlone(vm, n, s) ==
  WithFields(vm, [i \in 1 .. Larger(Len(vm.fields), n) |->
                    IF i = n THEN s ELSE IF i <= Len(vm.fields) THEN vm.fields[i] ELSE <<>>])

setField(vm, n, s) ==
  LET set == setFieldAlone(vm, n, s) IN [set EXCEPT !.record = Join(set.fields, Space)]

(* The next record of the files, for the main loop and for getline: the      *)
(* counters move, the record and its fields change, even when the main loop  *)
(* still has rules to try on the old one. read remembers what was read.      *)
setRecord(vm, record) ==
  LET counted == setVar(setVar(vm, "NR", Num(Get(vm.globals, "NR", Unset).num + 1)),
                        "FNR", Num(Get(vm.globals, "FNR", Unset).num + 1))
  IN splitFields([counted EXCEPT !.record = record, !.read = Append(@, record)])

nextFile(vm) == setVar([vm EXCEPT !.fileIdx = @ + 1, !.lineIdx = 1], "FNR", Num(0))

RECURSIVE nextRecord(_)
nextRecord(vm) ==
  IF vm.fileIdx > Len(vm.files) THEN [vm |-> vm, ok |-> FALSE]
  ELSE IF vm.lineIdx <= Len(vm.files[vm.fileIdx])
  THEN [vm |-> [setRecord(vm, vm.files[vm.fileIdx][vm.lineIdx]) EXCEPT !.lineIdx = @ + 1], ok |-> TRUE]
  ELSE nextRecord(nextFile(vm))

skipCurrentFile(vm) ==
  IF vm.fileIdx > Len(vm.files) THEN vm
  ELSE [nextFile(vm) EXCEPT !.skipped = @ + Len(vm.files[vm.fileIdx]) - vm.lineIdx + 1]

-----------------------------------------------------------------------------
Gives(vm, v) == [vm |-> vm, val |-> v]
Signal(vm, sig) == [vm |-> vm, sig |-> sig]

\* Operators on two values; a text holds a pattern when the symbol is in it.
Apply(op, a, b) ==
  CASE op = "concat" -> Str(a.str \o b.str)
    [] op = "+"  -> Num(a.num + b.num)
    [] op = "-"  -> Num(a.num - b.num)
    [] op = "==" -> boolNum(SameValue(a, b))
    [] op = "<"  -> boolNum(LessValue(a, b))
    [] op = "~"  -> boolNum(\E x \in Seqs!ToSet(b.str) : x \in Seqs!ToSet(a.str))

\* Expressions, statements and loops call each other: perform takes one of them
\* a step further, and Perform is the way back into it.
RECURSIVE perform(_, _, _)
Perform(what, vm, x) == perform(what, vm, x)
eval(vm, e) == Perform("eval", vm, e)
evalAll(vm, exprs) == Perform("evalAll", vm, exprs)
execStmts(vm, stmts) == Perform("exec", vm, stmts)

assign(vm, left, v) ==
  IF left.op = "var" THEN setVarScoped(vm, left.name, v)
  ELSE Then(eval(vm, left.index), LAMBDA i :
         IF left.op = "elem"
         THEN [i.vm EXCEPT !.arrays = Put(@, left.name, Put(Get(@, left.name, NoEntries), i.val.str, v))]
         ELSE IF i.val.num = 0 THEN splitFields([i.vm EXCEPT !.record = v.str])
         ELSE IF i.val.num > 0 THEN setField(i.vm, i.val.num, v.str)
         ELSE i.vm)

getline(vm, into) ==
  Then(nextRecord(vm), LAMBDA r :
    IF ~r.ok THEN Gives(r.vm, Num(0))
    ELSE Gives(IF into = <<>> THEN r.vm ELSE assign(r.vm, into[1], Str(r.vm.record)), Num(1)))

\* Too deep a call gives nothing and says nothing; next, nextfile and an error
\* in a body end the body only.
Bound(params, args) ==
  [p \in Seqs!ToSet(params) |->
     LET i == CHOOSE i \in DOMAIN params : params[i] = p IN IF i <= Len(args) THEN args[i] ELSE Unset]
callUser(vm, fn, args) ==
  IF vm.depth > MaxDepth THEN Gives(vm, Unset)
  ELSE Then(execStmts([vm EXCEPT !.depth = @ + 1, !.locals = Bound(fn.params, args)], fn.body), LAMBDA body :
         Gives([body.vm EXCEPT !.depth = vm.depth, !.locals = vm.locals],
               IF body.sig = "return" THEN Get(body.vm.locals, "return", Unset) ELSE Unset))

builtinSplit(vm, name, args) ==
  Then(Split(args[1].str, IF Len(args) > 2 THEN args[3].str[1] ELSE vm.FS), LAMBDA parts :
    Gives([vm EXCEPT !.arrays = Put(@, name, [k \in {<<i>> : i \in DOMAIN parts} |-> Str(parts[k[1]])])],
          Num(Len(parts))))

\* sub replaces the first match, gsub every one.
Hits(name, text, x) ==
  LET hits == {i \in DOMAIN text : text[i] = x}
  IN IF name = "sub" /\ hits # {} THEN {Sets!Min(hits)} ELSE hits
Replaced(text, hits, by) ==
  Seqs!FlattenSeq([i \in DOMAIN text |-> IF i \in hits THEN by ELSE <<text[i]>>])
builtinSub(vm, e, args) ==
  LET target == IF Len(e.args) > 2 THEN e.args[3] ELSE [op |-> "field", index |-> [op |-> "lit", val |-> Num(0)]]
  IN Then(eval(vm, target), LAMBDA text :
       Then(Hits(e.name, text.val.str, args[1].str[1]), LAMBDA hits :
         Gives(assign(text.vm, target, Str(Replaced(text.val.str, hits, args[2].str))), Num(Cardinality(hits)))))

\* The arguments are evaluated first, the variable of getline and split too. A
\* function nobody knows is remembered as the error of the run, which goes on.
call(vm, e) ==
  Then(evalAll(vm, e.args), LAMBDA a :
    CASE e.name = "getline" -> getline(a.vm, e.args)
      [] e.name = "length"  -> Gives(a.vm, Num(Len(IF a.vals = <<>> THEN a.vm.record ELSE a.vals[1].str)))
      [] e.name = "split"   -> IF Len(e.args) < 2 \/ e.args[2].op # "var" THEN Gives(a.vm, Num(0))
                               ELSE builtinSplit(a.vm, e.args[2].name, a.vals)
      [] e.name \in {"sub", "gsub"} -> builtinSub(a.vm, e, a.vals)
      [] e.name \in DOMAIN vm.funcs -> callUser(a.vm, vm.funcs[e.name], a.vals)
      [] OTHER -> Gives([a.vm EXCEPT !.runtimeErr = TRUE], Unset))

EvalAll(vm, exprs) ==
  IF exprs = <<>> THEN [vm |-> vm, vals |-> <<>>]
  ELSE Then(eval(vm, exprs[1]), LAMBDA first :
         Then(evalAll(first.vm, Tail(exprs)), LAMBDA rest :
           [vm |-> rest.vm, vals |-> <<first.val>> \o rest.vals]))

\* ++ and --, before or after the variable.
Step(vm, e) ==
  Then(eval(vm, e.expr), LAMBDA old :
    Gives(assign(old.vm, e.expr, Num(old.val.num + e.by)),
          IF e.op = "post" THEN old.val ELSE Num(old.val.num + e.by)))

\* && and ||: the right side is evaluated unless the left one decides.
evalLogical(vm, e) ==
  Then(eval(vm, e.left), LAMBDA l :
    IF Bool(l.val) = (e.op = "||") THEN Gives(l.vm, boolNum(e.op = "||"))
    ELSE Then(eval(l.vm, e.right), LAMBDA r : Gives(r.vm, boolNum(Bool(r.val)))))

\* = and +=: the value first, then what is in the variable.
evalAssign(vm, e) ==
  Then(eval(vm, e.right), LAMBDA r :
    IF e.op = "=" THEN Gives(assign(r.vm, e.left, r.val), r.val)
    ELSE Then(eval(r.vm, e.left), LAMBDA l :
           Gives(assign(l.vm, e.left, Num(l.val.num + r.val.num)), Num(l.val.num + r.val.num))))

FieldOf(vm, n) ==
  Str(IF n = 0 THEN vm.record ELSE IF n \in DOMAIN vm.fields THEN vm.fields[n] ELSE <<>>)

Eval(vm, e) ==
  CASE e.op = "lit"   -> Gives(vm, e.val)
    [] e.op = "var"   -> Gives(vm, getVar(vm, e.name))
    [] e.op = "regex" -> Gives(vm, boolNum(e.pattern \in Seqs!ToSet(vm.record)))
    [] e.op = "call"  -> call(vm, e)
    [] e.op = "elem"  -> Then(eval(vm, e.index), LAMBDA i :
                           Gives(i.vm, Get(Get(i.vm.arrays, e.name, NoEntries), i.val.str, Unset)))
    [] e.op = "in"    -> Then(eval(vm, e.left), LAMBDA i :
                           Gives(i.vm, boolNum(i.val.str \in DOMAIN Get(i.vm.arrays, e.right.name, NoEntries))))
    [] e.op = "field" -> Then(eval(vm, e.index), LAMBDA i : Gives(i.vm, FieldOf(i.vm, i.val.num)))
    [] e.op = "!"     -> Then(eval(vm, e.expr), LAMBDA x : Gives(x.vm, boolNum(~Bool(x.val))))
    [] e.op = "?"     -> Then(eval(vm, e.cond), LAMBDA c : eval(c.vm, IF Bool(c.val) THEN e.yes ELSE e.no))
    [] e.op \in {"pre", "post"} -> Step(vm, e)
    [] e.op \in {"=", "+="}     -> evalAssign(vm, e)
    [] e.op \in {"&&", "||"}    -> evalLogical(vm, e)
    [] OTHER -> Then(evalAll(vm, <<e.left, e.right>>), LAMBDA both :
                  Gives(both.vm, Apply(e.op, both.vals[1], both.vals[2])))

execPrint(vm, s) ==
  Then(evalAll(vm, s.exprs), LAMBDA p :
    [p.vm EXCEPT !.stdout = Append(@, IF p.vals = <<>> THEN p.vm.record
                                      ELSE Join([i \in DOMAIN p.vals |-> p.vals[i].str], Space))])

\* A loop counts its rounds: for checks before its condition, while after it.
Loop(vm, s, i) ==
  IF s.do = "for" /\ i > MaxLoop THEN Signal(vm, "error")
  ELSE Then(eval(vm, s.cond), LAMBDA c :
         IF ~Bool(c.val) THEN Signal(c.vm, "")
         ELSE IF i > MaxLoop THEN Signal(c.vm, "error")
         ELSE Then(execStmts(c.vm, s.body), LAMBDA body :
                IF body.sig # "" THEN body
                ELSE Perform("loop", IF s.do = "for" THEN eval(body.vm, s.post).vm ELSE body.vm, <<s, i + 1>>)))

\* The keys the array had when the loop began.
ForIn(vm, s, keys) ==
  IF keys = <<>> THEN Signal(vm, "")
  ELSE Then(execStmts(setVarScoped(vm, s.name, Str(keys[1])), s.body), LAMBDA body :
         IF body.sig # "" THEN body ELSE Perform("forIn", body.vm, <<s, Tail(keys)>>))

Fewer(entries, k) == [x \in DOMAIN entries \ {k} |-> entries[x]]

execStmt(vm, s) ==
  CASE s.do = "print" -> Signal(execPrint(vm, s), "")
    [] s.do = "expr"  -> Signal(eval(vm, s.expr).vm, "")
    [] s.do = "if"    -> Then(eval(vm, s.cond), LAMBDA c : execStmts(c.vm, IF Bool(c.val) THEN s.yes ELSE s.no))
    [] s.do = "while" -> Perform("loop", vm, <<s, 0>>)
    [] s.do = "for"   -> Perform("loop", eval(vm, s.init).vm, <<s, 0>>)
    [] s.do = "forin" ->
         Perform("forIn", vm, <<s, Seqs!SetToSortSeq(DOMAIN Get(vm.arrays, s.array, NoEntries),
                                                     LAMBDA a, b : TextBefore(a, b))>>)
    [] s.do = "delete" ->
         Then(eval(vm, s.index), LAMBDA i :
           Signal([i.vm EXCEPT !.arrays = Put(@, s.array, Fewer(Get(@, s.array, NoEntries), i.val.str))], ""))
    [] s.do = "deleteAll" -> Signal([vm EXCEPT !.arrays = Put(@, s.array, NoEntries)], "")
    [] s.do = "return" ->
         Then(eval(vm, s.expr), LAMBDA r : Signal(setVarScoped(r.vm, "return", r.val), "return"))
    [] OTHER -> Signal(vm, s.do)

ExecStmts(vm, stmts) ==
  IF stmts = <<>> THEN Signal(vm, "")
  ELSE Then(execStmt(vm, stmts[1]), LAMBDA r :
         IF r.sig # "" THEN r ELSE execStmts(r.vm, Tail(stmts)))

perform(what, vm, x) ==
  CASE what = "eval"    -> Eval(vm, x)
    [] what = "evalAll" -> EvalAll(vm, x)
    [] what = "exec"    -> ExecStmts(vm, x)
    [] what = "loop"    -> Loop(vm, x[1], x[2])
    [] what = "forIn"   -> ForIn(vm, x[1], x[2])

-----------------------------------------------------------------------------
newAwkVM(files, sep, funcs) ==
  [files |-> files, fileIdx |-> 1, lineIdx |-> 1, FS |-> sep, funcs |-> funcs, record |-> <<>>,
   fields |-> <<>>, globals |-> NoEntries, locals |-> NoEntries, arrays |-> [x \in {} |-> NoEntries],
   depth |-> 0, runtimeErr |-> FALSE, read |-> <<>>, skipped |-> 0, stdout |-> <<>>]

\* rule.pattern is what was written before the action: nothing, a condition, or
\* the two ends of a range.
AwkStarts ==
  {[phase |-> "load", program |-> program, vm |-> newAwkVM(files, sep, program.funcs),
    inRange |-> [r \in DOMAIN program.rules |-> FALSE], code |-> 0] :
     program \in AwkPrograms, files \in AwkInputs, sep \in AwkSeparators}

\* All inputs are read before the program starts; one that is missing ends it.
AwkLoad ==
  /\ Runs("awk", "load")
  /\ \E missing \in BOOLEAN : Becomes(IF missing THEN Done(1) ELSE [state EXCEPT !.phase = "begin"])

\* The actions of the BEGIN or END rules, in order; next and return end one of them.
RECURSIVE execRules(_, _, _)
execRules(vm, rules, kind) ==
  IF rules = <<>> THEN Signal(vm, "")
  ELSE IF rules[1].kind # kind THEN execRules(vm, Tail(rules), kind)
  ELSE LET r == execStmts(vm, rules[1].action)
       IN IF r.sig = "error" THEN r ELSE execRules(r.vm, Tail(rules), kind)

AwkBegin ==
  /\ Runs("awk", "begin")
  /\ \E r \in {execRules(state.vm, state.program.rules, "begin")} :
       Becomes([IF r.sig = "error" THEN Done(1) ELSE [state EXCEPT !.phase = "main"] EXCEPT !.vm = r.vm])

Matched(vm, match, inRange) == [vm |-> vm, match |-> match, inRange |-> inRange]

\* The end of a range is tried on the line that opened it too.
TryRange(vm, last, opens, inRange) ==
  IF inRange \/ opens THEN Then(eval(vm, last), LAMBDA e : Matched(e.vm, TRUE, ~Bool(e.val)))
  ELSE Matched(vm, FALSE, FALSE)

\* The start of a range is evaluated on every line, inside a range as well.
evalPattern(vm, rule, inRange) ==
  IF rule.pattern = <<>> THEN Matched(vm, TRUE, FALSE)
  ELSE Then(eval(vm, rule.pattern[1]), LAMBDA first :
         IF Len(rule.pattern) = 1 THEN Matched(first.vm, Bool(first.val), FALSE)
         ELSE TryRange(first.vm, rule.pattern[2], Bool(first.val), inRange))

\* The rules for one record, from the i-th: an action may read the next record
\* itself, and the rules after it then see that one.
RECURSIVE tryRules(_, _, _)
AfterAction(ran, ranges, i) ==
  IF ran.sig \in {"next", "nextfile", "error"} \/ ran.vm.runtimeErr
  THEN [vm |-> ran.vm, sig |-> ran.sig, inRange |-> ranges]
  ELSE tryRules(ran.vm, ranges, i + 1)

TryRule(p, inRange, i) ==
  AfterAction(IF p.match THEN execStmts(p.vm, state.program.rules[i].action) ELSE Signal(p.vm, ""),
              [inRange EXCEPT ![i] = p.inRange], i)

tryRules(vm, inRange, i) ==
  IF i > Len(state.program.rules) THEN [vm |-> vm, sig |-> "", inRange |-> inRange]
  ELSE IF state.program.rules[i].kind # "main" THEN tryRules(vm, inRange, i + 1)
  ELSE TryRule(evalPattern(vm, state.program.rules[i], inRange[i]), inRange, i)

AwkRecord ==
  /\ Runs("awk", "main")
  /\ \E next \in {nextRecord(state.vm)} :
       /\ next.ok
       /\ \E r \in {tryRules(next.vm, state.inRange, 1)} :
            Becomes([IF r.sig = "error" \/ r.vm.runtimeErr THEN Done(1) ELSE state EXCEPT
                       !.vm = IF r.sig = "nextfile" THEN skipCurrentFile(r.vm) ELSE r.vm,
                       !.inRange = r.inRange])

AwkInputEnds ==
  /\ Runs("awk", "main") /\ ~nextRecord(state.vm).ok
  /\ Becomes([state EXCEPT !.phase = "end", !.vm = nextRecord(state.vm).vm])

\* Between two records the context may have ended.
AwkCancelled == Runs("awk", "main") /\ Becomes(Done(1))

AwkEnd ==
  /\ Runs("awk", "end")
  /\ \E r \in {execRules(state.vm, state.program.rules, "end")} :
       Becomes([Done(IF r.sig = "error" \/ r.vm.runtimeErr THEN 1 ELSE 0) EXCEPT !.vm = r.vm])

AwkNext == AwkLoad \/ AwkBegin \/ AwkRecord \/ AwkInputEnds \/ AwkCancelled \/ AwkEnd

-----------------------------------------------------------------------------
(* At every moment the fields, NF and the record agree; after a run every    *)
(* record was read once and in order, by the main loop or by getline, or was *)
(* skipped with its file, and NR counts those read. And programs whose       *)
(* output is known without running them: a range, one line out of two by     *)
(* getline, a table of counts, a recursive function up to the limit of       *)
(* calls, a loop up to the limit of rounds (awk.go:1147-1318, 1614-1637).    *)
AwkRange(from, to, lines) ==
  LET Has(x, k) == x \in Seqs!ToSet(lines[k])
      Selected(k) == \E o \in 1 .. k : Has(from, o) /\ \A j \in o .. k - 1 : ~Has(to, j)
  IN Seqs!FlattenSeq([k \in DOMAIN lines |-> IF Selected(k) THEN <<lines[k]>> ELSE <<>>])

Counts(lines) ==
  LET order == Seqs!SetToSortSeq(Seqs!ToSet(lines), LAMBDA a, b : TextBefore(a, b))
  IN [i \in DOMAIN order |-> order[i] \o <<Space, Cardinality({k \in DOMAIN lines : lines[k] = order[i]})>>]

AwkKnown(is, n, lines, stdout) ==
  CASE is = "range" -> stdout = AwkRange(100, 101, lines)
    [] is = "pairs" -> stdout = [k \in 1 .. ((Len(lines) + 1) \div 2) |-> lines[Smaller(2 * k, Len(lines))]]
    [] is = "count" -> stdout = Counts(lines)
    [] is = "depth" -> n <= MaxDepth => stdout = <<<<n>>>>
    [] is = "for"   -> n <= MaxLoop /\ stdout = <<<<n>>>>
    [] OTHER        -> TRUE

AwkReads ==
  command = "awk" =>
    LET vm == state.vm
        lines == Seqs!FlattenSeq(vm.files)
    IN /\ vm.read # <<>> =>
            /\ getVar(vm, "NF") = Num(Len(vm.fields))
            /\ vm.fields = Split(vm.record, vm.FS) \/ vm.record = Join(vm.fields, Space)
       /\ Seqs!IsPrefix(vm.read, lines) \/ vm.skipped > 0
       /\ getVar(vm, "NR").num = Len(vm.read)
       /\ state.phase = "done" /\ state.code = 0 => Len(vm.read) + vm.skipped = Len(lines)
       /\ state.phase = "done" /\ state.code = 0 =>
            AwkKnown(state.program.is, state.program.n, lines, vm.stdout)
=============================================================================
