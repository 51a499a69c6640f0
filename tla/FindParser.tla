----------------------------- MODULE FindParser -----------------------------
(* How find reads its expression (parseFindExpressions and                   *)
(* buildFindExpressionTree of src/internal/commands/files/find.go): words    *)
(* become tests, actions and operators, and a recursive descent makes the    *)
(* tree that module Find evaluates. A word is one string.                    *)
EXTENDS CommandRun

CONSTANTS
  FindTexts,       \* expressions to write out and read, whole or cut off
  FindNumbers      \* operands that are a number, of days, blocks or mode bits

Test(what, operand) == [op |-> "test", what |-> what, operand |-> operand]
Action(what, args) == [op |-> "action", what |-> what, args |-> args]
Operation(op) == [op |-> op]

Patterns1 == {"-name", "-iname", "-path", "-ipath", "-regex", "-iregex", "-newer"}
Measures == {"-mtime", "-size", "-perm"}
Depths == {"-maxdepth", "-mindepth"}
\* The operand each predicate accepts.
Accepts(what, operand) ==
  CASE what = "-type"    -> operand \in {"f", "d"}
    [] what \in Measures -> operand \in FindNumbers
    [] OTHER             -> TRUE

Tokens(rest, out) == [ok |-> TRUE, rest |-> rest, out |-> out]
Malformed == [ok |-> FALSE, rest |-> <<>>, out |-> <<>>]

\* -exec takes the words up to ; or +; + wants one {} and that at the end.
execTokens(words, out) ==
  Then({i \in DOMAIN words : words[i] \in {";", "+"}}, LAMBDA ends :
    IF ends = {} \/ words[1] \in {";", "+"} THEN Malformed
    ELSE Then(Sets!Min(ends), LAMBDA n : Then(SubSeq(words, 1, n - 1), LAMBDA parts :
      IF words[n] = "+" /\ {i \in DOMAIN parts : parts[i] = "{}"} # {Len(parts)} THEN Malformed
      ELSE Tokens(SubSeq(words, n + 1, Len(words)),
                  Append(out, Action(IF words[n] = "+" THEN "execAll" ELSE "exec", parts))))))

nextTokens(word, words, out) ==
  CASE word = "("            -> Tokens(words, Append(out, Operation("lparen")))
    [] word = ")"            -> Tokens(words, Append(out, Operation("rparen")))
    [] word \in {"-not", "!"} -> Tokens(words, Append(out, Operation("not")))
    [] word \in {"-o", "-or"} -> Tokens(words, Append(out, Operation("or")))
    [] word \in {"-a", "-and"} -> Tokens(words, Append(out, Operation("and")))
    [] word \in Patterns1 \cup Measures \cup Depths \cup {"-type", "-printf"} ->
         IF words = <<>> \/ ~Accepts(word, words[1]) THEN Malformed
         ELSE Tokens(Tail(words), CASE word \in Depths    -> out
                                    [] word = "-printf" -> Append(out, Action(word, <<words[1]>>))
                                    [] OTHER            -> Append(out, Test(word, words[1])))
    [] word = "-depth"                            -> Tokens(words, out)
    [] word \in {"-empty", "-prune"}              -> Tokens(words, Append(out, Test(word, "")))
    [] word \in {"-print", "-print0", "-delete"}  -> Tokens(words, Append(out, Action(word, <<>>)))
    [] word = "-exec" /\ words # <<>>             -> execTokens(words, out)
    [] OTHER -> Malformed

RECURSIVE parseFindExpressions(_, _)
parseFindExpressions(words, out) ==
  IF words = <<>> THEN Tokens(words, out)
  ELSE Then(nextTokens(Head(words), Tail(words), out), LAMBDA t :
         IF t.ok THEN parseFindExpressions(t.rest, t.out) ELSE t)

-----------------------------------------------------------------------------
(* The descent. A part that is missing makes the whole expression invalid,   *)
(* whatever was read before it.                                              *)

Found(at, node) == [ok |-> TRUE, at |-> at, node |-> node]
NotFound == [ok |-> FALSE, at |-> 0, node |-> Operation("none")]
IfFound(result, F(_)) == Then(result, LAMBDA r : IF r.ok THEN F(r) ELSE r)

OpAt(at) == IF at > Len(state.toks) THEN "end" ELSE state.toks[at].op
Both(op, left, right) == [op |-> op, left |-> left, right |-> right]

RECURSIVE findParse(_, _, _)
FindPart(rule, at, left) == findParse(rule, at, left)
parsePrimaryPart(at) ==
  CASE OpAt(at) \in {"test", "action"} -> Found(at + 1, state.toks[at])
    [] OpAt(at) = "lparen" ->
         IfFound(FindPart("or", at + 1, <<>>), LAMBDA e :
           IF OpAt(e.at) = "rparen" THEN Found(e.at + 1, e.node) ELSE NotFound)
    [] OTHER -> NotFound
parseNot(at) ==
  IF OpAt(at) = "not"
  THEN IfFound(FindPart("not", at + 1, <<>>), LAMBDA e : Found(e.at, [op |-> "not", left |-> e.node]))
  ELSE parsePrimaryPart(at)

andMore(at, left) ==
  IF OpAt(at) \in {"and", "test", "action", "not", "lparen"}
  THEN IfFound(parseNot(IF OpAt(at) = "and" THEN at + 1 ELSE at), LAMBDA r :
         FindPart("andMore", r.at, Both("and", left, r.node)))
  ELSE Found(at, left)
orMore(at, left) ==
  IF OpAt(at) = "or"
  THEN IfFound(FindPart("and", at + 1, <<>>), LAMBDA r : FindPart("orMore", r.at, Both("or", left, r.node)))
  ELSE Found(at, left)

findParse(rule, at, left) ==
  CASE rule = "or"      -> IfFound(FindPart("and", at, <<>>), LAMBDA l : FindPart("orMore", l.at, l.node))
    [] rule = "orMore"  -> orMore(at, left)
    [] rule = "and"     -> IfFound(parseNot(at), LAMBDA l : FindPart("andMore", l.at, l.node))
    [] rule = "andMore" -> andMore(at, left)
    [] rule = "not"     -> parseNot(at)

\* Variant: a second negation does not undo the first.
turnedOnce(neg) == TRUE
turned(neg) == ~neg

RECURSIVE containsNegatedFindDelete(_, _)
containsNegatedFindDelete(e, neg) ==
  CASE e.op = "action" -> neg /\ e.what = "-delete"
    [] e.op = "not"    -> containsNegatedFindDelete(e.left, turned(neg))
    [] e.op \in {"and", "or"} -> containsNegatedFindDelete(e.left, neg) \/ containsNegatedFindDelete(e.right, neg)
    [] OTHER -> FALSE

buildFindExpressionTree ==
  IfFound(findParse("or", 1, <<>>), LAMBDA e :
    IF e.at <= Len(state.toks) \/ containsNegatedFindDelete(e.node, FALSE) THEN NotFound ELSE e)

-----------------------------------------------------------------------------
(* An expression written with the fewest parentheses.                        *)

Binds(e) == CASE e.op = "or" -> 1 [] e.op = "and" -> 2 [] e.op = "not" -> 3 [] OTHER -> 4

RECURSIVE Spell(_, _)
SpellBare(e) ==
  CASE e.op = "or"   -> Spell(e.left, 1) \o <<"-o">> \o Spell(e.right, 2)
    [] e.op = "and"  -> Spell(e.left, 2) \o Spell(e.right, 3)
    [] e.op = "not"  -> <<"!">> \o Spell(e.left, 3)
    [] e.op = "test" -> IF e.operand = "" THEN <<e.what>> ELSE <<e.what, e.operand>>
    [] e.op = "action" /\ e.what \in {"exec", "execAll"} ->
         <<"-exec">> \o e.args \o <<IF e.what = "exec" THEN ";" ELSE "+">>
    [] OTHER -> <<e.what>> \o e.args
Spell(e, least) == IF Binds(e) < least THEN <<"(">> \o SpellBare(e) \o <<")">> ELSE SpellBare(e)

FindParserStarts ==
  UNION {UNION {{[phase |-> "tokens", meant |-> text.expr, valid |-> text.valid, words |-> text.before \o SubSeq(words, 1, n),
           whole |-> n = Len(words), toks |-> <<>>, parsed |-> NotFound, code |-> 0] :
            n \in IF text.cut THEN 1 .. Len(words) ELSE {Len(words)}} :
          words \in {Spell(text.expr, 1)}} : text \in FindTexts}

FindTokens ==
  /\ Runs("find parser", "tokens")
  /\ \E t \in {parseFindExpressions(state.words, <<>>)} :
       Becomes(IF ~t.ok THEN Done(1) ELSE IF t.out = <<>> THEN Done(0) ELSE [state EXCEPT !.phase = "parse", !.toks = t.out])
FindParse ==
  /\ Runs("find parser", "parse")
  /\ \E e \in {buildFindExpressionTree} : Becomes([Done(IF e.ok THEN 0 ELSE 1) EXCEPT !.parsed = e])

FindParserNext == FindTokens \/ FindParse

RECURSIVE Deletes(_)
\* How the deletions of an expression are negated: evenly, oddly or both ways.
Deletes(e) ==
  CASE e.op = "not" -> {~odd : odd \in Deletes(e.left)}
    [] e.op \in {"and", "or"} -> Deletes(e.left) \cup Deletes(e.right)
    [] OTHER -> IF e.op = "action" /\ e.what = "-delete" THEN {FALSE} ELSE {}

\* An expression is read as the tree it was written from, unless an operand is not
\* one or it would delete what does not match; one that breaks off is refused, and
\* nothing that was written to guard a deletion is lost.
FindReadsBack ==
  Ended("find parser") =>
    LET Number(w) == Cardinality({i \in DOMAIN state.words : state.words[i] = w})
        last == state.words[Len(state.words)]
    IN /\ state.whole => IF ~state.valid \/ TRUE \in Deletes(state.meant) THEN state.code = 1
                         ELSE state.code = 0 /\ state.parsed.node = state.meant
       /\ Number("(") > Number(")") \/ Number("-exec") > Number(";") + Number("+")
            \/ last \in {"!", "-o", "-type", "-name", "-size"} => state.code = 1
=============================================================================
