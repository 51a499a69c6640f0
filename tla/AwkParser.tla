------------------------------ MODULE AwkParser ------------------------------
(* How awk reads a program (awkLexer and awkParser of                        *)
(* src/internal/commands/text/awk.go): the words of its text become tokens,  *)
(* and a recursive descent makes the trees of them that module Awk runs. A   *)
(* program is written out as the POSIX grammar has it and read back.         *)
EXTENDS Awk

CONSTANTS AwkTexts     \* programs to write out and read, whole or cut off

Op(lit) == [kind |-> "op", lit |-> lit, val |-> <<>>]
Ident(lit) == [kind |-> "ident", lit |-> lit, val |-> <<>>]
Literal(val) == [kind |-> "literal", lit |-> "", val |-> val]
RegexToken(val) == [kind |-> "regex", lit |-> "", val |-> val]
Newline == [kind |-> "newline", lit |-> "", val |-> <<>>]
EOF == [kind |-> "eof", lit |-> "", val |-> <<>>]

-----------------------------------------------------------------------------
(* The lexer: whether a slash divides or opens a pattern depends on the token *)
(* before it.                                                                 *)

BeforePattern == {"BEGIN", "END", "if", "while", "for", "print", "printf", "return", "function", "delete", "in"}

canRegex(token) ==
  CASE token.kind = "ident" -> token.lit \in BeforePattern
    [] token.kind = "op"    -> token.lit \notin {"++", "--", ")", "]", "}"}
    [] OTHER                -> token.kind \in {"newline", "eof"}

LastToken(out) == IF out = <<>> THEN EOF ELSE out[Len(out)]
NextToken(lexed, word) ==
  IF lexed.open
  THEN IF word = Op("/") THEN [lexed EXCEPT !.open = FALSE, !.out = Append(@, RegexToken(lexed.body))]
       ELSE [lexed EXCEPT !.body = word.val]
  ELSE IF word = Op("/") /\ canRegex(LastToken(lexed.out)) THEN [lexed EXCEPT !.open = TRUE]
  ELSE [lexed EXCEPT !.out = Append(@, IF word.kind = "regex" THEN Ident("x") ELSE word)]
tokens(words) == Seqs!FoldLeft(NextToken, [out |-> <<>>, open |-> FALSE, body |-> <<>>], words)

-----------------------------------------------------------------------------
(* The parser: what is read from token at on, and where it ends. After an    *)
(* error it stays where it got to.                                           *)

Got(at, node) == [ok |-> TRUE, at |-> at, node |-> node]
Error(at) == [ok |-> FALSE, at |-> at, node |-> <<>>]
IfOk(result, F(_)) == Then(result, LAMBDA r : IF r.ok THEN F(r) ELSE r)

peek(at) == IF at > Len(state.toks) THEN EOF ELSE state.toks[at]
peekOp(at, op) == peek(at) = Op(op)
next(at) == Smaller(at + 1, Len(state.toks) + 1)
\* What comes after a token that must be there.
Expect(at, op, F(_)) == IF peekOp(at, op) THEN F(at + 1) ELSE Error(at)
ExpectIdent(at, F(_)) == IF peek(at).kind = "ident" THEN F(peek(at).lit) ELSE Error(next(at))

startsPrimary(at) ==
  \/ peek(at).kind \in {"literal", "regex", "ident"} /\ peek(at).lit \notin {"in", "else"}
  \/ peekOp(at, "(") \/ peekOp(at, "$")
atStmtEnd(at) == peek(at).kind \in {"newline", "eof"} \/ peekOp(at, ";") \/ peekOp(at, "}")

RECURSIVE skipNL(_), skipSep(_)
skipNL(at) == IF peek(at) = Newline THEN skipNL(at + 1) ELSE at
skipSep(at) == IF peek(at) = Newline \/ peekOp(at, ";") THEN skipSep(at + 1) ELSE at

\* Rules of the grammar call each other: Parse is the way back into one.
RECURSIVE parse(_, _, _)
Parse(rule, at, x) == parse(rule, at, x)
parseExpr(at) == Parse("assign", at, <<>>)
parseUnary(at) == Parse("unary", at, <<>>)
parseBlock(at) == Expect(at, "{", LAMBDA n : Parse("statements", n, <<>>))
parseStmtListOrStmt(at) ==
  IF peekOp(at, "{") THEN parseBlock(at)
  ELSE IfOk(Parse("stmt", at, <<>>), LAMBDA s : Got(s.at, <<s.node>>))

NoExpr == [op |-> "none"]
Node(op, left, right) == [op |-> op, left |-> left, right |-> right]
Assigning == {"=", "+=", "-=", "*=", "/=", "%="}

\* The levels of the operators from || down to the products. Putting two values
\* side by side has no operator of its own.
Level == <<{"||"}, {"&&"}, {"==", "!=", "<", "<=", ">", ">=", "~", "!~", "in"}, {"concat"}, {"+", "-"}, {"*", "/", "%"}>>
Operator(at, level) ==
  IF level = 4 THEN (IF startsPrimary(at) THEN "concat" ELSE "")
  ELSE IF peek(at).kind \in {"op", "ident"} /\ peek(at).lit \in Level[level] THEN peek(at).lit ELSE ""

parseLeft(at, level) ==
  IF level > Len(Level) THEN parseUnary(at)
  ELSE IfOk(Parse("left", at, level + 1), LAMBDA l : Parse("more", l.at, <<level, l.node>>))

\* Variant: takes what follows an operator together.
moreToTheRight(at, level, left) ==
  Then(Operator(at, level), LAMBDA op :
    IF op = "" THEN Got(at, left)
    ELSE IfOk(Parse("left", IF op = "concat" THEN at ELSE at + 1, level), LAMBDA r : Got(r.at, Node(op, left, r.node))))
parseMore(at, level, left) ==
  Then(Operator(at, level), LAMBDA op :
    IF op = "" THEN Got(at, left)
    ELSE IfOk(Parse("left", IF op = "concat" THEN at ELSE at + 1, level + 1), LAMBDA r :
           Parse("more", r.at, <<level, Node(op, left, r.node)>>)))

parseTernary(at) ==
  IfOk(parseLeft(at, 1), LAMBDA c :
    IF ~peekOp(c.at, "?") THEN c
    ELSE IfOk(parseExpr(c.at + 1), LAMBDA y :
           Expect(y.at, ":", LAMBDA n :
             IfOk(parseExpr(n), LAMBDA no : Got(no.at, [op |-> "?", cond |-> c.node, yes |-> y.node, no |-> no.node])))))
parseAssign(at) ==
  IfOk(parseTernary(at), LAMBDA l :
    IF peek(l.at).kind = "op" /\ peek(l.at).lit \in Assigning
    THEN IfOk(parseExpr(l.at + 1), LAMBDA r : Got(r.at, Node(peek(l.at).lit, l.node, r.node)))
    ELSE l)

StepOps == {"++", "--"}
ByOne(op, when, e) == [op |-> when, expr |-> e, by |-> IF op = "++" THEN 1 ELSE -1]
parsePrefix(at) ==
  IF peek(at).kind = "op" /\ peek(at).lit \in StepOps \cup {"!", "-", "+"}
  THEN IfOk(parseUnary(at + 1), LAMBDA e :
         Got(e.at, IF peek(at).lit \in StepOps THEN ByOne(peek(at).lit, "pre", e.node)
                   ELSE [op |-> IF peek(at).lit = "!" THEN "!" ELSE "neg", expr |-> e.node]))
  ELSE IfOk(Parse("primary", at, <<>>), LAMBDA e : Parse("postfix", e.at, e.node))
parsePostfix(at, e) ==
  IF peek(at).kind = "op" /\ peek(at).lit \in StepOps
  THEN Parse("postfix", at + 1, ByOne(peek(at).lit, "post", e)) ELSE Got(at, e)

Called(name, args) == [op |-> "call", name |-> name, args |-> args]
parseIdent(at, name) ==
  IF name = "getline"
  THEN IF startsPrimary(at) THEN IfOk(parseUnary(at), LAMBDA a : Got(a.at, Called(name, <<a.node>>)))
       ELSE Got(at, Called(name, <<>>))
  ELSE IF peekOp(at, "(")
  THEN IF peekOp(at + 1, ")") THEN Got(at + 2, Called(name, <<>>))
       ELSE IfOk(Parse("arguments", at + 1, <<>>), LAMBDA args : Got(args.at, Called(name, args.node)))
  ELSE IF peekOp(at, "[")
  THEN IfOk(parseExpr(at + 1), LAMBDA i :
         Expect(i.at, "]", LAMBDA n : Got(n, [op |-> "elem", name |-> name, index |-> i.node])))
  ELSE Got(at, [op |-> "var", name |-> name])
parsePrimary(at) ==
  CASE peek(at).kind = "literal" -> Got(at + 1, [op |-> "lit", val |-> peek(at).val])
    [] peek(at).kind = "regex"   -> Got(at + 1, [op |-> "regex", pattern |-> peek(at).val])
    [] peek(at).kind = "ident"   -> parseIdent(at + 1, peek(at).lit)
    [] peekOp(at, "(") -> IfOk(parseExpr(at + 1), LAMBDA e : Expect(e.at, ")", LAMBDA n : Got(n, e.node)))
    [] peekOp(at, "$") -> IfOk(parseUnary(at + 1), LAMBDA i : Got(i.at, [op |-> "field", index |-> i.node]))
    [] OTHER -> Error(next(at))
parseArguments(at, before) ==
  IfOk(parseExpr(at), LAMBDA a :
    IF peekOp(a.at, ")") THEN Got(a.at + 1, Append(before, a.node))
    ELSE Expect(a.at, ",", LAMBDA n : Parse("arguments", n, Append(before, a.node))))

\* What print prints: an error ends the list, and nothing more.
parseExprListUntilStmtEnd(at, before) ==
  IF atStmtEnd(at) THEN Got(at, before)
  ELSE Then(parseExpr(at), LAMBDA e :
         IF ~e.ok THEN Got(e.at, before)
         ELSE IF peekOp(e.at, ",") THEN Parse("list", e.at + 1, Append(before, e.node))
         ELSE Got(e.at, Append(before, e.node)))

Condition(at, F(_, _)) ==
  Expect(at, "(", LAMBDA n : IfOk(parseExpr(n), LAMBDA c : Expect(c.at, ")", LAMBDA m : F(m, c.node))))
parseIf(at) ==
  Condition(at, LAMBDA n, c :
    IfOk(parseStmtListOrStmt(n), LAMBDA yes :
      IF peek(yes.at) = Ident("else")
      THEN IfOk(parseStmtListOrStmt(yes.at + 1), LAMBDA no :
             Got(no.at, [do |-> "if", cond |-> c, yes |-> yes.node, no |-> no.node]))
      ELSE Got(yes.at, [do |-> "if", cond |-> c, yes |-> yes.node, no |-> <<>>])))
parseWhile(at) ==
  Condition(at, LAMBDA n, c :
    IfOk(parseStmtListOrStmt(n), LAMBDA b : Got(b.at, [do |-> "while", cond |-> c, body |-> b.node])))
Optional(at, end) == IF peekOp(at, end) THEN Got(at, NoExpr) ELSE parseExpr(at)
parseFor(at) ==
  Expect(at, "(", LAMBDA n :
    IF peek(n).kind = "ident" /\ peek(n + 1) = Ident("in")
    THEN ExpectIdent(n + 2, LAMBDA array :
           Expect(n + 3, ")", LAMBDA m :
             IfOk(parseStmtListOrStmt(m), LAMBDA b :
               Got(b.at, [do |-> "forin", name |-> peek(n).lit, array |-> array, body |-> b.node]))))
    ELSE IfOk(Optional(n, ";"), LAMBDA i : Expect(i.at, ";", LAMBDA m :
         IfOk(Optional(m, ";"), LAMBDA c : Expect(c.at, ";", LAMBDA k :
         IfOk(Optional(k, ")"), LAMBDA p : Expect(p.at, ")", LAMBDA j :
         IfOk(parseStmtListOrStmt(j), LAMBDA b :
           Got(b.at, [do |-> "for", init |-> i.node, cond |-> c.node, post |-> p.node, body |-> b.node])))))))))
parseDelete(at) ==
  ExpectIdent(at, LAMBDA name :
    IF ~peekOp(at + 1, "[") THEN Got(at + 1, [do |-> "deleteAll", array |-> name])
    ELSE IfOk(parseExpr(at + 2), LAMBDA i :
           Expect(i.at, "]", LAMBDA n : Got(n, [do |-> "delete", array |-> name, index |-> i.node]))))

parseStmt(at) ==
  CASE peek(at) = Ident("print")  -> IfOk(Parse("list", at + 1, <<>>), LAMBDA l : Got(l.at, [do |-> "print", exprs |-> l.node]))
    [] peek(at) = Ident("if")     -> parseIf(at + 1)
    [] peek(at) = Ident("while")  -> parseWhile(at + 1)
    [] peek(at) = Ident("for")    -> parseFor(at + 1)
    [] peek(at) = Ident("delete") -> parseDelete(at + 1)
    [] peek(at) = Ident("return") ->
         IF atStmtEnd(at + 1) THEN Got(at + 1, [do |-> "return", expr |-> [op |-> "lit", val |-> Unset]])
         ELSE IfOk(parseExpr(at + 1), LAMBDA e : Got(e.at, [do |-> "return", expr |-> e.node]))
    [] peek(at) \in {Ident("next"), Ident("nextfile")} -> Got(at + 1, [do |-> peek(at).lit])
    [] OTHER -> IfOk(parseExpr(at), LAMBDA e : Got(e.at, [do |-> "expr", expr |-> e.node]))
parseStatements(at, before) ==
  Then(skipSep(at), LAMBDA n :
    IF peekOp(n, "}") THEN Got(n + 1, before)
    ELSE IF peek(n) = EOF THEN Error(n)
    ELSE IfOk(parseStmt(n), LAMBDA s : Parse("statements", skipSep(s.at), Append(before, s.node))))

parse(rule, at, x) ==
  CASE rule = "assign"     -> parseAssign(at)
    [] rule = "left"       -> parseLeft(at, x)
    [] rule = "more"       -> parseMore(at, x[1], x[2])
    [] rule = "unary"      -> parsePrefix(at)
    [] rule = "postfix"    -> parsePostfix(at, x)
    [] rule = "primary"    -> parsePrimary(at)
    [] rule = "arguments"  -> parseArguments(at, x)
    [] rule = "list"       -> parseExprListUntilStmtEnd(at, x)
    [] rule = "stmt"       -> parseStmt(at)
    [] rule = "statements" -> parseStatements(at, x)

\* A pattern without an action prints the record.
PrintsRecord == <<[do |-> "print", exprs |-> <<[op |-> "field", index |-> [op |-> "lit", val |-> Num(0)]]>>]>>
ParsedRule(kind, pattern, action) == [kind |-> kind, pattern |-> pattern, action |-> action]
ruleAction(at, pattern) ==
  IF peekOp(at, "{") THEN IfOk(parseBlock(at), LAMBDA b : Got(b.at, ParsedRule("main", pattern, b.node)))
  ELSE Got(at, ParsedRule("main", pattern, PrintsRecord))
parseRule(at) ==
  CASE peek(at) = Ident("BEGIN") -> IfOk(parseBlock(at + 1), LAMBDA b : Got(b.at, ParsedRule("begin", <<>>, b.node)))
    [] peek(at) = Ident("END")   -> IfOk(parseBlock(at + 1), LAMBDA b : Got(b.at, ParsedRule("end", <<>>, b.node)))
    [] peekOp(at, "{")           -> ruleAction(at, <<>>)
    [] OTHER -> IfOk(parseExpr(at), LAMBDA p :
                  IF ~peekOp(p.at, ",") THEN ruleAction(p.at, <<p.node>>)
                  ELSE IfOk(parseExpr(p.at + 1), LAMBDA q : ruleAction(q.at, <<p.node, q.node>>)))

RECURSIVE parseParams(_, _)
parseParams(at, before) ==
  ExpectIdent(at, LAMBDA id :
    IF peekOp(at + 1, ")") THEN Got(at + 2, Append(before, id))
    ELSE Expect(at + 1, ",", LAMBDA n : parseParams(n, Append(before, id))))
parseFunction(at) ==
  ExpectIdent(at, LAMBDA name :
    Expect(at + 1, "(", LAMBDA n :
      IfOk(IF peekOp(n, ")") THEN Got(n + 1, <<>>) ELSE parseParams(n, <<>>), LAMBDA params :
        IfOk(parseBlock(params.at), LAMBDA b : Got(b.at, [name |-> name, params |-> params.node, body |-> b.node])))))

RECURSIVE parseProgram(_, _)
parseProgram(at, program) ==
  Then(skipNL(at), LAMBDA n :
    IF peek(n) = EOF THEN Got(n, program)
    ELSE IF peek(n) = Ident("function")
    THEN IfOk(parseFunction(n + 1), LAMBDA fn :
           parseProgram(fn.at, [program EXCEPT !.funcs =
             Put(@, fn.node.name, [params |-> fn.node.params, body |-> fn.node.body])]))
    ELSE IfOk(parseRule(n), LAMBDA r : parseProgram(r.at, [program EXCEPT !.rules = Append(@, r.node)])))

NoProgram == [funcs |-> NoEntries, rules |-> <<>>]

-----------------------------------------------------------------------------
(* A program written out with the fewest parentheses of the POSIX grammar,   *)
(* and braces around what comes before an else.                              *)

Precedence(e) ==
  CASE e.op \in Assigning -> 1
    [] e.op = "?"         -> 2
    [] e.op \in UNION {Level[n] : n \in DOMAIN Level} -> 2 + CHOOSE n \in DOMAIN Level : e.op \in Level[n]
    [] e.op \in {"!", "neg", "pre"} -> 9
    [] e.op \in {"post", "field"} \/ (e.op = "call" /\ e.name = "getline") -> 10
    [] OTHER -> 11

Between(parts, separator) ==
  Seqs!FlattenSeq([i \in DOMAIN parts |-> IF i = 1 THEN parts[i] ELSE separator \o parts[i]])
InParens(words) == <<Op("(")>> \o words \o <<Op(")")>>

RECURSIVE Write(_, _)
\* Two values side by side: the second must not look like an operator, an index
\* or arguments.
WriteConcat(left, right) ==
  Then(IF Head(right) \in {Op(o) : o \in {"!", "-", "++", "--", "/"}} THEN InParens(right) ELSE right, LAMBDA second :
    (IF Head(second) = Op("(") THEN InParens(left) ELSE left) \o second)
WriteBare(e) ==
  CASE e.op = "lit"    -> <<Literal(e.val)>>
    [] e.op = "var"    -> <<Ident(e.name)>>
    [] e.op = "regex"  -> <<Op("/"), RegexToken(e.pattern), Op("/")>>
    [] e.op = "elem"   -> <<Ident(e.name), Op("[")>> \o Write(e.index, 1) \o <<Op("]")>>
    [] e.op = "field"  -> <<Op("$")>> \o Write(e.index, 11)
    [] e.op = "call" /\ e.name = "getline" -> <<Ident(e.name)>> \o (IF e.args = <<>> THEN <<>> ELSE Write(e.args[1], 10))
    [] e.op = "call" /\ e.name # "getline" ->
         <<Ident(e.name)>> \o InParens(Between([i \in DOMAIN e.args |-> Write(e.args[i], 1)], <<Op(",")>>))
    [] e.op \in {"!", "neg"} -> <<Op(IF e.op = "neg" THEN "-" ELSE e.op)>> \o Write(e.expr, 9)
    [] e.op = "pre"    -> <<Op(IF e.by = 1 THEN "++" ELSE "--")>> \o Write(e.expr, 10)
    [] e.op = "post"   -> Write(e.expr, 11) \o <<Op(IF e.by = 1 THEN "++" ELSE "--")>>
    [] e.op = "?"      -> Write(e.cond, 3) \o <<Op("?")>> \o Write(e.yes, 2) \o <<Op(":")>> \o Write(e.no, 2)
    [] e.op \in Assigning -> Write(e.left, 10) \o <<Op(e.op)>> \o Write(e.right, 1)
    [] e.op = "concat" -> WriteConcat(Write(e.left, 6), Write(e.right, 7))
    [] e.op = "in"     -> Write(e.left, 6) \o <<Ident("in")>> \o Write(e.right, 11)
    [] OTHER -> Write(e.left, Precedence(e) + (IF Precedence(e) = 5 THEN 1 ELSE 0))
                  \o <<Op(e.op)>> \o Write(e.right, Precedence(e) + 1)
Write(e, least) ==
  IF Precedence(e) < least \/ (e.op = "call" /\ e.name = "getline" /\ least > 1)
  THEN InParens(WriteBare(e)) ELSE WriteBare(e)

WriteOptional(e) == IF e = NoExpr THEN <<>> ELSE Write(e, 1)
RECURSIVE WriteStmt(_)
WriteBlock(stmts) ==
  <<Op("{"), Newline>> \o Seqs!FlattenSeq([i \in DOMAIN stmts |-> Append(WriteStmt(stmts[i]), Newline)]) \o <<Op("}")>>
WriteBody(stmts) == IF Len(stmts) = 1 THEN WriteStmt(stmts[1]) ELSE WriteBlock(stmts)
WriteStmt(s) ==
  CASE s.do = "print" -> <<Ident("print")>> \o Between([i \in DOMAIN s.exprs |-> Write(s.exprs[i], 1)], <<Op(",")>>)
    [] s.do = "if"    -> <<Ident("if")>> \o InParens(Write(s.cond, 1))
                           \o (IF s.no = <<>> THEN WriteBody(s.yes)
                               ELSE WriteBlock(s.yes) \o <<Ident("else")>> \o WriteBody(s.no))
    [] s.do = "while" -> <<Ident("while")>> \o InParens(Write(s.cond, 1)) \o WriteBody(s.body)
    [] s.do = "for"   -> <<Ident("for")>> \o InParens(WriteOptional(s.init) \o <<Op(";")>> \o WriteOptional(s.cond)
                           \o <<Op(";")>> \o WriteOptional(s.post)) \o WriteBody(s.body)
    [] s.do = "forin" -> <<Ident("for")>> \o InParens(<<Ident(s.name), Ident("in"), Ident(s.array)>>) \o WriteBody(s.body)
    [] s.do = "delete"    -> <<Ident("delete"), Ident(s.array), Op("[")>> \o Write(s.index, 1) \o <<Op("]")>>
    [] s.do = "deleteAll" -> <<Ident("delete"), Ident(s.array)>>
    [] s.do = "return"    -> <<Ident("return")>> \o Write(s.expr, 1)
    [] s.do = "expr"      -> Write(s.expr, 1)
    [] OTHER              -> <<Ident(s.do)>>

WriteRule(r) ==
  CASE r.kind = "begin" -> <<Ident("BEGIN")>> \o WriteBlock(r.action)
    [] r.kind = "end"   -> <<Ident("END")>> \o WriteBlock(r.action)
    [] OTHER -> Between([i \in DOMAIN r.pattern |-> Write(r.pattern[i], 1)], <<Op(",")>>)
                  \o (IF r.pattern # <<>> /\ r.action = PrintsRecord THEN <<>> ELSE WriteBlock(r.action))
WriteProgram(p) ==
  Seqs!FlattenSeq([i \in DOMAIN Seqs!SetToSeq(DOMAIN p.funcs) |->
     LET name == Seqs!SetToSeq(DOMAIN p.funcs)[i]
     IN <<Ident("function"), Ident(name)>> \o InParens(Between([k \in DOMAIN p.funcs[name].params |->
          <<Ident(p.funcs[name].params[k])>>], <<Op(",")>>)) \o WriteBlock(p.funcs[name].body) \o <<Newline>>])
  \o Seqs!FlattenSeq([i \in DOMAIN p.rules |-> Append(WriteRule(p.rules[i]), Newline)])

-----------------------------------------------------------------------------
AwkParserStarts ==
  UNION {UNION {{[phase |-> "lex", meant |-> text.program, words |-> SubSeq(words, 1, n), whole |-> n = Len(words),
           toks |-> <<>>, parsed |-> Error(0), code |-> 0] :
            n \in IF text.cut THEN 1 .. Len(words) ELSE {Len(words)}} :
          words \in {WriteProgram(text.program)}} : text \in AwkTexts}

AwkLex ==
  /\ Runs("awk parser", "lex")
  /\ \E lexed \in {tokens(state.words)} :
       Becomes(IF lexed.open THEN Done(2) ELSE [state EXCEPT !.phase = "parse", !.toks = lexed.out])
AwkParse ==
  /\ Runs("awk parser", "parse")
  /\ \E r \in {parseProgram(1, NoProgram)} : Becomes([Done(IF r.ok THEN 0 ELSE 2) EXCEPT !.parsed = r])

AwkParserNext == AwkLex \/ AwkParse

\* A program is read as the tree it was written from, whatever its operators
\* group, and with every slash taken for what it was written as; one that ends
\* inside an action is refused, also after print, which forgives its own errors.
AwkReadsBack ==
  Ended("awk parser") =>
    LET Count(op) == Len(SelectSeq(state.words, LAMBDA w : w = Op(op)))
    IN /\ state.whole => state.code = 0 /\ state.parsed.node = [funcs |-> state.meant.funcs, rules |-> state.meant.rules]
       /\ Count("{") > Count("}") => state.code = 2
=============================================================================
