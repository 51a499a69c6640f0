-------------------------------- MODULE Expr --------------------------------
(* expr (src/internal/commands/expr.go): reads and computes an expression in *)
(* one descent. A text is a sequence of symbols: digits 0 to 9, a sign, an   *)
(* operator, or a letter (from 100); integers are as wide as MaxInteger.     *)
EXTENDS CommandRun

CONSTANTS
  Exprs,           \* expressions to write out and compute, whole or cut off
  MaxInteger       \* the largest integer; the smallest is one further from 0

Minus == -1
Plus == -2
Open == -3
Close == -4
Match1 == -5
Length == -6
Index == -7
Substr == -8
Matching1 == -9
\* The operators from the weakest level on.
Operators1 == <<{"|"}, {"&"}, {"=", "!=", "<", ">", "<=", ">="}, {"+", "-"}, {"*", "/", "%"}, {":"}>>
Symbol == [op \in UNION {Operators1[n] : n \in DOMAIN Operators1} |->
             CASE op = "+" -> Plus [] op = "-" -> Minus [] op = ":" -> Match1
               [] op = "|" -> -10 [] op = "&" -> -11 [] op = "=" -> -12 [] op = "!=" -> -13 [] op = "<" -> -14
               [] op = ">" -> -15 [] op = "<=" -> -16 [] op = ">=" -> -17 [] op = "*" -> -18 [] op = "/" -> -19
               [] op = "%" -> -20]

Wrapped(n) == ((n + MaxInteger + 1) % (2 * (MaxInteger + 1))) - (MaxInteger + 1)
Abs(n) == IF n < 0 THEN -n ELSE n
Sign(n) == IF n < 0 THEN -1 ELSE 1
\* Division towards zero.
Quotient(a, b) == Sign(a) * Sign(b) * (Abs(a) \div Abs(b))

Digits[n \in Nat] == IF n < 10 THEN <<n>> ELSE Append(Digits[n \div 10], n % 10)
TextOf(n) == IF n < 0 THEN <<Minus>> \o Digits[-n] ELSE Digits[n]

\* The integer a text begins with; anything may follow it.
parseExprInt(text) ==
  LET signed == text # <<>> /\ text[1] \in {Plus, Minus}
      first == IF signed THEN 2 ELSE 1
      end == Sets!Max({n \in first - 1 .. Len(text) : \A i \in first .. n : text[i] \in 0 .. 9})
      magnitude == Seqs!FoldLeft(LAMBDA n, d : 10 * n + d, 0, SubSeq(text, first, end))
      value == IF signed /\ text[1] = Minus THEN -magnitude ELSE magnitude
  IN [ok |-> end >= first /\ value \in -MaxInteger - 1 .. MaxInteger, num |-> value]

IsNull(text) == text \in {<<>>, <<0>>}
Truth(b) == IF b THEN <<1>> ELSE <<0>>
Earlier(s, t) ==
  \E n \in 0 .. Smaller(Len(s), Len(t) - 1) :
    SubSeq(s, 1, n) = SubSeq(t, 1, n) /\ (n = Len(s) \/ s[n + 1] < t[n + 1])

\* A pattern is a text to be found as it is, all of it in a group or none.
exprRegexMatch(text, pattern, anchored) ==
  LET grouped == pattern # <<>> /\ pattern[1] = Open
      plain == SelectSeq(pattern, LAMBDA x : x \notin {Open, Close})
      found == \E i \in 1 .. (IF anchored THEN 1 ELSE Len(text) + 1) :
                 i + Len(plain) - 1 <= Len(text) /\ SubSeq(text, i, i + Len(plain) - 1) = plain
  IN IF ~found THEN <<0>> ELSE IF grouped THEN plain ELSE TextOf(Len(plain))
exprSubstring(text, pos, length) ==
  LET start == Larger(pos - 1, 0)
      end == Larger(pos - 1 + length, start)
  IN SubSeq(text, Smaller(start, Len(text)) + 1, Smaller(end, Len(text)))
exprIndex(text, chars) ==
  Then({i \in DOMAIN text : text[i] \in Seqs!ToSet(chars)}, LAMBDA hits :
    TextOf(IF hits = {} THEN 0 ELSE Sets!Min(hits)))

-----------------------------------------------------------------------------
Value1(at, text) == [ok |-> TRUE, at |-> at, text |-> text]
Failure(at) == [ok |-> FALSE, at |-> at, text |-> <<>>]
IfValue(result, F(_)) == Then(result, LAMBDA r : IF r.ok THEN F(r) ELSE r)

\* Variant: texts are compared as texts whenever they are not the same number.
comparedAsTexts(op, s, t, a, b) ==
  CASE op = "=" -> s = t [] op = "!=" -> s # t
    [] op = "<" -> Earlier(s, t) [] op = ">" -> Earlier(t, s)
    [] op = "<=" -> ~Earlier(t, s) [] op = ">=" -> ~Earlier(s, t)
compared(op, s, t, a, b) ==
  IF ~(a.ok /\ b.ok) THEN comparedAsTexts(op, s, t, a, b)
  ELSE CASE op = "=" -> a.num = b.num [] op = "!=" -> a.num # b.num
         [] op = "<" -> a.num < b.num [] op = ">" -> a.num > b.num
         [] op = "<=" -> a.num <= b.num [] op = ">=" -> a.num >= b.num
computed(op, a, b) ==
  CASE op = "+" -> a + b [] op = "-" -> a - b [] op = "*" -> a * b
    [] op = "/" -> Quotient(a, b) [] op = "%" -> a - b * Quotient(a, b)

\* Both sides have been computed by now, also for | and &; of | the left is nothing.
Applied(at, op, s, t) ==
  Then(parseExprInt(s), LAMBDA a : Then(parseExprInt(t), LAMBDA b :
    CASE op = "|" -> Value1(at, t)
      [] op = "&" -> Value1(at, IF IsNull(s) \/ IsNull(t) THEN <<0>> ELSE s)
      [] op = ":" -> Value1(at, exprRegexMatch(s, t, TRUE))
      [] op \in Operators1[3] -> Value1(at, Truth(compared(op, s, t, a, b)))
      [] OTHER -> IF ~a.ok \/ ~b.ok \/ (op \in {"/", "%"} /\ b.num = 0) THEN Failure(at)
                  ELSE Value1(at, TextOf(Wrapped(computed(op, a.num, b.num))))))

Arg(at) == IF at > Len(state.words) THEN <<>> ELSE state.words[at]
IsOperator(at, level) ==
  {op \in Operators1[level] : at <= Len(state.words) /\ state.words[at] = <<Symbol[op]>>}

RECURSIVE exprParse(_, _, _)
ExprPart(rule, at, x) == exprParse(rule, at, x)
Primary1(at) == ExprPart("primary", at, <<>>)
parseLevel(at, level) ==
  IF level > Len(Operators1) THEN Primary1(at)
  ELSE IfValue(ExprPart("level", at, level + 1), LAMBDA l : ExprPart("more", l.at, <<level, l.text>>))
\* A left side of | that is something is returned once the right side has been
\* read; a | after that is nobody's.
levelMore(at, level, left) ==
  Then(IsOperator(at, level), LAMBDA ops :
    IF ops = {} THEN Value1(at, left)
    ELSE IfValue(ExprPart("level", at + 1, level + 1), LAMBDA r :
           IF "|" \in ops /\ ~IsNull(left) THEN Value1(r.at, left)
           ELSE IfValue(Applied(r.at, CHOOSE op \in ops : TRUE, left, r.text), LAMBDA v :
                  ExprPart("more", v.at, <<level, v.text>>))))
parsePrimaryText(at) ==
  CASE at > Len(state.words) -> Failure(at)
    [] Arg(at) = <<Matching1>> ->
         IfValue(Primary1(at + 1), LAMBDA t : IfValue(Primary1(t.at), LAMBDA p :
           Value1(p.at, exprRegexMatch(t.text, p.text, FALSE))))
    [] Arg(at) = <<Substr>> ->
         IfValue(Primary1(at + 1), LAMBDA t : IfValue(Primary1(t.at), LAMBDA p : IfValue(Primary1(p.at), LAMBDA n :
           Then(parseExprInt(p.text), LAMBDA a : Then(parseExprInt(n.text), LAMBDA b :
             IF a.ok /\ b.ok THEN Value1(n.at, exprSubstring(t.text, a.num, b.num)) ELSE Failure(n.at))))))
    [] Arg(at) = <<Index>> ->
         IfValue(Primary1(at + 1), LAMBDA t : IfValue(Primary1(t.at), LAMBDA c : Value1(c.at, exprIndex(t.text, c.text))))
    [] Arg(at) = <<Length>> -> IfValue(Primary1(at + 1), LAMBDA t : Value1(t.at, TextOf(Len(t.text))))
    [] Arg(at) = <<Open>> ->
         IfValue(ExprPart("level", at + 1, 1), LAMBDA e :
           IF Arg(e.at) = <<Close>> THEN Value1(e.at + 1, e.text) ELSE Failure(e.at))
    [] OTHER -> Value1(at + 1, Arg(at))
exprParse(rule, at, x) ==
  CASE rule = "level"   -> parseLevel(at, x)
    [] rule = "more"    -> levelMore(at, x[1], x[2])
    [] rule = "primary" -> parsePrimaryText(at)

evaluateExpr ==
  IF Len(state.words) = 1 THEN Value1(1, state.words[1])
  ELSE IfValue(exprParse("level", 1, 1), LAMBDA r : IF r.at = Len(state.words) + 1 THEN r ELSE Failure(r.at))

-----------------------------------------------------------------------------
\* An expression written with the fewest parentheses, and what it is worth.
LevelOf(e) == IF e.op = "text" \/ e.op \in {"length", "index", "substr", "match"} THEN 7
              ELSE CHOOSE n \in DOMAIN Operators1 : e.op \in Operators1[n]
RECURSIVE Spelt(_, _), Worth(_)
Keyword(op) == CASE op = "length" -> Length [] op = "index" -> Index [] op = "substr" -> Substr [] op = "match" -> Matching1
SpeltBare(e) ==
  CASE e.op = "text" -> <<e.text>>
    [] LevelOf(e) < 7 -> Spelt(e.left, LevelOf(e)) \o <<<<Symbol[e.op]>>>> \o Spelt(e.right, LevelOf(e) + 1)
    [] OTHER -> <<<<Keyword(e.op)>>>> \o Seqs!FlattenSeq([i \in DOMAIN e.args |-> Spelt(e.args[i], 7)])
Spelt(e, least) == IF LevelOf(e) < least THEN <<<<Open>>>> \o SpeltBare(e) \o <<<<Close>>>> ELSE SpeltBare(e)

\* An integer, and nothing after it.
IntegerOf(text) == {n \in -MaxInteger - 1 .. MaxInteger : TextOf(n) = text}
Worthless == <<-99>>
WorthOf(op, s, t) ==
  LET a == IntegerOf(s)
      b == IntegerOf(t)
      numbers == a # {} /\ b # {}
      Exact(n) == TextOf(CHOOSE m \in -MaxInteger - 1 .. MaxInteger : (m - n) % (2 * (MaxInteger + 1)) = 0)
      Sides(F(_, _)) == \E m \in a, n \in b : F(m, n)
  IN CASE op = "|" -> IF s \in {<<>>, <<0>>} THEN t ELSE s
       [] op = "&" -> IF {s, t} \cap {<<>>, <<0>>} # {} THEN <<0>> ELSE s
       [] op = "=" -> Truth(IF numbers THEN a = b ELSE s = t)
       [] op = "<" -> Truth(IF numbers THEN Sides(LAMBDA m, n : m < n) ELSE Earlier(s, t))
       [] op = ":" -> IF Seqs!IsPrefix(t, s) THEN TextOf(Len(t)) ELSE <<0>>
       [] ~numbers -> Worthless
       [] op \in {"+", "-", "*"} -> CHOOSE v \in {Exact(computed(op, m, n)) : m \in a, n \in b} : TRUE
       [] OTHER -> IF b = {0} THEN Worthless
                   ELSE CHOOSE v \in {Exact(computed(op, m, n)) : m \in a, n \in b} : TRUE
WorthOfCall(op, args) ==
  CASE op = "length" -> TextOf(Len(args[1]))
    [] op = "index"  -> TextOf(Sets!Max({0} \cup {i \in DOMAIN args[1] : /\ args[1][i] \in Seqs!ToSet(args[2])
                              /\ \A k \in 1 .. i - 1 : args[1][k] \notin Seqs!ToSet(args[2])}))
    [] op = "match"  -> IF \E i, j \in 0 .. Len(args[1]) : SubSeq(args[1], i + 1, j) = args[2] THEN TextOf(Len(args[2])) ELSE <<0>>
    [] op = "substr" ->
         IF IntegerOf(args[2]) = {} \/ IntegerOf(args[3]) = {} THEN Worthless
         ELSE CHOOSE v \in {Seqs!FlattenSeq([i \in DOMAIN args[1] |-> IF i >= p /\ i < p + n THEN <<args[1][i]>> ELSE <<>>]) :
                              p \in IntegerOf(args[2]), n \in IntegerOf(args[3])} : TRUE
Worth(e) ==
  IF e.op = "text" THEN e.text
  ELSE Then(IF LevelOf(e) < 7 THEN <<Worth(e.left), Worth(e.right)>> ELSE [i \in DOMAIN e.args |-> Worth(e.args[i])], LAMBDA args :
         IF Worthless \in Seqs!ToSet(args) THEN Worthless
         ELSE IF LevelOf(e) < 7 THEN WorthOf(e.op, args[1], args[2]) ELSE WorthOfCall(e.op, args))

\* A chain of | that goes on behind an alternative with a value has no parse.
RECURSIVE ChainBreaks(_)
ChainBreaks(e) ==
  CASE e.op = "text" -> FALSE
    [] LevelOf(e) = 7 -> \E i \in DOMAIN e.args : ChainBreaks(e.args[i])
    [] OTHER -> \/ ChainBreaks(e.left) \/ ChainBreaks(e.right)
                \/ e.op = "|" /\ e.left.op = "|" /\ Worth(e.left.left) \notin {<<>>, <<0>>}

ExprStarts ==
  UNION {UNION {{[phase |-> "read", meant |-> text.expr, words |-> SubSeq(words, 1, n), whole |-> n = Len(words),
           out |-> <<>>, code |-> 0] :
            n \in IF text.cut THEN 1 .. Len(words) ELSE {Len(words)}} : words \in {Spelt(text.expr, 1)}} : text \in Exprs}

commandExpr ==
  /\ Runs("expr", "read")
  /\ \E r \in {evaluateExpr} :
       Becomes(IF ~r.ok THEN Done(2) ELSE [Done(IF IsNull(r.text) THEN 1 ELSE 0) EXCEPT !.out = <<r.text>>])

\* expr prints what the expression is worth, its operators grouped and its
\* integers computed to their width, and tells by its status whether that is
\* nothing; an expression that breaks off or has no value is refused, and so is
\* a chain of | with a value before its last two alternatives: whatever is
\* refused prints nothing.
ExprComputes ==
  Ended("expr") =>
    LET worth == Worth(state.meant)
        Opened == Cardinality({i \in DOMAIN state.words : state.words[i] = <<Open>>})
        Closed == Cardinality({i \in DOMAIN state.words : state.words[i] = <<Close>>})
        last == state.words[Len(state.words)]
    IN /\ state.whole =>
            IF worth = Worthless \/ ChainBreaks(state.meant) THEN state.code = 2 /\ state.out = <<>>
            ELSE state.out = <<worth>> /\ state.code = IF worth \in {<<>>, <<0>>} THEN 1 ELSE 0
       /\ Len(state.words) > 1 /\ (Opened > Closed \/ last \in {<<Symbol[op]>> : op \in DOMAIN Symbol})
            => state.code = 2
=============================================================================
