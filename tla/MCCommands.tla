---------------------------- MODULE MCCommands ----------------------------
(* Small instances of the built-in commands for TLC: a behaviour is one run *)
(* of one of them.                                                          *)
EXTENDS Xargs, Find, Sed, Curl, Archive, Sqlite, AwkParser, Grep, FindParser, Expr, Files, TLC

MCItems == {<<>>, <<"a">>, <<"a", "b">>, <<"a", "b", "c">>}

\* find: a tree with a file beside its own name, a nested and an empty directory.
Tree(dirs, files) == [p \in dirs \cup files |-> IF p \in dirs THEN "dir" ELSE "file"]
MCTrees == {Tree({<<>>, <<1>>, <<1, 1>>}, {<<1, 2>>, <<2>>}), Tree({<<>>, <<2>>}, {<<1>>, <<2, 1>>})}

Leaf(op, name) == [op |-> op, name |-> name]
Not(e) == [op |-> "not", left |-> e]
Two(op, e, f) == [op |-> op, left |-> e, right |-> f]
Anything == Leaf("any", 0)
MCExprs ==
  {Anything, Leaf("name", 1), Leaf("delete", 0),
   Two("and", Leaf("name", 1), Leaf("delete", 0)),
   Two("and", Leaf("empty", 0), Leaf("delete", 0)),
   Two("or", Two("and", Leaf("name", 1), Leaf("prune", 0)), Leaf("print", 0)),
   Two("and", Not(Leaf("type", "dir")), Leaf("execAll", 0)),
   Two("and", Leaf("exec", 0), Leaf("print", 0))}
MCQueries ==
  {[expr |-> e, maxDepth |-> max, minDepth |-> min, depth |-> d] :
     e \in MCExprs, max \in {-1, 1}, min \in {-1, 1}, d \in BOOLEAN}
MCStarts == {<<<<>>>>, <<<<2>>, <<>>>>}

\* sed: addresses, commands and the scripts made of them.
None == [kind |-> "none"]
Line(n) == [kind |-> "line", line |-> n]
LastLine == [kind |-> "last"]
Regex(x) == [kind |-> "regex", pattern |-> x]
Range(start, end) == [start |-> start, end |-> end, negated |-> FALSE]
Except(start) == [start |-> start, end |-> None, negated |-> TRUE]
Always == Range(None, None)
Do(do) == [do |-> do, address |-> Always]
DoAt(do, address) == [do |-> do, address |-> address]
To(do, label, address) == [do |-> do, label |-> label, address |-> address]
Group(address, commands) == [do |-> "{", address |-> address, commands |-> commands]
Subst(from, to, global) ==
  [do |-> "s", address |-> Always, from |-> from, to |-> to, global |-> global, print |-> FALSE]
Says(do, address) == [do |-> do, address |-> address, text |-> "new"]

MCScripts ==
  {<<Do("n")>>, <<Do("N")>>, <<DoAt("N", Except(LastLine))>>,
   <<To(":", "a", Always), Do("N"), To("b", "a", Always)>>,
   <<To(":", "a", Always), DoAt("N", Except(LastLine)), To("b", "a", Except(LastLine)), Do("n")>>,
   <<Group(Range(Regex("a"), None), <<Do("n"), To("b", "e", Always), Do("n")>>), Do("n"),
     To(":", "e", Always)>>,
   <<To("T", "", Always), Do("n")>>,
   <<DoAt("N", Except(LastLine)), Do("P"), Do("D")>>,
   <<Do("n"), Do("d")>>,
   <<DoAt("G", Except(Line(1))), Do("h"), DoAt("d", Except(LastLine))>>,
   <<Subst("a", "b", TRUE), To("t", "", Always), Says("a", Always)>>,
   <<Says("i", Range(Line(2), None)), Says("c", Range(Regex("b"), None)), Do("=")>>,
   <<Do("H"), Do("x"), DoAt("q", Range(Line(2), None)), Do("z"), Do("g")>>,
   <<DoAt("Q", Range(LastLine, None)), DoAt("p", Range([kind |-> "step", line |-> 1, step |-> 2], None))>>,
   <<DoAt("p", Range(Regex("a"), [kind |-> "offset", offset |-> 1])),
     DoAt("p", Range(Line(3), Line(2)))>>}
  \cup {<<DoAt("p", r)>> : r \in {Range(Regex("a"), Regex("b")), Range(Regex("a"), Regex("a")),
                               Range(Line(2), Regex("a")), Except(Regex("b")), Range(LastLine, None)}}
Texts == UNION {[1 .. n -> {"a", "b"}] : n \in 0 .. 3}
MCInputs == {<<t>> : t \in Texts} \cup {<<<<"a">>, Missing>>, <<<<"a">>, <<"b", "a">>>>}

\* curl: two rules, one for a host below a domain and one for gets of a path.
Url(scheme, host, path) == [scheme |-> scheme, user |-> FALSE, host |-> host, port |-> 0, path |-> path]
AnyHost == [any |-> TRUE, wild |-> FALSE, labels |-> <<>>]
MCRules ==
  {[scheme |-> "https", host |-> [any |-> FALSE, wild |-> TRUE, labels |-> <<"org">>], port |-> 443,
    path |-> <<>>, methods |-> {}, headers |-> {}],
   [scheme |-> "", host |-> [any |-> FALSE, wild |-> FALSE, labels |-> <<"com">>], port |-> 0,
    path |-> <<"p">>, methods |-> {"GET"}, headers |-> {}],
   [scheme |-> "http", host |-> AnyHost, port |-> 80, path |-> <<"h">>, methods |-> {}, headers |-> {"Accept"}]}
MCUrls == {Url("https", <<"a", "org">>, <<>>), Url("http", <<"com">>, <<"p", "x">>),
           Url("http", <<"com">>, <<"p", "..", "x">>), Url("http", <<"net">>, <<"h">>),
           Url("https", <<"org">>, <<>>)}
Policy(max, private, own) == [rules |-> MCRules, maxRedirects |-> max, maxRequest |-> 1, maxResponse |-> 1,
                              allowPrivate |-> private, ownClient |-> own]
MCPolicies == {Policy(0, FALSE, FALSE), Policy(2, TRUE, FALSE), Policy(2, FALSE, TRUE), Policy(-1, FALSE, FALSE)}
NoBody == [kind |-> "none", size |-> 0, file |-> FALSE]
Body(kind, size) == [kind |-> kind, size |-> size, file |-> TRUE]
Curls(url, method, body, location, fail, head, output) ==
  [url |-> url, method |-> method, body |-> body, headers |-> {"Accept"}, location |-> location,
   fail |-> fail, headOnly |-> head, includeHeaders |-> fail, output |-> output, writeOut |-> output]
MCOptions ==
  {Curls(u, "", b, location, ~location, FALSE, location) :
     u \in MCUrls, b \in {NoBody, Body("upload", 1)}, location \in BOOLEAN}
  \cup {Curls(Url("https", <<"a", "org">>, <<>>), m, b, TRUE, FALSE, m = "HEAD", FALSE) :
          m \in {"GET", "HEAD"}, b \in {Body("data", 1), Body("form", 2)}}
MCAnswers == {[status |-> s, size |-> 1] : s \in {200, 302, 307, 404}} \cup {[status |-> 200, size |-> 2]}

\* tar: a tree s with files, a directory and links, and a destination d that may
\* have something in it.
s == "s"
d == "d"
MCTarOrder == <<"a", "b", "d", "s">>
MCTarPaths == {<<s>>, <<d>>} \cup {<<x>> \o n : x \in {s, d}, n \in {<<"a">>, <<"b">>, <<"b", "a">>}} \cup {<<d, s>>}
T == INSTANCE MemoryFS WITH Paths <- MCTarPaths, Ids <- 1 .. 10, Limit <- 0
Dir(p) == [do |-> "mkdir", path |-> p]
File(p, n) == [do |-> "write", path |-> p, size |-> n]
Link(target, p) == [do |-> "link", path |-> p, target |-> target]
Made(fs, step) ==
  CASE step.do = "mkdir" -> T!mkdir(fs, step.path).fs
    [] step.do = "write" -> T!writeFile(fs, step.path, step.size).fs
    [] step.do = "link"  -> T!symlink(fs, step.target, step.path).fs
TreeOf(steps) == Seqs!FoldLeft(Made, T!NewMemory, <<Dir(<<s>>), Dir(<<d>>)>> \o steps)
Steps1 == <<File(<<s, "a">>, 1), Dir(<<s, "b">>), File(<<s, "b", "a">>, 2)>>
MCTarTrees ==
  {TreeOf(steps) : steps \in
     {Steps1, Append(Steps1, Link(T!Absolute(<<s, "a">>), <<d, "a">>)),
      <<File(<<s, "a">>, 1), Link(T!Relative(0, <<"a">>), <<s, "b">>)>>,
      <<File(<<d, "a">>, 2), Dir(<<s, "b">>), Link(T!Relative(1, <<"a">>), <<s, "b", "a">>)>>}}
Tars(base, operands, strip, wanted, out, keep) ==
  [base |-> base, operands |-> operands, dest |-> <<d>>, strip |-> strip, wanted |-> wanted,
   toStdout |-> out, noOverwrite |-> keep]
MCTarOptions ==
  {Tars(<<s>>, <<<<"a">>, <<"b">>>>, 0, w, FALSE, keep) : keep \in BOOLEAN, w \in {{}, {<<"b">>}}}
  \cup {Tars(<<s>>, <<<<>>>>, strip, {}, out, FALSE) : strip \in 0 .. 1, out \in BOOLEAN}
Entry(name, type, size, target, to) ==
  [name |-> name, type |-> type, size |-> size, target |-> target, to |-> to]
MCArchives ==
  {<<Entry(<<"a">>, "file", 1, T!NoTarget, <<>>), Entry(<<"b">>, "hard", 0, T!NoTarget, <<"a">>)>>,
   <<Entry(<<"b", "a">>, "file", 2, T!NoTarget, <<>>), Entry(<<"..", "a">>, "file", 1, T!NoTarget, <<>>)>>}
MCTarOthers == {<<s, "a">>, <<s, "b">>}

\* gzip: a file, its compressed form, and one with a foreign name.
Gzips(names, decompress, stdout, test) ==
  [files |-> <<"f">> :> [text |-> 1, packed |-> 0] @@ <<"g", "gz">> :> [text |-> 2, packed |-> 1]
             @@ <<"h", "tgz">> :> [text |-> 3, packed |-> 1],
   names |-> names, opts |-> [decompress |-> decompress, stdout |-> stdout, test |-> test]]
MCGzips ==
  {Gzips(names, decompress, stdout, test) :
     names \in {<<<<"f">>>>, <<<<"g", "gz">>, <<"h", "tgz">>>>, <<<<"f">>, <<"x">>, <<"g", "gz">>>>},
     decompress, stdout, test \in BOOLEAN}

\* sqlite3: up to three runs on one database, or on two names of it.
Insert(row, flips) == [does |-> "insert", row |-> row, flips |-> flips]
Just(does) == [does |-> does, flips |-> FALSE]
Asks(database, statements, bail, ends) ==
  [database |-> database, statements |-> statements, readonly |-> FALSE, bail |-> bail, mayEnd |-> ends]
Reads == [Asks("db", <<Insert(9, FALSE), Just("select")>>, FALSE, FALSE) EXCEPT !.readonly = TRUE]
Quotes == Asks("db", <<[does |-> "select", flips |-> TRUE], Insert(8, FALSE), Insert(7, TRUE), Insert(6, FALSE)>>,
               FALSE, FALSE)
MCSqlite ==
  {<<Asks("db", <<Insert(1, FALSE)>>, FALSE, FALSE), Asks("db", <<Insert(2, FALSE), Just("fail"), Insert(3, FALSE)>>,
     bail, TRUE), Asks(other, <<Just("attach"), Insert(4, FALSE), Just("select")>>, FALSE, FALSE)>> :
     bail \in BOOLEAN, other \in {"db", "link"}}
  \cup {<<Reads, Quotes, Asks("db", <<Insert(5, TRUE), Just("fail"), Just("select")>>, TRUE, TRUE)>>}
MCFiles == {Absent, Rows(<<0>>), Rows(<<0, 0, 0, 0, 0, 0>>)}

\* awk: programs by what they do with records, fields, loops and calls.
Lit(n) == [op |-> "lit", val |-> Num(n)]
Text(x) == [op |-> "lit", val |-> Str(<<x>>)]
Var(name) == [op |-> "var", name |-> name]
Field(e) == [op |-> "field", index |-> e]
Elem(name, e) == [op |-> "elem", name |-> name, index |-> e]
Match(x) == [op |-> "regex", pattern |-> x]
Set(left, e) == [op |-> "=", left |-> left, right |-> e]
Bin(op, left, e) == [op |-> op, left |-> left, right |-> e]
Call(name, args) == [op |-> "call", name |-> name, args |-> args]
By(op, e, n) == [op |-> op, expr |-> e, by |-> n]
Expr(e) == [do |-> "expr", expr |-> e]
Shows(exprs) == [do |-> "print", exprs |-> exprs]
Return(e) == [do |-> "return", expr |-> e]
If(cond, yes, no) == [do |-> "if", cond |-> cond, yes |-> yes, no |-> no]
Stop(how) == [do |-> how]
On(pattern, action) == [kind |-> "main", pattern |-> pattern, action |-> action]
Outside(kind, action) == [kind |-> kind, pattern |-> <<>>, action |-> action]
Program(is, n, funcs, rules) == [is |-> is, n |-> n, funcs |-> funcs, rules |-> rules]
Plain == [x \in {} |-> Unset]
f(params, body) == "f" :> [params |-> params, body |-> body]
Less(e) == Bin("-", e, Lit(1))
Deep == f(<<"n">>, <<If(Bin("<", Var("n"), Lit(1)), <<Return(Lit(0))>>, <<>>),
                     Return(Bin("+", Call("f", <<Less(Var("n"))>>), Lit(1)))>>)
UpTo(n) == Bin("<", Var("i"), Lit(n))
UpFor(n) == [do |-> "for", init |-> Set(Var("i"), Lit(0)), cond |-> UpTo(n), post |-> By("post", Var("i"), 1), body |-> <<>>]
UpWhile(n) == [do |-> "while", cond |-> UpTo(n), body |-> <<Expr(By("pre", Var("i"), 1))>>]
MCAwk ==
  {Program("range", 0, Plain, <<On(<<Match(100), Match(101)>>, <<Shows(<<>>)>>)>>),
   Program("pairs", 0, Plain, <<On(<<>>, <<Expr(Call("getline", <<>>)), Shows(<<>>)>>)>>),
   Program("count", 0, Plain,
     <<On(<<>>, <<Expr(Bin("+=", Elem("t", Field(Lit(0))), Lit(1)))>>),
       Outside("end", <<[do |-> "forin", name |-> "k", array |-> "t",
                         body |-> <<Shows(<<Var("k"), Elem("t", Var("k"))>>)>>]>>)>>),
   Program("nextfile", 0, f(<<>>, <<Stop("next"), Shows(<<Text(100)>>)>>),
     <<On(<<Match(101)>>, <<Stop("nextfile")>>), On(<<>>, <<Expr(Call("f", <<>>)), Stop("next")>>),
       On(<<>>, <<Shows(<<>>)>>)>>),
   Program("fields", 0, Plain,
     <<On(<<>>, <<Expr(Set(Field(Lit(3)), Text(101))), Shows(<<Var("NF"), Field(Lit(2)), Field(Lit(9))>>),
                  Expr(Call("gsub", <<Text(100), Lit(7)>>)), Expr(Call("sub", <<Text(101), Lit(8), Field(Lit(1))>>)),
                  If([op |-> "&&", left |-> [op |-> "!", expr |-> Field(Lit(1))],
                      right |-> [op |-> "in", left |-> Lit(1), right |-> Var("a")]],
                     <<Expr(Set(Field(Lit(0)), Text(100)))>>,
                     <<Expr(Call("split", <<Field(Lit(0)), Var("a"), Text(Comma)>>))>>),
                  [do |-> "delete", array |-> "a", index |-> Lit(2)],
                  Shows(<<Elem("a", Lit(1)), Call("length", <<>>),
                          [op |-> "?", cond |-> Bin("~", Field(Lit(1)), Text(7)), yes |-> Var("NR"), no |-> Var("FNR")]>>),
                  If([op |-> "||", left |-> Bin("==", Field(Lit(2)), Lit(7)), right |-> Lit(0)],
                     <<[do |-> "deleteAll", array |-> "a"]>>, <<Shows(<<Bin("concat", Text(100), Var("x"))>>)>>)>>)>>),
   Program("into", 0, Plain,
     <<On(<<Match(100)>>, <<Expr(Call("getline", <<Field(Lit(2))>>)), Shows(<<>>)>>),
       On(<<Bin("<", Text(100), Field(Lit(1)))>>, <<Expr(Call("getline", <<Elem("a", Var("NR"))>>)), Return(Lit(1))>>)>>),
   Program("unknown", 0, Plain, <<On(<<Match(101)>>, <<Expr(Call("system", <<Lit(1)>>)), Shows(<<>>)>>)>>)}
  \cup {Program("depth", n, Deep, <<Outside("begin", <<Shows(<<Call("f", <<Lit(n)>>)>>)>>)>>) : n \in 1 .. 4}
  \cup {Program("for", n, Plain, <<Outside("begin", <<UpFor(n), Shows(<<Var("i")>>)>>)>>) : n \in 1 .. 4}
  \cup {Program("while", n, Plain, <<Outside("end", <<UpWhile(n), Shows(<<Var("i")>>)>>)>>) : n \in {3, 5}}
\* What awk reads: every expression of two operators, the programs above with
\* each of their beginnings, and statements inside statements.
Var1 == {Var("x"), Lit(1)}
Places1(es) == {Var("x")} \cup {Field(e) : e \in es} \cup {Elem("a", e) : e \in es}
Combined(es, fs) ==
  {Bin(op, e, x) : op \in {"||", "&&", "==", "concat", "-", "*", "/"}, e \in es, x \in fs}
  \cup {Bin("in", e, Var("a")) : e \in es}
  \cup {[op |-> op, expr |-> e] : op \in {"!", "neg"}, e \in es}
  \cup {By(op, e, n) : op \in {"pre", "post"}, n \in {1, -1}, e \in Places1(es)}
  \cup {[op |-> "?", cond |-> e, yes |-> x, no |-> e] : e \in es, x \in fs}
  \cup {Bin(op, Var("x"), e) : op \in {"=", "+="}, e \in es} \cup {Bin("=", Field(e), e) : e \in es}
  \cup {Call("f", <<e, x>>) : e \in es, x \in fs} \cup {Call("getline", <<e>>) : e \in Places1(es)}
  \cup {Call("getline", <<>>), Match(100)} \cup Places1(es)
Once1 == Combined(Var1, {Var("x")})
Twice == Combined(Once1, {Var("x")}) \cup Combined({Var("x")}, Once1)
Nested == <<[do |-> "for", init |-> NoExpr, cond |-> NoExpr, post |-> NoExpr, body |-> <<Stop("nextfile")>>],
           [do |-> "while", cond |-> Lit(1), body |-> <<If(Var("x"), <<If(Lit(1), <<Shows(<<Var("x"), Lit(1)>>)>>, <<>>)>>,
                                                        <<Stop("next"), Return(Lit(1))>>)>>]>>
MCAwkTexts ==
  {[program |-> p, cut |-> p.is # "depth" /\ p.is # "for"] : p \in MCAwk}
  \cup {[program |-> Program("text", 0, Plain, <<On(<<e>>, PrintsRecord)>>), cut |-> FALSE] : e \in Twice}
  \cup {[program |-> Program("text", 0, f(<<"x", "y">>, Nested), <<Outside("end", Nested)>>), cut |-> TRUE]}
MCSeparators == {Comma, Space}
AwkLines == {<<100>>, <<101>>, <<100, Space, Space, 101>>, <<>>}
MCAwkInputs == {<<one>> : one \in UNION {[1 .. n -> AwkLines] : n \in 0 .. 3}}
               \cup {<<one, two>> : one, two \in UNION {[1 .. n -> {<<100>>, <<101>>}] : n \in 0 .. 2}}

\* grep and rg: a tree with hidden and nested files, ignore files that undo each
\* other, a directory that is passed over, and lines with 0, 1 or 2 matches.
Ignored(p, rooted, dirOnly, negated) == [path |-> p, rooted |-> rooted, dirOnly |-> dirOnly, negated |-> negated]
Places(folders, contents) == [p \in folders |-> Folder] @@ contents
MCGrepTrees ==
  {Places({<<>>, <<1>>, <<3>>, <<1, 1>>},
     <<2>> :> TextFile(<<0, 1, 0, 0, 2, 1, 0>>) @@ <<1, 2>> :> TextFile(<<1, 1, 0, 0, 0, 1>>)
       @@ <<1, -1>> :> TextFile(<<1>>) @@ <<3, 1>> :> TextFile(<<1>>) @@ <<1, 1, 1>> :> TextFile(<<0>>)
       @@ <<0>> :> IgnoreFile(<<Ignored(<<2>>, FALSE, FALSE, FALSE)>>)
       @@ <<1, 0>> :> IgnoreFile(<<Ignored(<<2>>, TRUE, FALSE, TRUE), Ignored(<<-1>>, FALSE, FALSE, TRUE),
                                   Ignored(<<1>>, FALSE, TRUE, FALSE)>>)),
   Places({<<>>, <<1>>, <<1, 1>>, <<1, 1, 1>>},
     <<1, 2>> :> TextFile(<<0, 0>>) @@ <<1, 1, 2>> :> TextFile(<<2, 0, 1>>) @@ <<1, 1, 1, 2>> :> TextFile(<<1>>))}
Greps(tool, operands, show) ==
  [tool |-> tool, operands |-> operands, recursive |-> TRUE, invert |-> FALSE, max |-> 0, show |-> show,
   before |-> 0, after |-> 0, zero |-> FALSE, include |-> {}, exclude |-> {}, excludeDir |-> {},
   noIgnore |-> FALSE, stdin |-> <<1, 0, 1>>]
MCGreps ==
  {Greps(tool, <<<<>>>>, show) : tool \in {"grep", "rg"},
     show \in {"lines", "count", "matches", "only", "through", "list", "without", "quiet"}}
  \cup {[Greps(tool, <<<<2>>, <<1>>, <<4>>>>, show) EXCEPT !.recursive = tool = "rg"] :
          tool \in {"grep", "rg"}, show \in {"lines", "list", "quiet"}}
  \cup {[Greps(tool, <<<<1>>>>, "lines") EXCEPT !.before = b, !.after = a, !.max = max, !.invert = invert,
                                               !.noIgnore = TRUE] :
          tool \in {"grep", "rg"}, b, a \in 0 .. 1, max \in {0, 2}, invert \in BOOLEAN}
  \cup {[Greps("grep", <<<<1>>>>, "count") EXCEPT !.include = i, !.exclude = {1}, !.excludeDir = x] :
          i, x \in {{}, {1}, {2}}}
  \cup {[Greps("rg", <<<<>>>>, "count") EXCEPT !.zero = TRUE]}
  \cup {Greps(tool, <<>>, show) : tool \in {"grep", "rg"}, show \in {"lines", "without"}}
  \cup {[Greps("rg", <<>>, "lines") EXCEPT !.stdin = <<>>]}

\* What find reads: every tree of two operators over tests and actions, one with
\* global options in front, and one cut off anywhere.
FindLeaves == {Test("-name", "a"), Action("-delete", <<>>)}
Nodes(es, fs) == {Two(op, x, y) : op \in {"and", "or"}, x \in es, y \in fs} \cup {Not(x) : x \in es}
FindOne == Nodes(FindLeaves, FindLeaves)
MCFindTexts ==
  {[expr |-> x, before |-> <<>>, cut |-> FALSE, valid |-> TRUE] :
     x \in FindOne \cup Nodes(FindOne, FindOne) \cup Nodes(FindOne, FindLeaves) \cup Nodes(FindLeaves, FindOne)}
  \cup {[before |-> <<"-maxdepth", "1", "-depth">>, cut |-> TRUE, valid |-> TRUE,
         expr |-> Two("and", Two("or", Two("and", Not(Test("-type", "d")), Action("-printf", <<"f">>)),
                                  Two("and", Test("-size", "+1"), Action("exec", <<"c", "{}", "{}">>))),
                      Not(Two("or", Test("-empty", ""), Action("execAll", <<"c", "{}">>))))]}
  \cup {[before |-> <<>>, cut |-> FALSE, valid |-> FALSE, expr |-> Action("execAll", <<"{}", "c">>)],
        [before |-> <<>>, cut |-> FALSE, valid |-> FALSE, expr |-> Test("-mtime", "x")]}

\* expr: every tree of two operators over numbers and texts, and the words.
Word(symbols) == [op |-> "text", text |-> symbols]
ExprLeaves == {Word(<<7>>), Word(<<0>>), Word(<<1, 2, 7>>), Word(<<100, 7>>), Word(<<Minus, 2>>)}
Binary(ops, es, fs) == {Two(op, x, y) : op \in ops, x \in es, y \in fs}
ExprOne == Binary({"|", "&", "=", "<", "+", "-", "*", "/", "%", ":"}, ExprLeaves, {Word(<<7>>), Word(<<0>>)})
MCExprTexts ==
  {[expr |-> x, cut |-> FALSE] :
     x \in ExprLeaves \cup ExprOne \cup Binary({"|", "&", "=", "<", "-", "/", ":"}, ExprOne, {Word(<<7>>)})
             \cup Binary({"&", "=", "<", "-", "*"}, {Word(<<7>>)}, ExprOne)}
  \cup {[cut |-> TRUE, expr |-> Two("+", Two("*", Two("+", [op |-> "length", args |-> <<Word(<<100, 101>>)>>], Word(<<1>>)),
                                             [op |-> "index", args |-> <<Word(<<100, 7>>), Word(<<7, 8>>)>>]),
          Two("-", [op |-> "substr", args |-> <<Word(<<1, 2, 3, 4>>), Word(<<2>>), Word(<<2>>)>>],
                   [op |-> "match", args |-> <<Word(<<100, 101, 102>>), Word(<<101, 102>>)>>]))]}

\* Commands on files: each alone with its options and operands, and pairs of
\* them at the same time, over a tree without links and one with them.
FilePathsOf == {<<"s">>, <<"s", "a">>, <<"s", "b">>, <<"s", "b", "a">>}
MCFilePaths == FilePathsOf \cup {<<x>> : x \in {"a", "b", "d", "t"}} \cup {<<"d">> \o p : p \in FilePathsOf}
               \cup {<<x, "a">> : x \in {"d", "t"}} \cup {<<x, "b">> : x \in {"d", "t"}}
               \cup {<<"d", "b", "a">>, <<"t", "b", "a">>, <<"s", "b", "b">>, <<"d", "b", "b">>}
FS == INSTANCE MemoryFS WITH Paths <- MCFilePaths, Ids <- 1 .. 14, Limit <- 9
Made1(fs, step) ==
  CASE step.do = "mkdir" -> FS!mkdir(fs, step.path).fs
    [] step.do = "write" -> FS!writeFile(fs, step.path, step.size).fs
    [] step.do = "link"  -> FS!symlink(fs, step.target, step.path).fs
FileTree1(steps) == Seqs!FoldLeft(Made1, FS!NewMemory, <<Dir(<<s>>), Dir(<<d>>), File(<<s, "a">>, 1), File(<<"a">>, 3)>> \o steps)
MCFileTrees == {FileTree1(<<Dir(<<s, "b">>), File(<<s, "b", "a">>, 2)>>),
                FileTree1(<<Link(FS!Absolute(<<s, "a">>), <<s, "b">>), File(<<d, "b">>, 2), Link(FS!Absolute(<<d, "b">>), <<"b">>)>>)}
Does(does, flags, operands, dest) ==
  [does |-> does, flags |-> flags, operands |-> operands, dest |-> dest, amount |-> 2]
Some1 == {<<<<"a">>>>, <<<<s>>>>, <<<<s, "b">>>>, <<<<"t">>>>, <<<<s, "b">>, <<"a">>>>}
Dests == {<<d>>, <<"b">>, <<"t">>, <<s, "b">>, <<"t", "a">>}
MCFileAlone ==
  {Does("cp", flags, o, to) : flags \in {{}, {"r"}, {"r", "n"}}, o \in Some1 \cup {<<<<s>>, <<"a">>>>}, to \in Dests}
  \cup {Does("mv", {}, o, to) : o \in {x \in Some1 : Len(x) = 1}, to \in Dests}
  \cup {Does("rm", flags, o, <<>>) : flags \in SUBSET {"r", "f"}, o \in Some1}
  \cup {Does("mktemp", flags, <<o>>, <<>>) : flags \in SUBSET {"d"}, o \in {<<s>>, <<"t">>, <<"a">>}}
  \cup {Does("install", flags, o, to) : flags \in SUBSET {"D", "d"}, o \in Some1, to \in Dests}
  \cup {Does("ln", flags, o, to) : flags \in SUBSET {"f", "s"}, o \in {x \in Some1 : Len(x) = 1}, to \in Dests}
  \cup {Does("rmdir", flags, <<o>>, <<>>) : flags \in SUBSET {"p"}, o \in {<<d>>, <<s, "b">>, <<"a">>, <<"t">>}}
  \cup {Does("mkdir", flags, o, <<>>) : flags \in SUBSET {"p"}, o \in Some1 \cup {<<<<"t", "a">>, <<"t", "b">>>>}}
  \cup {Does(does, {}, o, <<>>) : does \in {"touch", "unlink"}, o \in {x \in Some1 : Len(x) = 1} \cup {<<<<"b">>>>}}
  \cup {[Does("split", flags, <<<<"a">>>>, <<d>>) EXCEPT !.amount = n] : flags \in SUBSET {"n", "d"}, n \in 0 .. 3}
MCFilePairs ==
  {<<one, two>> :
     one \in {Does("mktemp", flags, <<<<d>>>>, <<>>) : flags \in SUBSET {"d"}} \cup {Does("mv", {}, <<<<s>>>>, <<"t">>)},
     two \in {Does("mktemp", {}, <<<<d>>>>, <<>>), Does("rmdir", {"p"}, <<<<d>>>>, <<>>), Does("rm", {"r"}, <<<<s>>>>, <<>>),
              Does("cp", {"r"}, <<<<s>>>>, <<d>>), Does("install", {}, <<<<s, "a">>>>, <<d>>),
              Does("ln", {}, <<<<"a">>>>, <<d, "a">>), Does("mv", {}, <<<<s, "a">>>>, <<d, "a">>)}}
MCFileOrder == <<"a", "b", "d", "s", "t">>
MCPieceNames == <<"a", "b", "s">>
MCFileJobs == {<<one>> : one \in MCFileAlone} \cup MCFilePairs

Init == \/ XargsInit
        \/ command = "find" /\ state \in FindStartStates
        \/ command = "sed" /\ state \in SedStartStates
        \/ CurlInit
        \/ command = "tar" /\ state \in TarStarts
        \/ command = "gzip" /\ state \in GzipStarts
        \/ command = "awk" /\ state \in AwkStarts
        \/ state \in GrepStarts /\ command = state.opts.tool
        \/ command = "awk parser" /\ state \in AwkParserStarts
        \/ SqliteInit
        \/ command = "find parser" /\ state \in FindParserStarts
        \/ command = "expr" /\ state \in ExprStarts
        \/ command = "files" /\ state \in FilesStarts

Finished == state.phase = "done" /\ UNCHANGED commandVars

Next == XargsNext \/ FindNext \/ SedNext \/ CurlNext \/ ArchiveNext \/ SqliteNext \/ AwkNext \/ AwkParserNext \/ GrepNext
        \/ FindParserNext \/ commandExpr \/ FilesNext \/ Finished

Spec == Init /\ [][Next]_commandVars
=============================================================================
