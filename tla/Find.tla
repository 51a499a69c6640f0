-------------------------------- MODULE Find --------------------------------
(* find (src/internal/commands/files/find.go): a walk that only looks, one   *)
(* entry at a time, and collects what is to be done, then the doing, one     *)
(* effect at a time. The tree may change under both: by the commands find    *)
(* runs, by its own deletions and by other jobs. A path is the sequence of   *)
(* its names below the first starting point, and names are numbers so that   *)
(* they have an order.                                                       *)
EXTENDS CommandRun

CONSTANTS
  FindTrees,     \* path -> "dir", "file"
  FindQueries,   \* expr, maxDepth, minDepth (-1: none), depth
  FindStarts,    \* sequences of starting points
  MaxOthers      \* changes other jobs make during one run

Under(tree, p) == {q \in DOMAIN tree : Seqs!IsPrefix(p, q)}
Children(tree, p) == {q \in Under(tree, p) : Len(q) = Len(p) + 1}
Without(tree, S) == [q \in DOMAIN tree \ S |-> tree[q]]

-----------------------------------------------------------------------------
(* Expressions: test, prune, action, not, and, or.                           *)

Operands(e) == IF e.op = "not" THEN <<e.left>> ELSE IF e.op \in {"and", "or"} THEN <<e.left, e.right>>
               ELSE <<>>

\* collectFindActions, expressionNeedsFindEmpty and expressionHasFindPrune are
\* the leaves of an expression that satisfy something, left to right.
RECURSIVE Leaves(_)
Leaves(e) == IF Operands(e) = <<>> THEN <<e>>
             ELSE Seqs!FlattenSeq([i \in DOMAIN Operands(e) |-> Leaves(Operands(e)[i])])

Has(e, op) == \E i \in DOMAIN Leaves(e) : Leaves(e)[i].op = op
hasAction(e) == Has(e, "print") \/ Has(e, "delete") \/ Has(e, "exec") \/ Has(e, "execAll")

Holds(e, node) ==
  CASE e.op = "name"  -> node.path # <<>> /\ node.path[Len(node.path)] = e.name
    [] e.op = "type"  -> (e.name = "dir") = node.isDir
    [] e.op = "empty" -> node.isEmpty
    [] OTHER          -> TRUE

Result(matches, pruned, actions) == [matches |-> matches, pruned |-> pruned, actions |-> actions]

RECURSIVE evalFindExpression(_, _)
evalFindExpression(e, node) ==
  IF e.op = "not" THEN
    LET inner == evalFindExpression(e.left, node) IN [inner EXCEPT !.matches = ~@]
  ELSE IF e.op \in {"and", "or"} THEN
    LET left == evalFindExpression(e.left, node)
        right == evalFindExpression(e.right, node)
    IN  IF left.matches = (e.op = "or") THEN left
        ELSE Result(right.matches, left.pruned \/ right.pruned, left.actions \o right.actions)
  ELSE Result(Holds(e, node), e.op = "prune",
              IF e.op \in {"print", "delete", "exec", "execAll"} THEN <<e.op>> ELSE <<>>)

\* Leaves the order to -depth alone.
depthAsAsked(query) == query.depth

\* -delete walks depth first whether or not -depth is given.
depthFirst(query) == query.depth \/ Has(query.expr, "delete")

\* What is to be done with an entry: the actions reached, or print if none is
\* named anywhere.
findNodeEffects(query, node) ==
  LET r == evalFindExpression(query.expr, node)
      actions == IF hasAction(query.expr) THEN r.actions
                 ELSE IF r.matches THEN <<"print">> ELSE <<>>
  IN  IF node.depth < query.minDepth THEN <<>>
      ELSE [i \in DOMAIN actions |-> [do |-> actions[i], path |-> node.path]]

-----------------------------------------------------------------------------
(* The walk: todo holds the entries still to visit and the directories still *)
(* to leave, innermost first.                                                *)

Visit(p, depth) == [leave |-> FALSE, path |-> p, depth |-> depth]

FindStartStates ==
  {[phase |-> "walk", tree |-> tree, query |-> query, effects |-> <<>>, at |-> 1,
    starts |-> starts, todo |-> [i \in DOMAIN starts |-> Visit(starts[i], 0)],
    printed |-> <<>>, ran |-> <<>>, batched |-> FALSE, others |-> 0, was |-> tree, code |-> 0] :
     tree \in FindTrees, query \in FindQueries, starts \in FindStarts}

Deeper(query, depth) == query.maxDepth < 0 \/ depth < query.maxDepth

\* Names in order; a directory that is acted on after its contents is left
\* with what was seen of it on the way in.
Ordered(S) == Seqs!SetToSortSeq(S, LAMBDA p, q : p[Len(p)] < q[Len(q)])

Entered(node, query) ==
  LET pruned == ~depthFirst(query) /\ evalFindExpression(query.expr, node).pruned
      kids == IF node.isDir /\ ~pruned /\ Deeper(query, node.depth)
              THEN Ordered(Children(state.tree, node.path)) ELSE <<>>
      leave == [leave |-> TRUE, node |-> node]
  IN  [i \in DOMAIN kids |-> Visit(kids[i], node.depth + 1)]
        \o (IF depthFirst(query) THEN <<leave>> ELSE <<>>)

\* An entry that is gone by the time it is looked at is passed over in
\* silence, a starting point with a complaint.
FindVisit ==
  /\ Runs("find", "walk") /\ state.todo # <<>> /\ ~Head(state.todo).leave
  /\ LET p == Head(state.todo).path
         depth == Head(state.todo).depth
         query == state.query
         node == [path |-> p, depth |-> depth, isDir |-> state.tree[p] = "dir",
                  isEmpty |-> state.tree[p] = "file" \/ Children(state.tree, p) = {}]
     IN  Becomes(
           IF p \notin DOMAIN state.tree
           THEN [state EXCEPT !.todo = Tail(@), !.code = IF depth = 0 THEN 1 ELSE @]
           ELSE [state EXCEPT
                   !.todo = Entered(node, query) \o Tail(@),
                   !.effects = IF depthFirst(query) THEN @ ELSE @ \o findNodeEffects(query, node)])

FindLeave ==
  /\ Runs("find", "walk") /\ state.todo # <<>> /\ Head(state.todo).leave
  /\ Becomes([state EXCEPT !.todo = Tail(@),
                           !.effects = @ \o findNodeEffects(state.query, Head(state.todo).node)])

FindWalked ==
  /\ Runs("find", "walk") /\ state.todo = <<>>
  /\ Becomes([state EXCEPT !.phase = "act"])

-----------------------------------------------------------------------------
(* The effects, in the order they were collected.                            *)

Effect == state.effects[state.at]
Acts(do) == Runs("find", "act") /\ state.at <= Len(state.effects) /\ Effect.do = do
Next1(s) == [s EXCEPT !.at = @ + 1]

FindPrint ==
  /\ Acts("print")
  /\ Becomes(Next1([state EXCEPT !.printed = Append(@, Effect.path)]))

\* rmdir or unlink: fails for a directory with something in it, and for an
\* entry that is gone.
FindDelete ==
  /\ Acts("delete")
  /\ Becomes(Next1(
       IF Under(state.tree, Effect.path) = {Effect.path}
       THEN [state EXCEPT !.tree = Without(@, {Effect.path})]
       ELSE [state EXCEPT !.code = 1]))

\* A command find runs may remove what it is given.
After(paths, removes) ==
  IF removes THEN Without(state.tree, UNION {Under(state.tree, paths[i]) : i \in DOMAIN paths})
  ELSE state.tree

\* Its exit code counts for nothing.
FindExec(removes) ==
  /\ Acts("exec")
  /\ Becomes(Next1([state EXCEPT !.ran = Append(@, <<Effect.path>>),
                                 !.tree = After(<<Effect.path>>, removes)]))

\* {} +: all the paths at the place of the first.
Batch ==
  LET mine == SelectSeq(state.effects, LAMBDA e : e.do = "execAll")
  IN  [i \in DOMAIN mine |-> mine[i].path]

FindExecAll(removes, fails) ==
  /\ Acts("execAll")
  /\ Becomes(Next1(
       IF state.batched THEN state
       ELSE [state EXCEPT !.batched = TRUE, !.ran = Append(@, Batch),
                          !.tree = After(Batch, removes), !.code = IF fails THEN 1 ELSE @]))

FindEnds ==
  /\ Runs("find", "act") /\ state.at > Len(state.effects)
  /\ Becomes(Done(state.code))

\* Another job removes an entry with all below it, or makes a file.
FindOthers(p) ==
  /\ command = "find" /\ state.phase # "done" /\ state.others < MaxOthers /\ p # <<>>
  /\ \/ /\ p \in DOMAIN state.tree
        /\ Becomes([state EXCEPT !.tree = Without(@, Under(@, p)), !.others = @ + 1])
     \/ /\ p \notin DOMAIN state.tree
        /\ Seqs!Front(p) \in DOMAIN state.tree /\ state.tree[Seqs!Front(p)] = "dir"
        /\ Becomes([state EXCEPT !.tree = [q \in DOMAIN @ \cup {p} |-> IF q = p THEN "file" ELSE @[q]],
                                 !.others = @ + 1])

FindNext ==
  \/ FindVisit \/ FindLeave \/ FindWalked \/ FindPrint \/ FindDelete \/ FindEnds
  \/ \E removes, fails \in BOOLEAN : FindExecAll(removes, fails)
  \/ \E removes \in BOOLEAN : FindExec(removes)
  \/ \E p \in UNION {DOMAIN tree : tree \in FindTrees} : FindOthers(p)

-----------------------------------------------------------------------------
NodeOf(p, start) ==
  [path |-> p, depth |-> Len(p) - Len(start), isDir |-> state.was[p] = "dir",
   isEmpty |-> state.was[p] = "file" \/ Children(state.was, p) = {}]

\* The entries find has to look at, from the tree alone: those below the start,
\* no deeper than -maxdepth, and not below a pruned one.
InReach(start) ==
  LET pruned(p) == /\ ~depthFirst(state.query)
                   /\ evalFindExpression(state.query.expr, NodeOf(p, start)).pruned
  IN  {p \in Under(state.was, start) :
         /\ state.query.maxDepth < 0 \/ Len(p) - Len(start) <= state.query.maxDepth
         /\ \A a \in Under(state.was, start) : Seqs!IsStrictPrefix(a, p) => ~pruned(a)}

\* Pre-order, or post-order: names in order, a directory before or after what
\* is below it.
Precedes(p, q) ==
  IF Seqs!IsPrefix(p, q) \/ Seqs!IsPrefix(q, p)
  THEN IF depthFirst(state.query) THEN Len(p) > Len(q) ELSE Len(p) < Len(q)
  ELSE LET i == CHOOSE i \in DOMAIN p : p[i] # q[i] /\ \A j \in 1 .. i - 1 : p[j] = q[j]
       IN  p[i] < q[i]

Wanted(start) ==
  LET order == Seqs!SetToSortSeq(InReach(start), Precedes)
  IN  Seqs!FlattenSeq([i \in DOMAIN order |-> findNodeEffects(state.query, NodeOf(order[i], start))])

\* A walk no one interfered with looks at every entry in reach exactly once,
\* in order, and at nothing else; and -delete then removes exactly the entries
\* it selected, except that a directory with something unselected in it stays
\* and is an error: no deletion fails for coming too early (find.go:544-621,
\* 155-158, 197-201).
FindFinds ==
  command = "find" /\ state.others = 0 /\ Len(state.starts) = 1 /\ state.starts[1] \in DOMAIN state.was =>
    /\ state.phase \in {"act", "done"} => state.effects = Wanted(state.starts[1])
    /\ state.phase = "done" /\ state.ran = <<>> =>
         LET doomed == {e.path : e \in {e \in Seqs!ToSet(state.effects) : e.do = "delete"}}
             gone == {p \in doomed : Under(state.was, p) \subseteq doomed}
         IN  /\ state.tree = Without(state.was, gone)
             /\ state.code = 0 <=> gone = doomed
=============================================================================
