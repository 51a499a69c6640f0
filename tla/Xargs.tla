------------------------------- MODULE Xargs -------------------------------
(* xargs (src/internal/commands/utilities/xargs.go): the items of the input  *)
(* are cut into argument lists, the lists run in waves of at most -P at a    *)
(* time, each child with buffers of its own, and the buffers are printed in  *)
(* the order of the lists once all of them have run.                         *)
EXTENDS CommandRun

CONSTANTS
  XargsItems,      \* the inputs, as the sequences of items they split into
  XargsNumbers,    \* what -n and -P may ask for, 0 without them
  XargsCodes       \* exit codes of children

Items == UNION {Seqs!ToSet(items) : items \in XargsItems}
ASSUME XargsAssumption == XargsItems \subseteq Seq(Items) /\ XargsNumbers \subseteq Nat /\ XargsCodes \subseteq Nat

XargsStart(items, n, each, p) ==
  [phase |-> "split", items |-> items, maxArgs |-> n, replacement |-> each,
   maxProcesses |-> p, invocations |-> <<>>, next |-> 1, running |-> {},
   results |-> <<>>, stdout |-> <<>>, code |-> 0]
XargsStarts ==
  {XargsStart(items, n, each, p) :
     items \in XargsItems, n \in XargsNumbers, each \in BOOLEAN, p \in XargsNumbers}
XargsInit == command = "xargs" /\ state \in XargsStarts

NotYet == [stdout |-> <<>>, exitCode |-> -1]

\* Whole batches only: what is left over is not run.
WholeBatches(items, n) ==
  [i \in 1 .. (Len(items) \div n) |-> SubSeq(items, (i - 1) * n + 1, i * n)]

Batches(items, n) ==
  [i \in 1 .. ((Len(items) + n - 1) \div n) |->
     SubSeq(items, (i - 1) * n + 1, Smaller(i * n, Len(items)))]

\* An argument list is the items it carries: the command's words do not matter.
buildXargsInvocations(items, n, each) ==
  IF each \/ n > 0 THEN Batches(items, IF each THEN 1 ELSE n) ELSE <<items>>

XargsSplit ==
  /\ Runs("xargs", "split")
  /\ LET lists == buildXargsInvocations(state.items, state.maxArgs, state.replacement) IN
     Becomes(IF state.items = <<>> THEN Done(0)
             ELSE [state EXCEPT !.phase = "launch", !.invocations = lists,
                                !.results = [i \in DOMAIN lists |-> NotYet]])

\* The next wave; without -P a wave is one list.
Wave == state.next .. Smaller(state.next + Larger(state.maxProcesses, 1) - 1,
                              Len(state.invocations))

XargsLaunch ==
  /\ Runs("xargs", "launch") /\ state.next <= Len(state.invocations)
  /\ Becomes([state EXCEPT !.phase = "wait", !.running = Wave, !.next = @ + Cardinality(Wave)])

\* Children of a wave end in any order.
XargsChildEnds(i, code) ==
  /\ Runs("xargs", "wait") /\ i \in state.running
  /\ Becomes([state EXCEPT !.running = @ \ {i},
                           !.results[i] = [stdout |-> state.invocations[i], exitCode |-> code]])

XargsWaveEnds ==
  /\ Runs("xargs", "wait") /\ state.running = {}
  /\ Becomes([state EXCEPT !.phase = "launch"])

\* The exit code of the last child that failed.
LastFailure(results) ==
  LET failed == {i \in DOMAIN results : results[i].exitCode # 0}
  IN  IF failed = {} THEN 0 ELSE results[Sets!Max(failed)].exitCode

XargsPrint ==
  /\ Runs("xargs", "launch") /\ state.next > Len(state.invocations)
  /\ Becomes([Done(LastFailure(state.results)) EXCEPT
       !.stdout = Seqs!FlattenSeq([i \in DOMAIN state.results |-> state.results[i].stdout])])

XargsNext ==
  \/ XargsSplit \/ XargsLaunch \/ XargsWaveEnds \/ XargsPrint
  \/ command = "xargs" /\ \E i \in DOMAIN state.results, code \in XargsCodes : XargsChildEnds(i, code)

XargsSpec == XargsInit /\ [][XargsNext]_commandVars

-----------------------------------------------------------------------------
\* Whatever the number of processes and the order they end in, every item
\* reaches exactly one child, in the order of the input, no child gets more
\* than -n of them, no more than -P children run at once, none starts before
\* the wave before it has ended, and a failure is never lost
\* (xargs.go:72-81, 302-324).
XargsDelivers ==
  command = "xargs" =>
    /\ Cardinality(state.running) <= Larger(state.maxProcesses, 1)
    /\ \A i \in DOMAIN state.results :
         /\ state.results[i] # NotYet =>
              \A j \in 1 .. i - 1 : state.results[j] # NotYet \/ j \in state.running
         /\ state.maxArgs > 0 => Len(state.invocations[i]) <= state.maxArgs
    /\ state.phase = "done" =>
         /\ state.stdout = state.items
         /\ state.code = 0 <=> \A i \in DOMAIN state.results : state.results[i].exitCode = 0
=============================================================================
