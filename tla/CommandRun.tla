----------------------------- MODULE CommandRun -----------------------------
(* One run of a built-in command: which command, and what it has got to. The *)
(* modules of the commands extend this one and each describe the states of   *)
(* their own command, a record whose field phase says where it is; a run     *)
(* starts in one of the states a module calls ...Starts and ends in phase    *)
(* "done" with an exit code. src/internal/command/command.go.                *)
EXTENDS Integers, Sequences, FiniteSets

Seqs == INSTANCE SequencesExt
Sets == INSTANCE FiniteSetsExt

VARIABLES command, state

commandVars == <<command, state>>

Runs(name, phase) == command = name /\ state.phase = phase
Becomes(next) == state' = next /\ UNCHANGED command
Done(code) == [state EXCEPT !.phase = "done", !.code = code]
Ended(name) == command = name /\ state.phase = "done"

\* What is done with a result, once it is there.
Then(result, F(_)) == CHOOSE y \in {F(x) : x \in {result}} : TRUE

Smaller(a, b) == IF a < b THEN a ELSE b
Larger(a, b) == IF a < b THEN b ELSE a
=============================================================================
