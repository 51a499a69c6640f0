-------------------------------- MODULE Jobs --------------------------------
(***************************************************************************)
(* One call of Bash.Exec: the main script, the background jobs it starts   *)
(* (and those start), the job table they share, the tree of contexts that  *)
(* cancels them, and the teardown that must not return before they ended.  *)
(*                                                                         *)
(* An actor is an interpreter: Main runs the script in the goroutine of    *)
(* Exec, job j runs in a goroutine of its own.  A script is arbitrary: at  *)
(* each command boundary it may end or call any command.  A step of an     *)
(* actor is what it does between two points where another goroutine can    *)
(* observe it: one critical section of jobState.mu, one atomic operation,  *)
(* one cancellation, one blocking receive.                                 *)
(***************************************************************************)
EXTENDS Integers, Sequences, FiniteSets

CONSTANTS
  MaxCommandCount, \* Limits.MaxCommandCount: also bounds the jobs of a call
  MaxExecDepth,    \* Limits.MaxExecDepth
  FirstPID,        \* the pid of the first job, 2001 in the code
  ExitCodes,       \* statuses a script may end with by itself
  SignalCodes,     \* 128+n for the signals kill knows
  WaitArgs,        \* argument lists scripts give to wait
  KillArgs,        \* argument lists (pids) scripts give to kill
  WaitsForward     \* TRUE: scripts only wait for jobs younger than themselves

ASSUME JobsAssumption ==
  /\ MaxCommandCount \in Nat \ {0}
  /\ MaxExecDepth \in Nat
  /\ FirstPID \in Nat \ {0}
  /\ ExitCodes \subseteq Nat
  /\ SignalCodes \subseteq Nat \ {0}
  /\ WaitArgs \subseteq Seq(Nat)
  /\ KillArgs \subseteq Seq(Nat)
  /\ WaitsForward \in BOOLEAN

Main  == 0
JobID == 1..MaxCommandCount     \* starting a job is a charged command
Actor == {Main} \cup JobID

Interrupted == 124  \* the interpreter was stopped by its context
Refused     == 126  \* a limit was exceeded

Codes == ExitCodes \cup SignalCodes \cup {0, Interrupted, Refused}

VARIABLES
  commands,  \* executionScope.commands
  nextID,    \* jobState.nextID; nextPID moves with it
  last,      \* the job whose pid is jobState.last, 0 when it is ""
  job,       \* jobState.jobs: the virtualJob of every allocated id
  wg,        \* the counter of jobState.wg
  pc,        \* where each actor is
  held,      \* the *virtualJob an actor holds between two steps, 0 for none
  queue,     \* jobs wait still has to see, pids kill still has to signal
  sig,       \* the forced status of the kill an actor is running
  code,      \* what execute returned to the actor
  ctx,       \* Err() of each actor's context: "nil", "deadline", "canceled"
  lineage,   \* the actors whose contexts enclose an actor's own, itself too
  exceeded,  \* outputBudget.exceeded
  result,    \* Result.ExitCode
  answer,    \* the last job a wait command reported on and what it reported
  executed,  \* history: commands that passed chargeCommand
  overran    \* history: the deadline passed while the main script was running

table    == <<nextID, last, job>>
control  == <<pc, held, queue, sig, code>>
contexts == <<ctx, lineage>>
outcome  == <<exceeded, result>>
history  == <<executed, overran>>
vars == <<commands, table, wg, control, contexts, outcome, answer, history>>

Phases == {"none", "ready", "called", "allocated", "registered", "waiting",
           "killing", "cancelling", "ended", "published", "gone",
           "stopping", "returned"}

VirtualJob == [cancel : BOOLEAN, done : BOOLEAN,
               status : Codes, forced : SignalCodes \cup {0}]
NewJob == [cancel |-> FALSE, done |-> FALSE, status |-> 0, forced |-> 0]

Init ==
  /\ commands = 0
  /\ nextID = 0
  /\ last = 0
  /\ job = [j \in JobID |-> NewJob]
  /\ wg = 0
  /\ pc = [a \in Actor |-> IF a = Main THEN "ready" ELSE "none"]
  /\ held = [a \in Actor |-> 0]
  /\ queue = [a \in Actor |-> <<>>]
  /\ sig = [a \in Actor |-> 0]
  /\ code = [a \in Actor |-> 0]
  /\ ctx = [a \in Actor |-> "nil"]
  /\ lineage = [a \in Actor |-> IF a = Main THEN {Main} ELSE {}]
  /\ exceeded = FALSE
  /\ result = 0
  /\ answer = [a \in Actor |-> [job |-> 0, status |-> 0]]
  /\ executed = 0
  /\ overran = FALSE

-----------------------------------------------------------------------------
(* Helpers *)

PidOf(j) == FirstPID + j - 1
Allocated == 1..nextID
Depth(a) == Cardinality(lineage[a]) - 1

Goto(a, where) == pc' = [pc EXCEPT ![a] = where]

\* Variant of Cancelled that stops at the context it is called on.
CancelledAlone(a, why) ==
  IF ctx[a] = "nil" THEN [ctx EXCEPT ![a] = why] ELSE ctx

\* A context is cancelled once, and with it every context derived from it.
Cancelled(a, why) ==
  [b \in Actor |-> IF a \in lineage[b] /\ ctx[b] = "nil" THEN why ELSE ctx[b]]

-----------------------------------------------------------------------------
(* A command boundary *)

OverBudget(count) == count > MaxCommandCount

\* The interpreter reaches the next call with a live context; the call is
\* charged, and one charge too many ends the script with status 126.
Call(a) ==
  /\ pc[a] = "ready"
  /\ ctx[a] = "nil"
  /\ commands' = commands + 1
  /\ IF OverBudget(commands')
       THEN /\ Goto(a, "ended")
            /\ code' = [code EXCEPT ![a] = Refused]
            /\ UNCHANGED executed
       ELSE /\ Goto(a, "called")
            /\ executed' = executed + 1
            /\ UNCHANGED code
  /\ UNCHANGED <<table, wg, held, queue, sig, contexts, outcome, answer, overran>>

\* The script ends by itself.
Exit(a) ==
  /\ pc[a] = "ready"
  /\ \E s \in ExitCodes : code' = [code EXCEPT ![a] = s]
  /\ Goto(a, "ended")
  /\ UNCHANGED <<commands, table, wg, held, queue, sig, contexts, outcome, answer, history>>

\* The interpreter finds its context cancelled.
Interrupt(a) ==
  /\ pc[a] = "ready"
  /\ ctx[a] # "nil"
  /\ code' = [code EXCEPT ![a] = Interrupted]
  /\ Goto(a, "ended")
  /\ UNCHANGED <<commands, table, wg, held, queue, sig, contexts, outcome, answer, history>>

\* Any command that touches neither jobs nor signals.
Run(a) ==
  /\ pc[a] = "called"
  /\ Goto(a, "ready")
  /\ UNCHANGED <<commands, table, wg, held, queue, sig, code, contexts, outcome, answer, history>>

\* Such a command writes past the output budget: take flags it and cancels.
Overflow(a) ==
  /\ pc[a] = "called"
  /\ exceeded' = TRUE
  /\ ctx' = Cancelled(Main, "canceled")
  /\ Goto(a, "ready")
  /\ UNCHANGED <<commands, table, wg, held, queue, sig, code, lineage, result, answer, history>>

-----------------------------------------------------------------------------
(* Starting a job: the call handler allocates it, the exec handler records *)
(* its cancel function under the lock and then launches the goroutine.     *)

Allocate(a) ==
  /\ pc[a] = "called"
  /\ nextID < MaxCommandCount
  /\ nextID' = nextID + 1
  /\ last' = nextID'
  /\ held' = [held EXCEPT ![a] = nextID']
  /\ Goto(a, "allocated")
  /\ UNCHANGED <<commands, job, wg, queue, sig, code, contexts, outcome, answer, history>>

Register(a) ==
  /\ pc[a] = "allocated"
  /\ LET j == held[a] IN
       /\ job' = [job EXCEPT ![j].cancel = TRUE]
       /\ lineage' = [lineage EXCEPT ![j] = lineage[a] \cup {j}]
       /\ ctx' = [ctx EXCEPT ![j] = ctx[a]]
  /\ Goto(a, "registered")
  /\ UNCHANGED <<commands, nextID, last, wg, held, queue, sig, code, outcome, answer, history>>

\* A job nested too deep ends with status 126 before it parses its script.
Spawn(a) ==
  /\ pc[a] = "registered"
  /\ wg' = wg + 1
  /\ LET j == held[a]
         tooDeep == Depth(j) > MaxExecDepth
     IN /\ pc' = [pc EXCEPT ![a] = "ready",
                            ![j] = IF tooDeep THEN "ended" ELSE "ready"]
        /\ code' = [code EXCEPT ![j] = IF tooDeep THEN Refused ELSE 0]
  /\ held' = [held EXCEPT ![a] = 0]
  /\ UNCHANGED <<commands, table, queue, sig, contexts, outcome, answer, history>>

-----------------------------------------------------------------------------
(* kill: one critical section per pid, and the cancellation after it.  The *)
(* first pid that names no running job ends the command.                   *)

Kill(a) ==
  /\ pc[a] = "called"
  /\ \E pids \in KillArgs, n \in SignalCodes :
        /\ queue' = [queue EXCEPT ![a] = pids]
        /\ sig' = [sig EXCEPT ![a] = n]
  /\ Goto(a, "killing")
  /\ UNCHANGED <<commands, table, wg, held, code, contexts, outcome, answer, history>>

Signallable(pid) == {j \in Allocated : PidOf(j) = pid /\ ~job[j].done}

SignalJob(a) ==
  /\ pc[a] = "killing"
  /\ queue[a] # <<>>
  /\ \E j \in Signallable(Head(queue[a])) :
        /\ job' = [job EXCEPT ![j].forced = sig[a]]
        /\ held' = [held EXCEPT ![a] = IF job[j].cancel THEN j ELSE 0]
  /\ queue' = [queue EXCEPT ![a] = Tail(@)]
  /\ Goto(a, "cancelling")
  /\ UNCHANGED <<commands, nextID, last, wg, sig, code, contexts, outcome, answer, history>>

CancelJob(a) ==
  /\ pc[a] = "cancelling"
  /\ ctx' = IF held[a] # 0 THEN Cancelled(held[a], "canceled") ELSE ctx
  /\ held' = [held EXCEPT ![a] = 0]
  /\ Goto(a, "killing")
  /\ UNCHANGED <<commands, table, wg, queue, sig, code, lineage, outcome, answer, history>>

KillReturns(a) ==
  /\ pc[a] = "killing"
  /\ queue[a] # <<>> => Signallable(Head(queue[a])) = {}
  /\ queue' = [queue EXCEPT ![a] = <<>>]
  /\ sig' = [sig EXCEPT ![a] = 0]
  /\ Goto(a, "ready")
  /\ UNCHANGED <<commands, table, wg, held, code, contexts, outcome, answer, history>>

-----------------------------------------------------------------------------
(* wait: the jobs are selected under the lock, then received from one by   *)
(* one.  The receive does not watch the context.                           *)

Matching(request) == {j \in Allocated : PidOf(j) = request \/ j = request}

\* Without arguments every job in the table, oldest first; with arguments
\* one match for each, whichever the map yields first.
Selections(args) ==
  IF args = <<>>
    THEN {[i \in Allocated |-> i]}
    ELSE {s \in [1..Len(args) -> Allocated] :
            \A i \in 1..Len(args) : s[i] \in Matching(args[i])}

MayWait(a, selection) ==
  WaitsForward => \A i \in DOMAIN selection : selection[i] > a

\* Some argument names no job: status 127 and nothing is waited for.
WaitMissing(a) ==
  /\ pc[a] = "called"
  /\ \E args \in WaitArgs : args # <<>> /\ Selections(args) = {}
  /\ Goto(a, "ready")
  /\ UNCHANGED <<commands, table, wg, held, queue, sig, code, contexts, outcome, answer, history>>

Wait(a) ==
  /\ pc[a] = "called"
  /\ \E args \in WaitArgs : \E selection \in Selections(args) :
        /\ MayWait(a, selection)
        /\ queue' = [queue EXCEPT ![a] = selection]
  /\ Goto(a, "waiting")
  /\ UNCHANGED <<commands, table, wg, held, sig, code, contexts, outcome, answer, history>>

Arrived(j) == job[j].done

WaitNext(a) ==
  /\ pc[a] = "waiting"
  /\ queue[a] # <<>>
  /\ LET j == Head(queue[a]) IN
       /\ Arrived(j)
       /\ answer' = [answer EXCEPT ![a] = [job |-> j, status |-> job[j].status]]
  /\ queue' = [queue EXCEPT ![a] = Tail(@)]
  /\ UNCHANGED <<commands, table, wg, pc, held, sig, code, contexts, outcome, history>>

WaitReturns(a) ==
  /\ pc[a] = "waiting"
  /\ queue[a] = <<>>
  /\ Goto(a, "ready")
  /\ UNCHANGED <<commands, table, wg, held, queue, sig, code, contexts, outcome, answer, history>>

-----------------------------------------------------------------------------
(* The end of a job and the end of the call *)

\* Variants: the signal is ignored, or yields to the script's own failure.
ScriptStatus(j) == code[j]
FailureFirst(j) == IF code[j] # 0 THEN code[j] ELSE job[j].forced

FinalStatus(j) == IF job[j].forced # 0 THEN job[j].forced ELSE code[j]

\* The job's goroutine publishes its status under the lock.
Publish(a) ==
  /\ a # Main
  /\ pc[a] = "ended"
  /\ job' = [job EXCEPT ![a] = [@ EXCEPT !.done = TRUE, !.status = FinalStatus(a)]]
  /\ Goto(a, "published")
  /\ UNCHANGED <<commands, nextID, last, wg, held, queue, sig, code, contexts, outcome, answer, history>>

\* Variant: an explicit wg.Done beside the deferred one.
LeaveTwice(a) ==
  /\ pc[a] = "published"
  /\ wg' = wg - 2
  /\ Goto(a, "gone")
  /\ UNCHANGED <<commands, table, held, queue, sig, code, contexts, outcome, answer, history>>

\* Its deferred wg.Done, after the unlock.
Leave(a) ==
  /\ pc[a] = "published"
  /\ wg' = wg - 1
  /\ Goto(a, "gone")
  /\ UNCHANGED <<commands, table, held, queue, sig, code, contexts, outcome, answer, history>>

\* stopJobs cancels the context of the whole call.
Stop ==
  /\ pc[Main] = "ended"
  /\ ctx' = Cancelled(Main, "canceled")
  /\ Goto(Main, "stopping")
  /\ UNCHANGED <<commands, table, wg, held, queue, sig, code, lineage, outcome, answer, history>>

\* Variant: no wait for the goroutines.
NoWait == wg \in Int

GroupIdle == wg = 0

\* Variant: the script's own status is reported after a timeout.
ScriptExitCode == IF exceeded THEN Refused ELSE code[Main]

ExitCode == IF exceeded THEN Refused
            ELSE IF ctx[Main] = "deadline" THEN Interrupted
            ELSE code[Main]

\* Once every goroutine is gone Exec picks the exit code it reports.
Return ==
  /\ pc[Main] = "stopping"
  /\ GroupIdle
  /\ result' = ExitCode
  /\ Goto(Main, "returned")
  /\ UNCHANGED <<commands, table, wg, held, queue, sig, code, contexts, exceeded, answer, history>>

-----------------------------------------------------------------------------
(* The embedder and the clock *)

\* MaxExecutionTime elapsed since Exec started.
Deadline ==
  /\ ctx[Main] = "nil"
  /\ ctx' = Cancelled(Main, "deadline")
  /\ overran' = (pc[Main] \notin {"ended", "stopping", "returned"})
  /\ UNCHANGED <<commands, table, wg, control, lineage, outcome, answer, executed>>

\* The context the embedder passed to Exec is cancelled.
HostCancel ==
  /\ ctx[Main] = "nil"
  /\ ctx' = Cancelled(Main, "canceled")
  /\ UNCHANGED <<commands, table, wg, control, lineage, outcome, answer, history>>

\* The call returned: nothing is left to happen.
Finished == pc[Main] = "returned" /\ UNCHANGED vars

-----------------------------------------------------------------------------
\* What an actor does once a command was charged, with nothing to decide on.
Advance(a) ==
  \/ Register(a) \/ Spawn(a)
  \/ SignalJob(a) \/ CancelJob(a) \/ KillReturns(a)
  \/ WaitNext(a) \/ WaitReturns(a)
  \/ Publish(a) \/ Leave(a)

Command(a) == Run(a) \/ Overflow(a) \/ Allocate(a) \/ Kill(a) \/ Wait(a) \/ WaitMissing(a)

ActorStep(a) == Call(a) \/ Exit(a) \/ Interrupt(a) \/ Command(a) \/ Advance(a)

Next ==
  \/ \E a \in Actor : ActorStep(a)
  \/ Stop \/ Return \/ Deadline \/ HostCancel \/ Finished

Spec == Init /\ [][Next]_vars

\* The runtime schedules every goroutine, the clock moves, and a command that
\* was called returns.  A script is not assumed to end by itself.
Fairness ==
  /\ \A a \in Actor : /\ WF_vars(Interrupt(a))
                      /\ WF_vars(Command(a))
                      /\ WF_vars(Advance(a))
  /\ WF_vars(Stop)
  /\ WF_vars(Return)
  /\ WF_vars(Deadline)

FairSpec == Spec /\ Fairness

-----------------------------------------------------------------------------
(* Properties *)

TypeOK ==
  /\ commands \in Nat
  /\ nextID \in 0..MaxCommandCount
  /\ last \in 0..MaxCommandCount
  /\ job \in [JobID -> VirtualJob]
  /\ wg \in Nat
  /\ pc \in [Actor -> Phases]
  /\ held \in [Actor -> Actor]
  /\ queue \in [Actor -> Seq(Nat)]
  /\ sig \in [Actor -> SignalCodes \cup {0}]
  /\ code \in [Actor -> Codes]
  /\ ctx \in [Actor -> {"nil", "deadline", "canceled"}]
  /\ lineage \in [Actor -> SUBSET Actor]
  /\ exceeded \in BOOLEAN
  /\ result \in Codes
  /\ answer \in [Actor -> [job : Actor, status : Codes]]
  /\ executed \in Nat
  /\ overran \in BOOLEAN

\* stopJobs: when Exec returns no background goroutine is left, so nothing
\* writes to the buffers or the filesystem after the caller got its Result
\* and released Bash.mu to the next call.
NoJobOutlivesExec ==
  pc[Main] = "returned" => \A j \in JobID : pc[j] \in {"none", "gone"}

\* startJob and signalJob decide under one lock: a job that finished after a
\* kill was accepted reports 128+n of the last accepted signal, whatever its
\* script returned meanwhile.
KilledStatus ==
  \A j \in JobID : job[j].done /\ job[j].forced # 0 => job[j].status = job[j].forced

\* What runWaitJob read after the unlocked receive is the published status.
WaitReportsFinalStatus ==
  \A a \in Actor : answer[a].job # 0 =>
    LET j == job[answer[a].job] IN j.done /\ j.status = answer[a].status

\* chargeCommand is one atomic addition shared by every scope of the call:
\* however the jobs interleave, no more than MaxCommandCount commands run.
CommandLimit == executed <= MaxCommandCount

\* A job that was allocated is always completed by the actor that allocated
\* it, so at the end of the call every job in the table is done: nobody can
\* be left waiting on a job that was never launched.
TableSettled == pc[Main] = "returned" => \A j \in Allocated : job[j].done

\* Exec: a call whose deadline passed while its script was running reports
\* 124, or 126 when output was also truncated, never the script's own status.
TimeoutReported == pc[Main] = "returned" /\ overran => result \in {Interrupted, Refused}

\* A context is never live inside a cancelled one: cancelling the call, or a
\* job, reaches every job started below it, however deep and however late.
CancellationReaches ==
  \A a, b \in Actor : a \in lineage[b] /\ ctx[a] # "nil" => ctx[b] # "nil"

\* Once done, a job's entry never changes: a late kill is refused.
FinishedIsFinal == [][\A j \in JobID : job[j].done => job'[j] = job[j]]_vars

\* No context comes back to life and no cancellation cause is replaced, which
\* is what lets Exec read ctx.Err() after stopJobs cancelled the context.
CauseIsFirst == [][\A a \in Actor : pc[a] # "none" /\ ctx[a] # "nil" => ctx'[a] = ctx[a]]_vars

\* Exec returns, whatever the scripts do, once the deadline has passed.
ExecReturns == <>(pc[Main] = "returned")

\* A kill that found its job running cancels it (jobs_test.go: "kill cancels
\* virtual background job"); the killer's own pending cancellation aside.
KilledIsCancelled ==
  \A j \in JobID :
    job[j].forced # 0 /\ pc[j] # "none" /\ (\A a \in Actor : held[a] # j)
      => ctx[j] # "nil"

\* The job table as its users see it.
tableLife == [j \in JobID |-> IF j > nextID THEN "absent"
                              ELSE IF job[j].done THEN "done" ELSE "running"]
tablePromise == [j \in JobID |-> job[j].forced]
tableVerdict == [j \in JobID |-> job[j].status]

Table == INSTANCE JobTable WITH
  Jobs <- JobID, Statuses <- Codes, Signals <- SignalCodes,
  life <- tableLife, promise <- tablePromise, verdict <- tableVerdict

\* The locking protocol implements the abstract job table.
ImplementsTable == Table!Spec
=============================================================================
