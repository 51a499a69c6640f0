# Gash in TLA+: models, model checks and proofs

Gash is a bash interpreter in a Go library. It runs scripts on virtual
filesystems, without host processes, and bounds what a script may use. This
directory holds TLA+ models of its concurrent and stateful parts, the TLC
configurations that check them on small instances, and TLAPS proofs of the
properties that matter most for every size. `PROJECT.json` maps each definition
to the Go lines it stands for, and lists runs, mutations, hazards and theorems.

Run a check with `tlc -config <name>.cfg <MC module>`, a proof with
`tlapm <module>_proofs.tla`.

Contents: 1 the system; 2 the models and the code; 3 what the runs show; 4 what
is proved; 5 where the code departs from its documentation; 6 what is not
modelled; 7 the plan.

## 1. The system

### Components

| Component | State it keeps | Operations | Correct when |
|---|---|---|---|
| Execution (`pkg/gash/exec.go`, `limits.go`) | `Bash.mu`; per call: context with a deadline, command counter, output budget, buffers | `Exec`, `execute` (nested shells, jobs), the call and exec handlers | limits hold for all goroutines of a call together; a call ends, reports how, and leaves nothing running |
| Background jobs (`jobs.go`) | job table, `$!`, pids, wait group, a `done` channel and a cancel function per job | `prepareJob`, `runStartJob`, `startJob`, `wait`, `jobs`, `stopJobs` | a job runs once; its status is final once published; an accepted signal decides it |
| Traps and signals (`signals.go`) | trap table per scope, pending shell signal | `trap`, `kill`, trap delivery at command boundaries | a signal reaches its job or its trap; a trap runs once per delivery |
| Output (`output.go`, `limits.go`) | two mutex-protected buffers, one lock-free budget | `Write`, `take` | no byte over the limit, none dropped before it, no silent loss |
| Redirections (`fs_handlers.go`) | per open file: a private copy of the contents, an offset | open, `Read`, `Write`, `Close` (writes everything back) | a file holds what its writers wrote; noclobber protects it |
| Shell options, umask, special variables (`shell_options.go`, `special_variables.go`, `fs_handlers.go`) | flags, umask stack, `$!`, `$$` | `set`, `shopt`, `umask`, lookups | scoped to the script that sets them |
| Shell normalisation (`shell_normalization.go` and others) | none | syntax-tree rewrites | pure functions of the script |
| Memory filesystem (`pkg/fs/memory.go`) | node map with hard links and symlinks, bytes used, quota | every file operation, under one lock | a tree; `used` equals the bytes reachable |
| Overlay (`overlay.go`) | an upper filesystem with whiteout markers, a read-only lower one | every file operation, as a series of upper calls | seen through it there is one writable tree; what was deleted stays deleted |
| Database (`database.go`, `sqlite.go`, `turso.go`) | rows for paths and nodes | every file operation, as separate statements | paths and nodes stay consistent, across failures too |
| Mounts and copy mounts (`mount.go`, `mount_write.go`, `copy.go`) | a mount table; imported trees | routing, cross-mount rename, three import policies | what is moved is never lost; an import is whole, or can be finished, and touches nothing else |
| Adapters (`capabilities.go`, `readonly.go`, `rooted.go`, `devices.go`) | none of their own | dispatch on optional interfaces, host paths | what is not supported is refused |
| Network policy (`pkg/network`) | allow list | matching of host, port, method; checks of redirects and addresses | nothing outside the list is reached |
| Commands (`internal/commands`) | none between calls, but sqlite3's locks | the Unix tools scripts call, each a series of filesystem calls | they do what they are asked, beside other jobs too, and touch nothing else |
| Front ends (`cmd`, `web`, `examples`) | arguments | glue | - |

### How they interact

`Exec` holds `Bash.mu` for the whole call and makes one `executionScope`: the
context, the command counter, the output budget and the job table. The main
script runs in the caller's goroutine. Every background job runs in a goroutine
of its own with a forked scope that shares all four. Interpreter callbacks (the
call handler before a command, the exec handler in its place, the open handler
for redirections) are where the library's own code runs, on the goroutine of
whichever script got there. They meet in four places: the job table behind
`jobState.mu`, the atomic counters, the tree of contexts, and the filesystem,
which alone survives the call.

### What is hard about it

* Jobs start jobs, wait for and kill one another while the call is being torn
  down: allocation and start are two callbacks, `kill` decides under the lock
  and cancels after it, `wait` reads a status without it.
* A deadline, the embedder's cancellation, a full output budget and the
  teardown all cancel one context, and the exit code is derived from the cause.
* Writers race for one budget without a lock, and a script and its job for one
  redirection.
* Filesystem operations of the overlay, the database and the mounts are series
  of calls, with no transaction around them, on layers that may be persistent.
* A redirection is a read at open and a write of everything at close.
* The commands are small interpreters (awk, sed, find, expr) or protocols (curl,
  tar, sqlite3, cp, mktemp) over a filesystem that other jobs are changing.

The hazards, each at its line and with the properties that would catch it, are
in `PROJECT.json`.

## 2. The models and the code

| Module | What it is |
|---|---|
| `JobTable` | abstract: what the job table promises to scripts |
| `Jobs` | one `Exec`: scripts, jobs, contexts, limits, teardown |
| `OutputMeter` | abstract: one meter that serves writes one by one |
| `OutputBudget` | two buffers behind mutexes, one compare-and-swap budget |
| `FileTree` | abstract: one writable tree of files and directories |
| `Overlay` | `fs.Overlay` at the level of its calls to the upper layer |
| `MemoryFS` | the calls of `fs.Memory` as operators on a value |
| `Memory` | one memory filesystem under the calls of a session |
| `CopyMount` | `Memory` with imports of trees, whole or cut short |
| `Database` | `fs.Database` at the level of its SQL statements |
| `Mountable` | `fs.Mountable`: several memory filesystems in one namespace |
| `Scripts` | a script and its job: redirections, masks, noclobber, nested shells |
| `CommandRun` | what the runs of all built-in commands have in common |
| `Xargs`, `Find`, `Sed`, `Curl`, `Archive`, `Sqlite`, `Awk`, `Grep`, `Expr` | one command each (`Curl` with the network policy, `Archive` with tar and gzip, `Grep` with rg) |
| `FindParser`, `AwkParser` | how find and awk read their programs |
| `Files` | cp, mv, rm, mktemp, install, ln, rmdir, mkdir, unlink, touch, split |
| `MC*` | small instances for TLC |
| `Lemmas` | proved facts about naturals, induction and paths that the proofs share |
| `*_proofs` | theorems: `Jobs`, `OutputBudget`, `Overlay`, `Scripts`, `CopyMount` have one each, `Memory_proofs` is about `MemoryFS` and `Memory`, `Commands_proofs` about `Xargs`, `Curl` and `Sqlite` |

`MemoryFS` is shared: `Memory` and `CopyMount` extend it, `Database` is compared
with it, `Mountable` holds several of it, and `Archive` and `Files` run over it.

### Jobs

An actor is an interpreter: `Main` is the script of the call, actor `j` is job
`j`. A script is arbitrary. At each command boundary (`pc = "ready"`) it may end
with any status, find its context cancelled, or reach a command, which is
charged (`Call`). A charged command is one that touches nothing modelled
(`Run`), one that overflows the output (`Overflow`), or `&`, `kill`, `wait`.
A step is what happens between two points another goroutine can observe:

| Action | Code | Why it is a step of its own |
|---|---|---|
| `Call` | `chargeCommand`, an atomic addition, and the comparison of its result | the counter is shared by every scope |
| `Allocate` | `prepareJob`, `allocateJob` | critical section; runs in the call handler |
| `Register` | `runStartJob`, `startJob` up to the unlock | another callback: other actors run in between |
| `Spawn` | `wg.Add`, `go` | after the unlock |
| `SignalJob`, `CancelJob` | `signalJob` under the lock, `cancel()` after it | a kill is two steps, per pid |
| `Wait`, `WaitNext` | selection under the lock; the receive and the unlocked read of `status` | the receive ignores the context |
| `Publish`, `Leave` | the critical section that closes `done`; the deferred `wg.Done` | `stopJobs` may see one without the other |
| `Stop`, `Return` | `stopJobs`: cancel, then wait for the group; the exit code | jobs still run in between |
| `Deadline`, `HostCancel` | the clock, the embedder | at any moment |

`ctx[a]` is `Err()` of the actor's context and `lineage[a]` the actors whose
contexts enclose it: a cancellation reaches exactly the actors below. `own`,
`executed` and `overran` are history variables, used by properties only. The
environment snapshot a job takes, its parsing and its output are left out: no
property depends on them. `WaitsForward` restricts what scripts wait for; see
the liveness run.

### OutputBudget

Each writer is a goroutine in `boundedBuffer.Write`: it takes the mutex of its
buffer (`Begin`), loads `used` (`Load`), commits with a compare-and-swap
(`Swap`) or starts over (`SwapFails`), flags and cancels when it lost bytes
(`Flag`, `Cancel`), stores the granted prefix and unlocks (`Append`). Bytes are
counted, not modelled. `Exec`'s own messages go through the same `Write`.

### Overlay

`upper` is the upper filesystem: a node per path, and the set of paths that have
a marker (`.wh.<base>` beside the entry). An operation is a *run*: a record of
the upper layer after the calls made so far (`now`), before each of them
(`past`), and whether a call was refused (`ok`). Helpers (`materializeParents`,
`copyUp`, `setWhiteout`, ...) extend a run as the Go helpers of the same name
make calls, in the same order, stopping at the first that fails. `Perform` then
picks what happened: the run completed, or it was *torn* after any of its calls,
because the process died or the upper layer refused a call for reasons of its
own (quota, I/O). After a torn run the model goes on from what is left, which
is how a persisted upper layer is used again.

Each call of the upper layer is atomic, as `fs.Memory` holds its lock for one.
Operations are taken one at a time: `Overlay` has no lock, and PORTING.md:309
lists "atomicity and concurrency guarantees for overlay copy-up" as undefined.
Links, permissions and times are left out. `copyUpTree` visits the entries of a
tree in `Order`, a sequence in which a directory comes before what is in it, as
it does in the walk of the code (depth first, names sorted). The proofs hold for
every such order.

`Early` is the set of paths whose base name sorts before `.wh.` in a directory
listing: `ReadDir` handles markers and entries in that order, so it matters.
`DirTargets` says whether commands may name a directory of the lower layer as
the target of a write, or rename something onto one; see section 5.

### MemoryFS, Memory, CopyMount

A filesystem is a record: `at` gives each name its node (0 for none), `node` each
node its kind, size, count of names and link target, `used` the bytes charged.
Every Go method is an operator of the same name that returns the filesystem and
an error, and holds one lock in the code, so it is one step. Names are walked as
`resolveLocked` walks them, through links in the middle and, for some calls, at
the end. `MkdirAll` alone takes the lock once per component, so it is a series of
steps that others come between. A call that would leave `Paths` or run out of
`Ids` answers "bound" and is not taken; these are the only cuts.

`CopyMount` adds `ApplyMount`: the list of calls a policy makes for a source, run
until one is refused, and stopped by a crash after any of them.

### Database

A run is the sequence of tables after each statement of an operation. `Perform`
completes it or keeps a proper prefix (the process died or the statement failed);
who opens the tables next goes on from the rows that are there. `open` is FALSE
until the root has its row: a creation torn before that is repeated, and opening
tables that have one changes nothing. The mutex makes operations
follow one another. `AgreesWithMemory` compares each operation with the operator
of `MemoryFS` on the same entries.

### Mountable

`vol` holds a memory filesystem per mount point and the base; `mounts` which of
them are mounted. Calls are routed by the longest prefix. A rename across mounts
puts calls on a list, `copyAcross` and `removeSource` take one at a time, and
between two of them anything goes on, mounts and unmounts too, or the process
dies (`Die`). `cargo` is a history of what was to be moved, emptied as soon as
someone else changes the namespace: then nothing is promised.

### Scripts

`scopes[p]` is the stack of what process `p` (the script, its background job) is
inside of: shells (the main one, `bash -c`, the job's), subshells, redirections.
A shell keeps a mask, a stack of saved masks and noclobber. Subshells whose text
has a `umask` push on entry and pop at their end, as the rewriting of
`shell_normalization.go` has it; `exit` leaves without the pop. An open
redirection keeps its private copy, offset and permissions; `Close` writes all of
it. A job may be started inside a redirection and write through it.

A write that nobody can come between is one step (`Write`). One to an output that
the script and its job share is not: `virtualFile.Write` has no lock, so it is
`BeginWrite` (the end is computed, and a longer copy of the data if that is too
short), `GrowData` (the copy takes the data's place; where the capacity was
enough it is the same memory, and keeps what came meanwhile), `CopyByte` (to where
the offset is by now) and `MoveOffset`. `writers` says how far each process is. If
the other has moved the offset past the end, the slice expression panics
(`WriteFails`; for an end past the length it depends on the capacity, so it may):
the process unwinds, closing what it has open, up to the next `execute`, which
recovers. A close may fall between the steps of a job's write (`MayFailAfter`). A
write is of one byte. The fields `expected`, `raced`, `was`, `stale`, `guarded`,
`clean` and `entry` are history.

### The commands

A behaviour of `MCCommands` is one run of one command: `command` says which and
`state` is its record, whose `phase` says where it is. A step is one thing others
could come between (a call of the filesystem, a request, a statement, the end of
a child), or one turn of an interpreter's loop where they could not.

* `Xargs`: batches, waves of children that end in any order, output in order.
* `Find`: the walk, which evaluates the expression and collects effects; then the
  effects, one by one. Other jobs (up to `MaxOthers` times) and the commands of
  `-exec` remove entries in between.
* `FindParser`, `AwkParser`, `Expr`: the recursive descents, on every text that a
  family of trees is written out as, and on every beginning of some of them.
* `Sed`: the cycle with n, N, D, branches and groups, range states, hold space,
  the queues printed at the end, `-i` over files, and the cap on rounds.
* `Curl`: request, policy, resolution, dial, answer, redirect, delivery. Servers
  and resolvers answer anything; what net/http does is external.
* `Archive`: tar's walk, one entry at a time while a file changes; extraction with
  strip, keep, stdout and a selection; archives from outside; gzip and gunzip.
* `Sqlite`: the lock of a name with its waiters, contexts that end, the private
  copy, save and read-only and bail decisions.
* `Awk`: records and fields, rules and ranges, getline, functions, loops, limits.
* `Grep`: the walk and selection of files with ignore files, files that vanish,
  selection of lines, context, `-m`, `-l`, `-L`, `-c`, `-o`, `-q`.
* `Files`: each command as the list of filesystem calls it makes, with what it
  looked up before; two commands at once interleave call by call.

Texts are short sequences of symbols and regular expressions are single symbols
or literal texts: their matching is Go's `regexp`.

## 3. What the runs show

Every property of a passing run has a mutation of a modelled definition (a
plausible bug in that code, written beside it as a variant) that violates it.

| Run | Instance | Distinct states | Shows |
|---|---|---|---|
| `jobs` | 3 charged commands, so up to 3 jobs, nested to depth 2 and beyond it; two exit codes, two signals; `wait`, `wait 1`, `wait` for two pids; `kill` of one and of two pids | 460,002 | the safety properties of one call, `JobTable` as implemented, and with the fairness below that the call returns |
| `output_budget` | 3 writers, 2 buffers, limit 3, writes of 0, 1, 2 bytes | 423,664 | accounting, no silent truncation, every write returns, `OutputMeter` as implemented |
| `overlay` | two names and one below each; three lower trees (file, directory, non-empty directories); contents old, new, appended to | 4,053 | the view is one tree across torn operations, listings agree with lookups, `FileTree` as implemented |
| `memory` | five names on two levels, six nodes, quota 2, files of 1 and 2 bytes, a relative and an absolute link, three sources to import at two points | 18,318 | the tree and its accounting; imports under each policy, and after a crash at each of their calls |
| `database` | the same names, seven nodes, quota 2, one orphan of an earlier crash | 1,686 | agreement with `MemoryFS`; what a crash after any statement leaves |
| `mounts` | a base and two nested mounts, the inner one read-only, quota 2 | 22,710 | nothing moved across mounts is lost; listings agree with lookups |
| `scripts` | one file, one permission bit, six programs that say what the script and its job may do, scopes to depth 4 | 2,322,257 | masks, redirections and noclobber beside a job, writes to a shared output in steps |
| `commands` | families of arguments and inputs for each command, see `MCCommands` | 178,152 | each command against what it is to compute |
| `jobs_wait_cycle`, `jobs_kill_race`, `database_torn`, `scripts_umask` | as above | up to 25,725 | section 5 |

**Bounds.** Three commands give every shape of two jobs: siblings, and a job
started by a job, with a third command left for a `kill` or a `wait` that races
them. A charge too many is reachable. A larger limit repeats these shapes, and
the proofs cover it. Three writers with two buffers are the least that give
both contention on a mutex and a race on the budget while a third write waits;
limit 3 with sizes up to 2 has exact, partial and empty grants. Two directories
with entries of their own are the least in which a rename carries entries along,
an opaque directory has something to hide, and a parent must be copied up. The
filesystems have in addition two names in one directory, for second names of one
file, and a quota that two files exceed. In `scripts` each program opens one
dimension (redirections beside a job, nested shells, masks beside a job), since
all at once is out of reach; two redirections and two saved masks are the least
in which order matters. The commands' inputs have up to three lines, items or
records, trees of two to three levels, expressions of two operators (where every
precedence and associativity shows), limits of 3 in the place of 100 or 10000.

Counters that are cut: `MaxCommandCount` bounds `nextID`, `XargsNumbers` what `-n`
and `-P` ask for, `MaxAddresses` what a name resolves to (2: one address the policy
may refuse beside one it allows), `Fits` keeps renamed
entries within `Paths` (`Overlay`), "bound" those of `MemoryFS`, `MaxOrphans`
what crashes leave, `MaxOpen`, `MaxSaved`, `MaxText` and the depth of a program
`Scripts`, `MaxOthers` the changes of other jobs.

**Views.** `memory`, `database` and `mounts` use a `VIEW` that forgets which
identity a node has and keeps which names share one: calls never compare
identities otherwise, and the smallest free one is taken.

**Fairness.** `jobs` assumes weak fairness of each actor's own steps, of its
noticing a cancelled context at a command boundary (the interpreter checks it
before every command), of the return of a called command (built-ins get the same
context), of `Stop` and `Return`, and of the clock. It does not assume that a
script ends: a script may loop for ever and only the deadline ends it. Weak
fairness is what the Go scheduler gives a runnable goroutine; a receive from a
closed channel and a wait on a group that stays at zero remain enabled.
`output_budget` assumes weak fairness of a writer inside `Write`; none of a
compare-and-swap in particular. It succeeds in the end because `used` only grows.
The other runs check safety. That a run of a command ends shows in the absence of
deadlock and in the properties, which speak of its last state.

**Liveness holds under `WaitsForward`**: scripts only wait for jobs younger than
the waiter, so waits form no cycle. `jobs_wait_cycle` is the same system without
the restriction, where it fails.

**Deadlock** is checked in every run but `jobs_wait_cycle`, in which stopping is
the point. `Finished` is the stutter of a call, or a command, that returned.

### Properties of Jobs

`NoJobOutlivesExec`: nothing writes to the buffers or the filesystem after the
caller got its result. The delicate case is a nested job whose `wg.Add` races
`wg.Wait`; its parent is still counted then. `KilledStatus`: `kill` and the end
of a job race, and the signal decides the status if it was accepted.
`CancellationReaches`: a cancellation reaches contexts however late they are
derived. `TimeoutReported`: the cause read after the teardown's own cancellation
is still the first one. `ImplementsTable`: seen through (`tableLife`,
`tablePromise`, `tableVerdict`) every step is one of `JobTable` or a stutter.
`ExecReturns`: the deadline ends the call. Not in a run any more, since they are
proved: `TableSettled` (no allocated job is left unlaunched), `FinishedIsFinal`,
`WaitReportsFinalStatus` (the unlocked read is sound), `CommandLimit` (the limit
is that of all scopes together), `CauseIsFirst`.

### Properties of OutputBudget

`Accounted`: bytes charged are bytes stored or in flight. `ExceededIsFull`
(proved): status 126 for output means the caller got exactly the limit. (So
`Exec`'s message "output size limit exceeded" goes through the same spent
budget, so none of it is ever kept.) `LossIsFlagged`, `WritesReturn`,
`ImplementsMeter`.

### Properties of Overlay

`ListingMatches`: no entry shows below a file or a missing directory
(`ViewIsTree`), and listings show what lookups find, whatever was torn before. `TornReadsOldNewOrLower`: between two calls of an operation each
path reads as before it, after it, or as the lower layer has it; so a torn
copy-up never exposes a half-made entry. The third case is real: `rmdir` clears
the markers inside a directory before it removes the directory
(`overlay.go:264`), so entries that were deleted one by one show again when it
stops in between. The code does not claim atomicity; the property says how far
the damage goes. `ImplementsTree`: an operation that completes is one operation
of `FileTree` or changes nothing visible, one that is refused changes nothing
visible, also when earlier ones were torn. It admits a refusal of what `FileTree`
allows: a rename onto an empty directory that holds markers is refused.

### Properties of the filesystems

`TableIsTree`, `UsedIsReachable`, `WriteIsRead`: what a session may rely on, and
the accounting that hard links, replaced targets and removed trees must keep.
`CopyIsComplete`, `OthersAreLeftAlone`, `MergeFinishes`: an import is complete if
it succeeds, changes nothing else at any of its calls, and a torn one is finished
by a merge. The first two except targets with links in the way, or with one file
under two of the names, where the code writes through them (section 5); a
MountReplace removes those, and only a link on the way to its target counts. `AgreesWithMemory`: on whole tables the database
is the memory filesystem. `RemovalCollects`, `FilesKeepAName`: after a crash rows
without a path, and the bytes they hold, go with the next removal, and no file
loses its last name but by a removal. `MovedIsSomewhere`, `ListingMatches`: see
above.

### Properties of Scripts

`MaskScoped`: a subshell that reaches its end gives back the mask it was entered
with, whatever was nested in it; `WritesBack`: a redirection of a file that nobody
else changed leaves what its commands wrote and the permissions that were there.
The commands may be those of the script and of its job by turns, each write in
its steps; the bytes are excused where two writes overlapped (`raced`) or the close
came after a write had grown the data and before it copied (`HalfWritten`). That
these two are the only excuses is what it says of the missing lock; without either
of them TLC finds it false (section 5).
`NoclobberKeeps`: a file that was there at the open is not replaced.

### Properties of the commands

One per command, in the words of a user of it: `XargsDelivers` (each item to one
child, waves, order, failures), `FindFinds` (each entry once and in order;
`-delete` removes what was selected), `FindReadsBack` (a guard on a deletion
still guards it), `SedIdioms` (idioms whose output is known without running
them), `CurlObeys` (every request that leaves is allowed), `ArchivesReturn`
(round trips; nothing half-read is written), `SqliteSerializes` (runs on one
database are as if one after the other), `AwkReads` (programs of known output
over every input), `AwkReadsBack` (a program is read as the tree it was written
from), `GrepSees` (files, context, status), `ExprComputes` (values, widths,
status), `FilesAsTold` (commands change what they were told to and nothing else;
mktemp's names are new; commands at the same time lose no file between them).

## 4. What is proved

All proofs are checked by `tlapm` with Z3, Zenon and LS4; nothing is assumed
but the named assumptions on constants, which TLC evaluates in the runs.

**Jobs** (`Jobs_proofs`), for any number of commands, jobs, nesting depth,
signals and argument lists, from `JobsAssumption`. None of the safety properties
is inductive alone. `IInv` joins `TypeOK` with:

* `Ownership`: an allocated job without a goroutine is held by exactly one actor
  about to launch it. This is the key fact: it makes `Register` and `Spawn` act
  on a job nobody else launches, and gives `TableSettled`.
* `GroupCounts`: the wait group is the number of goroutines that have not left.
  With it `stopJobs` can only return when all are gone, and `wg.Add` of a nested
  job is safe because its launcher is counted.
* `DoneIffPublished`: `done` is closed exactly past the publishing section.
* `Tree`: the context tree is transitively closed, and a context that was not
  derived yet encloses nothing; `CancellationReaches` needs it at `Register`.
* `Charged`, `Armed`, `OverranIsDeadline`, and what holds once the call returned.

Theorems: `TypeCorrect`, `ExecLeavesNothing`, `ExecSettlesTable`,
`KillDecidesStatus`, `WaitIsFinal`, `CommandsBounded`, `CancellationIsDeep`,
`TimeoutIsReported`, `EntriesAreFinal`, `CausesAreFinal`, and
`JobsImplementTable`: `Spec => ImplementsTable`. The invariant does not use
`WaitsForward`, so safety holds for scripts that wait in cycles too.

**OutputBudget** (`OutputBudget_proofs`), for any set of writers, limit and sizes,
from `OutputAssumption`. `IInv` is `TypeOK`, `Mutex` (a buffer is held by the one
writer inside its `Write`), `NothingYet` (nothing is granted before the swap),
`Asking` (only writes of a byte or more reach the budget: otherwise an empty
write on a full budget would count as a loss), `Reporting` (who flags has seen
the budget spent) and `Accounted`. Theorems: `TypeCorrect`, `BytesAccounted`,
`ExceededMeansFull`, `NoSilentLoss`, `ResultFits` (both buffers together never
exceed the limit), `BudgetImplementsMeter`.

**Scripts** (`Scripts_proofs`), for any files, permission bits, masks, programs and
depth of nesting, from `MaskAssumption` (the masks are subsets of the bits) and
`ProgramAssumption` (programs use redirections the shell has). `IInv` is

* `Typed`: among the types, a redirection that truncates or appends and in which no
  two writes have overlapped is `Kept`: one process at most is writing, and what the
  data and the offset are is what its step leaves of what is expected (`Holds`); and
  one of a file that was there has the permissions of that file;
  the main script is always inside a shell; what a job inherited is a redirection
  of the main script.
* `Protected`: a redirection opened under noclobber that nobody interfered with
  still has no file under its name. The check at the open gives it, and `stale`
  is set by whatever would break it.
* `Stacked`: a bracketed subshell still to be trusted has its mask on the stack of
  its shell, below as many entries as there are bracketed subshells of that shell
  further in; one without bracket has left the mask alone. The property itself
  only speaks of the innermost subshell, and what it pops depends on what every
  subshell around it pushed: that is why depth has to be counted. Entries that
  `exit` leaves behind lie above, and so make the subshells around it untrusted.

`Kept` is needed because nothing about the bytes at the close follows from the
close: each step of a write has to know what the step before it left, and that
nobody was between. Each step has a lemma of its own on the redirection alone
(`LandedScope`, `BegunScope`, `GrownScope`, `CopiedScope`, `EndedScope`).

Each action keeps the three; they share the lemmas on opening, closing and
pushing (`GrowStep`, `ShrinkStep`, `StackedPush`, `StackedPop`). That the running
shell is the innermost one rests on a maximum of a set of naturals, taken from
well-foundedness (`WFMin`). Theorems: `InvariantHolds`, `SubshellsRestoreMask`,
`RedirectionsWriteBack`, `NoclobberProtects`.

**Overlay** (`Overlay_proofs`), for any tree of paths, contents and lower trees,
from `OverlayAssumption` (paths are closed under parents, `Order` lists them with
directories first, a lower layer is a tree). The invariant `OverlayInv` says of
the upper layer that it is `Good`:

* `Upright`: its entries are a tree and each marker lies in a directory of it, so
  a marker never outlives its directory and never blocks a call.
* `Hides`: a directory that lies where the lower layer has a file is marked, so
  that nothing tears the two apart: a listing asks both layers, a lookup the upper
  one first. This is what `rm f; mkdir f` relies on.

An operation is a series of calls, so what is shown of it is shown of every run:
`GoodRun` (the upper layer is good at each of its calls, which is what makes torn
ones harmless), and for the operations that copy up, `Lifted`: after any number
of copy-ups, lookups show what they showed before. What an operation changes
comes in its last calls, and each theorem is about those: `Torn` (before them
everything is as it was, between them a path reads old, new or as the lower layer
has it) and `Kept` (an operation that fails has changed nothing anyone sees). A
rename is the long case: it copies up a tree, moves it, sets a marker behind it,
clears the one in front.

Theorems: `OverlayInvariant`, `OverlayTypeOK`, `OverlayViewIsTree` without further
hypotheses; `OverlayListings`, `OverlayTears` and `OverlayImplementsTree` (every
step is one of `FileTree`, or shows nothing) under `Early = {}` and
`DirTargets = FALSE`. These two exclude what section 5 describes, names that sort
before `.wh.` and writes onto directories of the lower layer, for which the three
are false.

**Memory, CopyMount** (`Memory_proofs`, `CopyMount_proofs`), for any names, node
identities, limit, lengths, link
targets, sources of mounts and mount points, from `MemoryAssumption` (names are
clean: no component is `..`; `Paths` is closed under parents; targets go up some
components or start at the root) and `CopyAssumption` (a source is a tree and
`Walk` visits all of it). A filesystem is good (`Goods`) if

* `Treed`: the root is a directory, and so is the parent of whatever has a name;
* `Counted`: each node has as many links as names (`Names`), directories and links
  have one and no bytes, and what has no name is `Nothing` (`Sound`). That a
  directory has a single name is what lets a removal or a rename speak of the
  entries below one name; it is not part of the property the run checks;
* `Charged`: `used` is the sum over *all* nodes, within the limit. As nodes without
  names have no bytes, this is the sum of `UsedIsReachable`, and it changes by one
  node at a time (`TotalWithout`, `TotalChange`), whatever order a fold takes.

Every operator of `MemoryFS` answers with a good filesystem when it is called on
one (`CreateFileGood` to `RenameGood`): a lookup, whatever links lead it where,
ends at a name whose parents are directories (`Lookup`, by induction over the 40
hops of `resolveLocked`); a removal of a set of names, in any order, leaves what
one would expect (`Gone`, `DropsGone`); a rename maps the names of each node one to
one to its new names (`ShiftedNames`) and a tree to a tree (`ShiftedGood`). A mount
is a list of such calls, cut anywhere (`AnswersAre`, `MountStep`).

That a write is read back (`WriteIsRead`) follows from the invariant and from what
a lookup does on two filesystems: where a name is found, so is every beginning of
it (`FromPrefix`), so a change at names that cannot be found moves nothing that can
(`FromKept`). A file that is overwritten changes no kind and no target
(`WriteOver`); a new one goes where no lookup could have gone through, not even one
through a dangling link that it replaces (`WriteNew`), and a second name where
there was nothing (`WrittenThroughLink`).

That a mount leaves alone what its policy leaves alone (`OthersAreLeftAlone`) is
about every call of it. The names of a copy are laid out so that each lies at the
root or in a directory that the copy makes before (`Layout`, `MountLayout`), and
the calls are made of such names only (`CallsAreCopies`). While no link is among
the directories and files of a copy (`Straight`), no lookup of a call is led away
from the name it is given (`FoundStraight`, `SlotStraight`), so a call changes that
name, what shares its file or lies below it, and keeps the rest and the
straightness (`ApplyKeeps`); hence every answer on the way does, wherever the mount
stops (`AnswersIn`, `MergeLeaves`).

That a mount which succeeds is complete (`CopyIsComplete`) is about all its calls
together. `Through` is what the calls of a mount that succeeds go through, and
`CopyIs` that they have the call for each entry of the source (`CallFor`) and no
others. A filesystem is `Ready` for a copy while no link is among its directories
and files and no two of its files are one (`Unshared`): so is one that meets no
link and shares no file (`MeetsReady`), one whose target is `Bare` (`BareReady`),
free (`FreeBare`) or cleared (`ClearsBare`, from what `removeAll` leaves). Every
call keeps it ready, and `Settled` for every name it was settled for: what a call
put at a name stays, and the call that puts a link there is preceded by the one
that takes away what is there (`CopyStep`, `ThenLinks`). So each entry is settled
by its own call (`ToldOnce`, `CopySettles`, `CopyThere`), and a link, rebased to the
target, leads to the copy of what it led to (`RebasedLeads`, `OneHop`).

That a mount torn on a target without content is finished by one that merges
(`MergeFinishes`) compares two series of calls, with links anywhere and whatever
else the filesystem holds. The first calls lead to a directory with nothing in it,
through links or not, and only make directories until then (`TargetMade`). From
there on `Torn` is invariant (`TornStep`, `TornRun`): what is below that directory
are entries of the source, what was there before is still there (`Grown`), and
every link has the first identity that was free. A lookup that succeeds does so
when more is there (`FoundGrown`), so what a call made still stands when the second
mount asks for it again (`StandsAgain`), and changes nothing. A link, which is
taken away and made again, gets the identity it had (`RelinkSame`, `LinkBack`); that
is why `Torn` speaks of identities. So the second mount is at each call where the
first one stopped, and then goes on as the first one would have (`GoesOn`).

Theorems: `MemoryInvariant`, `MemoryIsTree`, `MemoryIsAccounted`,
`MemoryWritesAreRead`, `MountLeavesOthers`, `MountCopies`, `MountFinishes`, of
`MountSpec` and under `MovesRoot = FALSE`: `Rename` takes the root away from what is in it (section 5).

**Xargs, curl** (`Commands_proofs`), for any input, `-n`, `-P` and exit codes, and
for any policy, options, redirects and answers. `XargsInv`: of the lists that
`buildXargsInvocations` makes, those up to `next` were given out, all but the
`running` of the last wave are answered in their places, and at the end the
output is the input again. `XargsAlwaysDelivers` needs that cutting the input and
joining the pieces loses nothing. `CurlInv`: what was sent was allowed (`Allowed`),
what is about to be is (`Known`; the check of a redirect comes before the request,
the limit counts what was sent), and nothing is delivered before the end (`Told`).
Theorems: `XargsInvariant`, `XargsAlwaysDelivers`, `CurlInvariant`,
`CurlAlwaysObeys`, from `XargsAssumption` and `CurlAssumption`.

**Sqlite** (`Commands_proofs`), for any runs, statements and databases, from
`SqliteAssumption`. `SqliteInv`: a lock has one owner, who may be a run that was
handed it and has not noticed (`Owned`); who waits stands in line, once (`Queued`);
with one name for the file, it holds what those who wrote made of it one after
the other, and a copy inside the lock is that of the file (`Serialized`); what is
reported is what was written (`Reported`). A run handed a lock after its context
ended keeps it (section 5): the invariant has that case, and the serialisation
holds beside it. Theorems: `SqliteInvariant`, `SqliteIsSerial`.

**Induction over data.** Where a proof needs it (the calls of an operation, the
pieces of an input, the statements of a run) it speaks of a set of numbers:
`Induct` in `Lemmas` says that a set with zero and, with each number, the next one
has them all, and `StepsReach` that a function defined by recursion over `0 .. n`
exists and takes the steps of its definition. Both come from well-foundedness of
the naturals.

**Model-checked only.** Liveness (`ExecReturns`, `WritesReturn`): fairness and
`ENABLED` are out of the prover's reach. The counterexamples of section 5.
What `Database`, `Mountable`, `Archive`, `Files` and `Grep` promise: not proved yet. What `Awk`, `AwkParser`, `Expr`, `Find`,
`FindParser` and `Sed` promise: their descents are RECURSIVE operators, which the
prover does not support.

## 5. Where the code departs from its documentation

Four are runs that TLC ends with a counterexample.

* `jobs_wait_cycle`: a background job that runs `wait` selects itself
  (`jobs.go:295`), blocks on its own `done` without watching the context
  (`jobs.go:283`), and `stopJobs` blocks with it: the 30 second deadline of
  README.md:170 does not end the call.
* `jobs_kill_race`: a kill between `allocateJob` and `startJob` finds no cancel
  function (`jobs.go:269`). It is accepted and the job still runs its script.
* `database_torn`: `movePaths` (`database.go:742`) moves a tree row by row,
  deepest first. Stopped in between, entries have no parent directory.
* `scripts_umask`: `exit` in a subshell that sets the mask skips the restoring
  statement (`shell_normalization.go:146`); the mask of the subshell stays.

The rest was met while modelling. The models do as the code does, and the
properties are stated so that they hold beside it.

*Jobs.* `$!` belongs to the table all jobs share (`jobs.go:73`), so a job that
starts a job changes it for the main script. A number given to `wait` matches job
ids and pids at once (`jobs.go:310`), ambiguous past 2000 jobs.

*Overlay.* Markers delete what was merged before them (`overlay.go:121`): after
`rm -r .git; mkdir .git` over a lower `.git` the new directory is found by `Stat`
and is in no listing (`Early` says which names sort that way). A directory only
the lower layer has does not stop a write or a rename onto it (`overlay.go:191`,
`overlay.go:317`; `DirTargets`). examples/README.md:63 says that there are no
whiteouts.

*Memory and mounts.* An append refused by the quota leaves a new empty file
(`memory.go:264`), in the place of a dangling link if there was one; so does
`WriteFile`. `MkdirAll` over a file succeeds. `Rename` takes the root
(`MovesRoot`). MountMerge writes through links and hard links of the target into
other entries (`memory.go:235`), and a link of the source replaces a whole
directory (`copy.go:212`), against copy.go:24; a torn MountIfAbsent is taken for
done ever after. A rename across mounts merges into a
directory that is not empty; an unmount between its copy and its removal sends
the removal elsewhere; a base file may be written over a directory that leads to
a mount; links never lead across mounts.

*Scripts.* A mask set in a function that a subshell calls stays set; so does
noclobber set in a subshell. `> f` truncates only at the close, so what others
wrote in between is lost, and a chmod in between undone (`fs_handlers.go:67`). A
job started inside a redirected group writes into nothing once the group is
closed, and takes its mask when it begins, not at the `&`. Until then it writes
through the script's own file value (`jobs.go:201`), and `virtualFile.Write` has no
lock (`fs_handlers.go:135-140`): of `{ echo a & echo b; wait; } > f` one line may be
overwritten by the other, and a write may panic where the other moved the offset
past the end it had computed. README.md:84 calls background jobs isolated, and
`boundedBuffer.Write`, where their output goes otherwise, takes a lock.

*find, xargs.* Effects are collected before any is carried out, so `-empty
-delete` misses directories it empties; `-exec` counts as true whatever it
returns. xargs returns the last failing child's own code.

*sed.* `t` without a label falls through (`sed.go:962`), `b` without one spins to
the cap, which silently cuts `:a;N;$!ba` on inputs of some 3,300 lines; equal
address ranges share one state; `/re/,N` with an earlier N stays open; output of
one cycle comes in a fixed order; `-i` stops at an error with earlier files
rewritten.

*curl, tar, gzip.* A body turns `-X GET` into a POST; `-I` sends GET; a rule with
headers refuses every redirect; a policy's 0 redirects mean 10. `tar c .` stores
names without their prefix; `/` is stored and refused at extraction; `-xO` makes
directories. gzip and gunzip keep their input and overwrite without `-f`.

*sqlite3.* A waiter whose context ends as it is handed the lock keeps it for ever
(`sqlite.go:633-644`). The lock is per name, not per file. A doubled quote hides
what follows it from the scanner (`sqlite.go:540`): `SELECT 'it''s'; INSERT ...`
counts as read-only and is not saved. A failure under `-bail` still saves what
came before.

*awk.* A non-empty text is false as a condition; `next` in a function ends only
the function; a `for` runs one round less than a `while` at the limit; too deep a
recursion is silently empty; setting NF does nothing. `if (c) x; else y`, a
newline after `else` or `&&`, and `;` between rules are misread; `print > file`
is a comparison; `$i++` is `$(i++)`.

*expr, grep, rg.* `12abc` is the integer 12 (so is ` 12`, `expr.go:370`, which is
left out of the model); both sides of `|` and `&` are
evaluated; overflow wraps. `parseOr` returns from its loop at the first `|` whose left
side is something (`expr.go:64`) and leaves what follows unread: `expr 7 '|' 0 '|' 7`
is a syntax error, status 2, in parentheses too, though the other levels chain.
`ExprComputes` asks of such chains (`ChainBreaks`) what the code does. A match inside the context of another is marked as
context; `-o` with context prints whole lines; without context neither prints a
separator between matches (`grep.go:419`, `rg.go:638`); rg applies every ignore file to
the whole search and passes over files that vanish.

*Files.* `ln -f` removes the destination before it knows that the link can be
made; cp stops an operand at its first error; `-n`, touch and install look before
they write, so touch may empty what another job just wrote; split starts its
names over after the last and overwrites the first.

## 6. What is not modelled, and why

* Parsing, expansion and most syntax-tree rewrites: the interpreter library's, or
  pure functions of the script.
* The formatting of results and messages, permissions and times of files (but the
  bits a mask takes, in `Scripts`), option parsing.
* `Bash.mu` between calls: one mutex held for the whole call, so calls do not
  interleave; what crosses calls is the filesystem.
* The trap table: it is read and written by the goroutine of its scope. `kill` of
  the shell itself runs a trap there, as a nested `execute`.
* Drivers, HTTP, the SQL engine, `regexp` and the host filesystem: libraries and
  I/O behind small interfaces, external where a model needs them.
* Links, permissions and interleaved operations in `Overlay`.
* Of shared redirections: writes of several bytes, and the tearing of the slice
  itself, whose pointer, length and capacity are three words; `Read` of an input that script and job
  share, the same race on the offset; and the sides of a pipeline inside a
  redirection (`{ a | b; } > f 2>&1`), which share it in the same way, with goroutines
  of the interpreter library in which a panic is not recovered.
* What a `find`, or a `tar` that creates, makes of a tree that another job changes
  meanwhile: the models have the changes, `FindFinds` and `ArchivesReturn` leave the
  results open, since the code takes no snapshot.
* A proxy from the environment: `policy.go:205` keeps the default transport's, so
  with HTTP_PROXY set the check at the dial sees the proxy's address. `CurlObeys`
  is about direct connections.
* Of rg: `.ignore` and `--ignore-file` (`rg.go:976-998`), and the sorting of all files by
  name before the search (`rg.go:708`); the model searches in the order of the
  walk, on which no property depends. Of sed: r, R, w, W, e, v, l, F and y.
* Sequential filters (sort, join, tr, printf, jq and the like): text to text, well
  served by the table tests beside them.

## 7. The plan

1. `JobTable`, `Jobs`, `OutputMeter`, `OutputBudget`, their proofs. *Done.*
2. `FileTree`, `Overlay` and its proofs. *Done.*
3. `MemoryFS`, `Memory`, `CopyMount`, `Database`, `Mountable`. *Checked.* Proved:
   `TableIsTree`, `UsedIsReachable`, `WriteIsRead`, `OthersAreLeftAlone`,
   `CopyIsComplete` and `MergeFinishes`. Next: `AgreesWithMemory` and the moves of
   `Database`, `MovedIsSomewhere` and `ListingMatches` of `Mountable`.
4. `Scripts` and its proofs. *Done.*
5. The commands. *Checked.* Proved: `Xargs`, `Curl`, `Sqlite`.
6. Traps: their copy into jobs, delivery at command boundaries.
7. Composition: `OutputBudget`'s cancellation and the exit code with `Jobs`;
   redirections of jobs over an `Overlay`.
