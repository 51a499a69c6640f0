---------------------------- MODULE OutputBudget ----------------------------
(***************************************************************************)
(* The output of one Bash.Exec: stdout and stderr are two boundedBuffers,  *)
(* each behind a mutex of its own, that draw on one outputBudget without a *)
(* lock: take reads the amount used, decides what is left, and publishes   *)
(* its share with a compare-and-swap, starting over when another write got *)
(* there first.  Writers are the goroutines of the execution.              *)
(***************************************************************************)
EXTENDS Integers

CONSTANTS Writers,  \* goroutines that write: pipeline stages, jobs, Exec
          NoWriter, \* the holder of a free mutex
          Maximum,  \* Limits.MaxOutputBytes
          Sizes     \* lengths of the writes

ASSUME OutputAssumption ==
  /\ NoWriter \notin Writers
  /\ Maximum \in Nat
  /\ Sizes \subseteq Nat

Buffers == {"stdout", "stderr"}

VARIABLES
  used,      \* outputBudget.used
  exceeded,  \* outputBudget.exceeded
  cancelled, \* whether budget.cancel was called
  holder,    \* the writer that holds each buffer's mutex
  len,       \* bytes in each buffer
  pc,        \* where a writer is in boundedBuffer.Write
  target,    \* the buffer it writes to
  asked,     \* n of take
  seen,      \* the local copy of used
  allowed,   \* what take granted
  lost       \* history: some write was granted less than it asked for

shared == <<used, exceeded, cancelled>>
local  == <<target, asked, seen, allowed>>
vars == <<shared, holder, len, pc, local, lost>>

Phases == {"idle", "take", "swap", "flag", "cancel", "append"}

Init ==
  /\ used = 0
  /\ exceeded = FALSE
  /\ cancelled = FALSE
  /\ holder = [b \in Buffers |-> NoWriter]
  /\ len = [b \in Buffers |-> 0]
  /\ pc = [w \in Writers |-> "idle"]
  /\ target = [w \in Writers |-> "stdout"]
  /\ asked = [w \in Writers |-> 0]
  /\ seen = [w \in Writers |-> 0]
  /\ allowed = [w \in Writers |-> 0]
  /\ lost = FALSE

Goto(w, where) == pc' = [pc EXCEPT ![w] = where]

-----------------------------------------------------------------------------
\* Write takes the buffer's mutex; take(0) is answered without a look at used.
Begin(w, b, n) ==
  /\ pc[w] = "idle"
  /\ holder[b] = NoWriter
  /\ holder' = [holder EXCEPT ![b] = w]
  /\ target' = [target EXCEPT ![w] = b]
  /\ asked' = [asked EXCEPT ![w] = n]
  /\ Goto(w, IF n = 0 THEN "append" ELSE "take")
  /\ UNCHANGED <<shared, len, seen, allowed, lost>>

Full(amount) == amount >= Maximum

\* used.Load(): nothing left is decided on the spot.
Load(w) ==
  /\ pc[w] = "take"
  /\ seen' = [seen EXCEPT ![w] = used]
  /\ Goto(w, IF Full(used) THEN "flag" ELSE "swap")
  /\ lost' = (lost \/ Full(used))
  /\ UNCHANGED <<shared, holder, len, target, asked, allowed>>

Share(w) == IF asked[w] <= Maximum - seen[w] THEN asked[w] ELSE Maximum - seen[w]

\* Variant: used is stored without the comparison.
Blindly(w) == used \in Int
StillSeen(w) == used = seen[w]

\* Variant: a partial grant is not reported.
NeverPartial(w) == Share(w) > asked[w]
Partial(w) == Share(w) < asked[w]

Swap(w) ==
  /\ pc[w] = "swap"
  /\ StillSeen(w)
  /\ used' = seen[w] + Share(w)
  /\ allowed' = [allowed EXCEPT ![w] = Share(w)]
  /\ lost' = (lost \/ Share(w) < asked[w])
  /\ Goto(w, IF Partial(w) THEN "flag" ELSE "append")
  /\ UNCHANGED <<exceeded, cancelled, holder, len, target, asked, seen>>

\* Variant: a failed swap is repeated without reading used again.
RetryNever == "swap"
RetryAt == "take"

SwapFails(w) ==
  /\ pc[w] = "swap"
  /\ used # seen[w]
  /\ Goto(w, RetryAt)
  /\ UNCHANGED <<shared, holder, len, local, lost>>

Flag(w) ==
  /\ pc[w] = "flag"
  /\ exceeded' = TRUE
  /\ Goto(w, "cancel")
  /\ UNCHANGED <<used, cancelled, holder, len, local, lost>>

Cancel(w) ==
  /\ pc[w] = "cancel"
  /\ cancelled' = TRUE
  /\ Goto(w, "append")
  /\ UNCHANGED <<used, exceeded, holder, len, local, lost>>

\* The granted prefix is stored and the mutex released.
Append(w) ==
  /\ pc[w] = "append"
  /\ len' = [len EXCEPT ![target[w]] = @ + allowed[w]]
  /\ holder' = [holder EXCEPT ![target[w]] = NoWriter]
  /\ allowed' = [allowed EXCEPT ![w] = 0]
  /\ Goto(w, "idle")
  /\ UNCHANGED <<shared, target, asked, seen, lost>>

-----------------------------------------------------------------------------
Progress(w) == Load(w) \/ Swap(w) \/ SwapFails(w) \/ Flag(w) \/ Cancel(w) \/ Append(w)

Next == \E w \in Writers :
          \/ \E b \in Buffers, n \in Sizes : Begin(w, b, n)
          \/ Progress(w)

Spec == Init /\ [][Next]_vars

\* The scheduler runs every goroutine that is inside Write.
FairSpec == Spec /\ \A w \in Writers : WF_vars(Progress(w))

-----------------------------------------------------------------------------
(* Properties *)

TypeOK ==
  /\ used \in 0..Maximum
  /\ exceeded \in BOOLEAN /\ cancelled \in BOOLEAN /\ lost \in BOOLEAN
  /\ holder \in [Buffers -> Writers \cup {NoWriter}]
  /\ len \in [Buffers -> Nat]
  /\ pc \in [Writers -> Phases]
  /\ target \in [Writers -> Buffers]
  /\ asked \in [Writers -> Nat]
  /\ seen \in [Writers -> 0..Maximum]
  /\ allowed \in [Writers -> 0..Maximum]

\* Bytes granted to the write in progress on a buffer and not stored yet.
InFlight(b) == IF holder[b] = NoWriter THEN 0 ELSE allowed[holder[b]]

\* take and Write together: every byte charged to the budget is in a buffer
\* or on its way into one, and no byte was stored without being charged, so
\* Stdout and Stderr never exceed MaxOutputBytes together.
Accounted ==
  used = len["stdout"] + InFlight("stdout") + len["stderr"] + InFlight("stderr")

\* Nothing is truncated while there is room: the exceeded flag, and with it
\* status 126, means that the caller got all of the output it allowed.
ExceededIsFull == exceeded => used = Maximum

\* No output is lost silently: between writes a loss is always flagged and
\* the execution cancelled.
LossIsFlagged ==
  lost /\ (\A w \in Writers : pc[w] = "idle") => exceeded /\ cancelled

\* Every Write returns: used only grows, so a compare-and-swap can fail only
\* so often, however many writers compete.
WritesReturn == \A w \in Writers : pc[w] # "idle" ~> pc[w] = "idle"

\* The lock-free budget behaves as one meter that serves writes one by one.
Meter == INSTANCE OutputMeter WITH stored <- used, truncated <- lost
ImplementsMeter == Meter!Spec
=============================================================================
