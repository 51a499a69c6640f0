---------------------------- MODULE Jobs_proofs ----------------------------
(***************************************************************************)
(* The safety properties of Jobs for every number of commands, every depth *)
(* and every script.                                                       *)
(***************************************************************************)
EXTENDS Jobs, FiniteSetTheorems, TLAPS

(* The inductive invariant *)

Launching(a) == pc[a] \in {"allocated", "registered"}
Running == {j \in JobID : pc[j] \notin {"none", "gone"}}

\* Who is where: a job that was allocated but has no goroutine yet is held by
\* exactly one actor, which is about to launch it.
Ownership ==
  /\ pc[Main] \notin {"none", "published", "gone"}
  /\ \A j \in JobID : j > nextID => pc[j] = "none"
  /\ \A a \in Actor : Launching(a) =>
       held[a] \in JobID /\ held[a] <= nextID /\ pc[held[a]] = "none"
  /\ \A a, b \in Actor : Launching(a) /\ Launching(b) /\ held[a] = held[b] => a = b
  /\ \A j \in JobID : j <= nextID /\ pc[j] = "none" =>
       \E a \in Actor : Launching(a) /\ held[a] = j
  /\ \A a \in Actor : pc[a] = "waiting" => queue[a] \in Seq(JobID)

\* The wait group counts the goroutines that have not left.
GroupCounts == wg = Cardinality(Running)

\* The done channel of a job is closed exactly when its goroutine is past
\* the critical section that publishes its status.
DoneIffPublished == \A j \in JobID : job[j].done <=> pc[j] \in {"published", "gone"}

\* The context tree: a context that does not exist yet encloses nothing, and
\* enclosure is transitive.
Tree ==
  /\ Main \in lineage[Main]
  /\ \A j \in JobID : ~job[j].cancel => \A b \in Actor : j \notin lineage[b]
  /\ \A a \in Actor : pc[a] = "allocated" => ~job[held[a]].cancel
  /\ \A j \in JobID : j > nextID => ~job[j].cancel
  /\ \A a, b \in Actor : a \in lineage[b] => lineage[a] \subseteq lineage[b]

\* The commands that ran are among those that were charged.
Charged == executed <= commands

\* A kill in progress knows which status it imposes.
Armed == \A a \in Actor : pc[a] \in {"killing", "cancelling"} => sig[a] \in SignalCodes

\* A recorded overrun is the cause of the main context's end.
OverranIsDeadline == overran => ctx[Main] = "deadline"

-----------------------------------------------------------------------------
LEMMA ActorFacts == /\ Main \in Actor
                    /\ JobID \subseteq Actor
                    /\ Main \notin JobID
                    /\ Actor \subseteq Nat
                    /\ 0..MaxCommandCount = Actor
                    /\ JobID \subseteq Nat
BY JobsAssumption DEF Actor, JobID, Main

LEMMA RunningFinite == IsFiniteSet(Running) /\ Cardinality(Running) \in Nat
<1>1. IsFiniteSet(JobID)
  BY FS_Interval, JobsAssumption DEF JobID
<1>2. Running \subseteq JobID
  BY DEF Running
<1> QED
  BY <1>1, <1>2, FS_Subset, FS_CardinalityType

\* A cancellation keeps every context well-typed, ends the contexts below the
\* one it is called on and leaves the ones that ended before alone.
LEMMA CancelledFacts ==
  ASSUME TypeOK, NEW a \in Actor, NEW why \in {"deadline", "canceled"}
  PROVE  /\ Cancelled(a, why) \in [Actor -> {"nil", "deadline", "canceled"}]
         /\ \A b \in Actor : ctx[b] # "nil" => Cancelled(a, why)[b] = ctx[b]
         /\ \A b \in Actor : a \in lineage[b] => Cancelled(a, why)[b] # "nil"
         /\ \A b \in Actor : a \notin lineage[b] => Cancelled(a, why)[b] = ctx[b]
         /\ \A b \in Actor : a \in lineage[b] /\ ctx[b] = "nil" => Cancelled(a, why)[b] = why
BY DEF TypeOK, Cancelled

LEMMA CodeFacts == /\ 0 \in Codes /\ Refused \in Codes /\ Interrupted \in Codes
                   /\ ExitCodes \subseteq Codes /\ SignalCodes \subseteq Codes
BY DEF Codes

\* The three ways the code writes a field of a job's entry.
LEMMA JobEntryUpdate ==
  ASSUME NEW f \in [JobID -> VirtualJob], NEW j \in JobID
  PROVE  /\ [f EXCEPT ![j].cancel = TRUE] \in [JobID -> VirtualJob]
         /\ \A n \in SignalCodes \cup {0} :
              [f EXCEPT ![j].forced = n] \in [JobID -> VirtualJob]
         /\ \A s \in Codes :
              [f EXCEPT ![j] = [@ EXCEPT !.done = TRUE, !.status = s]] \in [JobID -> VirtualJob]
<1>1. [f EXCEPT ![j].cancel = TRUE] \in [JobID -> VirtualJob]
  BY DEF VirtualJob
<1>2. ASSUME NEW n \in SignalCodes \cup {0}
      PROVE  [f EXCEPT ![j].forced = n] \in [JobID -> VirtualJob]
  BY DEF VirtualJob
<1>3. ASSUME NEW s \in Codes
      PROVE  [f EXCEPT ![j] = [@ EXCEPT !.done = TRUE, !.status = s]] \in [JobID -> VirtualJob]
  <2>1. [f[j] EXCEPT !.done = TRUE, !.status = s] \in VirtualJob
    BY DEF VirtualJob
  <2> QED
    BY <2>1
<1> QED
  BY <1>1, <1>2, <1>3

-----------------------------------------------------------------------------
(* Type correctness *)

LEMMA TypeInit == Init => TypeOK
<1> SUFFICES ASSUME Init PROVE TypeOK
  OBVIOUS
<1> USE JobsAssumption, ActorFacts, CodeFacts
<1>1. job \in [JobID -> VirtualJob]
  BY DEF Init, NewJob, VirtualJob
<1>2. pc \in [Actor -> Phases]
  BY DEF Init, Phases
<1>3. lineage \in [Actor -> SUBSET Actor]
  BY DEF Init
<1>4. answer \in [Actor -> [job : Actor, status : Codes]]
  BY DEF Init, Main
<1>5. held \in [Actor -> Actor]
  BY DEF Init, Main
<1>6. nextID \in 0..MaxCommandCount /\ last \in 0..MaxCommandCount
  BY DEF Init
<1>7. queue \in [Actor -> Seq(Nat)]
  BY DEF Init
<1> QED
  BY <1>1, <1>2, <1>3, <1>4, <1>5, <1>6, <1>7 DEF Init, TypeOK

LEMMA TypeStep ==
  ASSUME TypeOK, Ownership, GroupCounts, [Next]_vars
  PROVE  TypeOK'
<1> USE JobsAssumption, ActorFacts, CodeFacts DEF Goto, table, control, contexts, outcome, history
<1>0. CASE UNCHANGED vars
  BY <1>0 DEF TypeOK, vars
<1>1. ASSUME NEW a \in Actor, Call(a) PROVE TypeOK'
  <2>1. commands' \in Nat
    BY <1>1 DEF TypeOK, Call
  <2>2. CASE OverBudget(commands')
    <3>1. /\ pc' = [pc EXCEPT ![a] = "ended"]
          /\ code' = [code EXCEPT ![a] = Refused]
          /\ executed' = executed
      BY <1>1, <2>2 DEF Call
    <3>2. pc' \in [Actor -> Phases]
      BY <3>1 DEF TypeOK, Phases
    <3>3. code' \in [Actor -> Codes]
      BY <3>1 DEF TypeOK
    <3> QED
      BY <1>1, <2>1, <3>1, <3>2, <3>3 DEF TypeOK, Call
  <2>3. CASE ~OverBudget(commands')
    <3>1. /\ pc' = [pc EXCEPT ![a] = "called"]
          /\ executed' = executed + 1
          /\ code' = code
      BY <1>1, <2>3 DEF Call
    <3>2. pc' \in [Actor -> Phases]
      BY <3>1 DEF TypeOK, Phases
    <3>3. executed' \in Nat
      BY <3>1 DEF TypeOK
    <3> QED
      BY <1>1, <2>1, <3>1, <3>2, <3>3 DEF TypeOK, Call
  <2> QED
    BY <2>2, <2>3
<1>2. ASSUME NEW a \in Actor, Exit(a) PROVE TypeOK'
  <2>1. pc' \in [Actor -> Phases]
    BY <1>2 DEF TypeOK, Exit, Phases
  <2>2. code' \in [Actor -> Codes]
    BY <1>2 DEF TypeOK, Exit
  <2> QED
    BY <1>2, <2>1, <2>2 DEF TypeOK, Exit
<1>3. ASSUME NEW a \in Actor, Interrupt(a) PROVE TypeOK'
  BY <1>3 DEF TypeOK, Interrupt, Phases
<1>4. ASSUME NEW a \in Actor, Run(a) PROVE TypeOK'
  BY <1>4 DEF TypeOK, Run, Phases
<1>5. ASSUME NEW a \in Actor, Overflow(a) PROVE TypeOK'
  BY <1>5, CancelledFacts DEF TypeOK, Overflow, Phases
<1>6. ASSUME NEW a \in Actor, Allocate(a) PROVE TypeOK'
  <2>5. pc' \in [Actor -> Phases]
    BY <1>6 DEF TypeOK, Allocate, Phases
  <2>6. nextID' \in JobID
    BY <1>6 DEF TypeOK, Allocate, JobID
  <2>7. held' \in [Actor -> Actor]
    BY <1>6, <2>6 DEF TypeOK, Allocate
  <2>8. last' \in 0..MaxCommandCount /\ nextID' \in 0..MaxCommandCount
    BY <1>6, <2>6 DEF Allocate
  <2> QED
    BY <1>6, <2>5, <2>6, <2>7, <2>8 DEF TypeOK, Allocate
<1>7. ASSUME NEW a \in Actor, Register(a) PROVE TypeOK'
  <2>1. held[a] \in JobID
    BY <1>7 DEF Register, Ownership, Launching
  <2>5. pc' \in [Actor -> Phases]
    BY <1>7 DEF TypeOK, Register, Phases
  <2>6. job' \in [JobID -> VirtualJob]
    BY <1>7, <2>1, JobEntryUpdate DEF TypeOK, Register
  <2>7. lineage' \in [Actor -> SUBSET Actor]
    BY <1>7, <2>1 DEF TypeOK, Register
  <2>8. ctx' \in [Actor -> {"nil", "deadline", "canceled"}]
    BY <1>7, <2>1 DEF TypeOK, Register
  <2> QED
    BY <1>7, <2>5, <2>6, <2>7, <2>8 DEF TypeOK, Register
<1>8. ASSUME NEW a \in Actor, Spawn(a) PROVE TypeOK'
  <2>5. pc' \in [Actor -> Phases]
    BY <1>8 DEF TypeOK, Spawn, Phases
  <2>6. code' \in [Actor -> Codes]
    BY <1>8 DEF TypeOK, Spawn
  <2>7. held' \in [Actor -> Actor]
    BY <1>8 DEF TypeOK, Spawn, Main
  <2>8. wg' \in Nat
    BY <1>8 DEF TypeOK, Spawn
  <2> QED
    BY <1>8, <2>5, <2>6, <2>7, <2>8 DEF TypeOK, Spawn
<1>9. ASSUME NEW a \in Actor, Kill(a) PROVE TypeOK'
  <2>5. pc' \in [Actor -> Phases]
    BY <1>9 DEF TypeOK, Kill, Phases
  <2>6. queue' \in [Actor -> Seq(Nat)]
    BY <1>9 DEF TypeOK, Kill
  <2>7. sig' \in [Actor -> SignalCodes \cup {0}]
    BY <1>9 DEF TypeOK, Kill
  <2> QED
    BY <1>9, <2>5, <2>6, <2>7 DEF TypeOK, Kill
<1>10. ASSUME NEW a \in Actor, SignalJob(a) PROVE TypeOK'
  <2>1. PICK j \in JobID : /\ job' = [job EXCEPT ![j].forced = sig[a]]
                           /\ held' = [held EXCEPT ![a] = IF job[j].cancel THEN j ELSE 0]
    <3>1. PICK j \in Signallable(Head(queue[a])) :
               /\ job' = [job EXCEPT ![j].forced = sig[a]]
               /\ held' = [held EXCEPT ![a] = IF job[j].cancel THEN j ELSE 0]
      BY <1>10 DEF SignalJob
    <3>2. j \in JobID
      BY DEF Signallable, Allocated, JobID, TypeOK
    <3> QED
      BY <3>1, <3>2
  <2>2. queue' \in [Actor -> Seq(Nat)]
    BY <1>10 DEF SignalJob, TypeOK
  <2>3. job' \in [JobID -> VirtualJob]
    BY <2>1, JobEntryUpdate DEF TypeOK
  <2>5. pc' \in [Actor -> Phases]
    BY <1>10 DEF TypeOK, SignalJob, Phases
  <2>4. held' \in [Actor -> Actor]
    BY <2>1 DEF TypeOK, Main
  <2> QED
    BY <1>10, <2>2, <2>3, <2>4, <2>5 DEF TypeOK, SignalJob
<1>11. ASSUME NEW a \in Actor, CancelJob(a) PROVE TypeOK'
  <2>1. ctx' \in [Actor -> {"nil", "deadline", "canceled"}]
    BY <1>11, CancelledFacts DEF TypeOK, CancelJob
  <2> QED
    BY <1>11, <2>1 DEF TypeOK, CancelJob, Phases, Main
<1>12. ASSUME NEW a \in Actor, KillReturns(a) PROVE TypeOK'
  <2>5. pc' \in [Actor -> Phases]
    BY <1>12 DEF TypeOK, KillReturns, Phases
  <2>6. queue' \in [Actor -> Seq(Nat)]
    BY <1>12 DEF TypeOK, KillReturns
  <2>7. sig' \in [Actor -> SignalCodes \cup {0}]
    BY <1>12 DEF TypeOK, KillReturns
  <2> QED
    BY <1>12, <2>5, <2>6, <2>7 DEF TypeOK, KillReturns
<1>13. ASSUME NEW a \in Actor, WaitMissing(a) PROVE TypeOK'
  BY <1>13 DEF TypeOK, WaitMissing, Phases
<1>14. ASSUME NEW a \in Actor, Wait(a) PROVE TypeOK'
  <2>1. PICK args \in WaitArgs : \E s \in Selections(args) : queue' = [queue EXCEPT ![a] = s]
    BY <1>14 DEF Wait
  <2>0. PICK s \in Selections(args) : queue' = [queue EXCEPT ![a] = s]
    BY <2>1
  <2>2. s \in Seq(Nat)
    <3>1. Allocated \subseteq Nat
      BY DEF Allocated, TypeOK
    <3>2. CASE args = <<>>
      BY <3>1, <3>2 DEF Selections, Allocated, TypeOK
    <3>3. CASE args # <<>>
      <4>1. Len(args) \in Nat
        OBVIOUS
      <4>2. s \in [1..Len(args) -> Nat]
        BY <3>1, <3>3 DEF Selections
      <4> QED
        BY <4>1, <4>2
    <3> QED
      BY <3>2, <3>3
  <2> QED
    BY <1>14, <2>0, <2>2 DEF TypeOK, Wait, Phases
<1>15. ASSUME NEW a \in Actor, WaitNext(a) PROVE TypeOK'
  <2>1. Head(queue[a]) \in JobID
    BY <1>15 DEF WaitNext, Ownership
  <2>5. queue' \in [Actor -> Seq(Nat)]
    BY <1>15 DEF TypeOK, WaitNext
  <2>6. answer' \in [Actor -> [job : Actor, status : Codes]]
    BY <1>15, <2>1 DEF TypeOK, WaitNext, VirtualJob
  <2> QED
    BY <1>15, <2>5, <2>6 DEF TypeOK, WaitNext
<1>16. ASSUME NEW a \in Actor, WaitReturns(a) PROVE TypeOK'
  BY <1>16 DEF TypeOK, WaitReturns, Phases
<1>17. ASSUME NEW a \in Actor, Publish(a) PROVE TypeOK'
  <2>1. a \in JobID /\ FinalStatus(a) \in Codes
    BY <1>17 DEF Publish, TypeOK, FinalStatus, Actor, VirtualJob
  <2>5. pc' \in [Actor -> Phases]
    BY <1>17 DEF TypeOK, Publish, Phases
  <2>6. job' \in [JobID -> VirtualJob]
    BY <1>17, <2>1, JobEntryUpdate DEF TypeOK, Publish
  <2> QED
    BY <1>17, <2>5, <2>6 DEF TypeOK, Publish
<1>18. ASSUME NEW a \in Actor, Leave(a) PROVE TypeOK'
  <2>1. a \in Running
    BY <1>18 DEF Leave, Running, Ownership, Actor
  <2>2. wg # 0
    BY <2>1, RunningFinite, FS_EmptySet DEF GroupCounts
  <2>5. pc' \in [Actor -> Phases]
    BY <1>18 DEF TypeOK, Leave, Phases
  <2>6. wg' \in Nat
    BY <1>18, <2>2 DEF TypeOK, Leave
  <2> QED
    BY <1>18, <2>5, <2>6 DEF TypeOK, Leave
<1>19. CASE Stop
  BY <1>19, CancelledFacts DEF TypeOK, Stop, Phases
<1>20. CASE Return
  BY <1>20 DEF TypeOK, Return, ExitCode, Phases
<1>21. CASE Deadline
  BY <1>21, CancelledFacts DEF TypeOK, Deadline
<1>22. CASE HostCancel
  BY <1>22, CancelledFacts DEF TypeOK, HostCancel
<1> QED
  BY <1>0, <1>1, <1>2, <1>3, <1>4, <1>5, <1>6, <1>7, <1>8, <1>9, <1>10, <1>11, <1>12, <1>13,
     <1>14, <1>15, <1>16, <1>17, <1>18, <1>19, <1>20, <1>21, <1>22
  DEF Next, ActorStep, Command, Advance, Finished

-----------------------------------------------------------------------------
(* Ownership *)

LEMMA OwnershipInit == Init => Ownership
BY ActorFacts DEF Init, Ownership, Launching, JobID

\* A step that moves one actor, launches nothing and leaves the jobs in the
\* hands of the other actors.
LEMMA OwnershipMove ==
  ASSUME TypeOK, Ownership, NEW a \in Actor, NEW w \in Phases,
         pc[a] \notin {"none", "allocated", "registered"},
         w \notin {"none", "allocated", "registered", "waiting"},
         a = Main => w \notin {"published", "gone"},
         pc' = [pc EXCEPT ![a] = w],
         nextID' = nextID,
         \A b \in Actor \ {a} : held'[b] = held[b] /\ queue'[b] = queue[b]
  PROVE  Ownership'
<1> USE ActorFacts DEF TypeOK
<1>1. \A b \in Actor : Launching(b)' <=> Launching(b)
  BY DEF Launching
<1>2. \A b \in Actor : Launching(b) => held'[b] = held[b]
  BY DEF Launching
<1>3. \A b \in Actor : pc'[b] = "none" <=> pc[b] = "none"
  OBVIOUS
<1>4. (pc[Main] \notin {"none", "published", "gone"})'
  BY DEF Ownership
<1>5. \A b \in Actor : pc'[b] = "waiting" => pc[b] = "waiting" /\ queue'[b] = queue[b]
  OBVIOUS
<1>6. (\A j \in JobID : j > nextID => pc[j] = "none")'
  BY <1>3 DEF Ownership
<1>7. (\A b \in Actor : Launching(b) =>
         held[b] \in JobID /\ held[b] <= nextID /\ pc[held[b]] = "none")'
  <2> SUFFICES ASSUME NEW b \in Actor, Launching(b)
               PROVE  held'[b] \in JobID /\ held'[b] <= nextID' /\ pc'[held'[b]] = "none"
    BY <1>1
  <2>1. held'[b] = held[b] /\ held[b] \in JobID /\ held[b] <= nextID /\ pc[held[b]] = "none"
    BY <1>2 DEF Ownership
  <2> QED
    BY <2>1, <1>3
<1>8. (\A b, c \in Actor : Launching(b) /\ Launching(c) /\ held[b] = held[c] => b = c)'
  BY <1>1, <1>2 DEF Ownership
<1>9. (\A j \in JobID : j <= nextID /\ pc[j] = "none" =>
         \E b \in Actor : Launching(b) /\ held[b] = j)'
  <2> SUFFICES ASSUME NEW j \in JobID, j <= nextID, pc[j] = "none"
               PROVE  \E b \in Actor : Launching(b)' /\ held'[b] = j
    BY <1>3
  <2>1. PICK b \in Actor : Launching(b) /\ held[b] = j
    BY DEF Ownership
  <2> QED
    BY <2>1, <1>1, <1>2
<1>10. (\A b \in Actor : pc[b] = "waiting" => queue[b] \in Seq(JobID))'
  BY <1>5 DEF Ownership
<1> QED
  BY <1>4, <1>6, <1>7, <1>8, <1>9, <1>10 DEF Ownership

\* A step that moves nobody.
LEMMA OwnershipStay ==
  ASSUME Ownership, UNCHANGED <<nextID, pc, held, queue>>
  PROVE  Ownership'
BY DEF Ownership, Launching

LEMMA OwnershipStep ==
  ASSUME TypeOK, Ownership, [Next]_vars
  PROVE  Ownership'
<1> USE ActorFacts DEF Goto, table, control, contexts, outcome, history, Phases
<1>0. CASE UNCHANGED vars
  BY <1>0, OwnershipStay DEF vars
<1>1. ASSUME NEW a \in Actor, Call(a) PROVE Ownership'
  <2>1. PICK w \in {"called", "ended"} : pc' = [pc EXCEPT ![a] = w]
    BY <1>1 DEF Call
  <2> QED
    BY <1>1, <2>1, OwnershipMove DEF Call
<1>2. ASSUME NEW a \in Actor, Exit(a) PROVE Ownership'
  BY <1>2, OwnershipMove DEF Exit
<1>3. ASSUME NEW a \in Actor, Interrupt(a) PROVE Ownership'
  BY <1>3, OwnershipMove DEF Interrupt
<1>4. ASSUME NEW a \in Actor, Run(a) PROVE Ownership'
  BY <1>4, OwnershipMove DEF Run
<1>5. ASSUME NEW a \in Actor, Overflow(a) PROVE Ownership'
  BY <1>5, OwnershipMove DEF Overflow
<1>6. ASSUME NEW a \in Actor, Allocate(a) PROVE Ownership'
  <2>1. /\ nextID' = nextID + 1 /\ nextID \in Nat /\ nextID' \in JobID
        /\ pc' = [pc EXCEPT ![a] = "allocated"]
        /\ held' = [held EXCEPT ![a] = nextID']
        /\ pc[a] = "called" /\ pc[nextID'] = "none" /\ queue' = queue
    BY <1>6, JobsAssumption DEF Allocate, Ownership, TypeOK, JobID
  <2>2. \A b \in Actor : Launching(b)' <=> (Launching(b) \/ b = a)
    BY <2>1 DEF Launching, TypeOK
  <2>3. \A b \in Actor : Launching(b) => b # a /\ held'[b] = held[b]
    BY <2>1 DEF Launching, TypeOK
  <2>4. held'[a] = nextID + 1 /\ ~Launching(a) /\ \A b \in Actor : pc'[b] = "none" <=> pc[b] = "none"
    BY <2>1 DEF Launching, TypeOK
  <2>5. \A b \in Actor : Launching(b) => held[b] <= nextID /\ held[b] \in Nat
    BY <2>1 DEF Ownership
  <2>6. (pc[Main] \notin {"none", "published", "gone"})'
    BY <2>1 DEF Ownership, TypeOK
  <2>7. (\A j \in JobID : j > nextID => pc[j] = "none")'
    BY <2>1, <2>4 DEF Ownership
  <2>8. (\A b \in Actor : Launching(b) =>
           held[b] \in JobID /\ held[b] <= nextID /\ pc[held[b]] = "none")'
    BY <2>1, <2>2, <2>3, <2>4, <2>5 DEF Ownership
  <2>9. (\A b, c \in Actor : Launching(b) /\ Launching(c) /\ held[b] = held[c] => b = c)'
    BY <2>1, <2>2, <2>3, <2>4, <2>5 DEF Ownership
  <2>10. (\A j \in JobID : j <= nextID /\ pc[j] = "none" =>
           \E b \in Actor : Launching(b) /\ held[b] = j)'
    BY <2>1, <2>2, <2>3, <2>4 DEF Ownership
  <2>11. (\A b \in Actor : pc[b] = "waiting" => queue[b] \in Seq(JobID))'
    BY <2>1 DEF Ownership, TypeOK
  <2> QED
    BY <2>6, <2>7, <2>8, <2>9, <2>10, <2>11 DEF Ownership
<1>7. ASSUME NEW a \in Actor, Register(a) PROVE Ownership'
  <2>1. /\ pc' = [pc EXCEPT ![a] = "registered"] /\ pc[a] = "allocated"
        /\ nextID' = nextID /\ held' = held /\ queue' = queue
    BY <1>7 DEF Register
  <2>2. \A b \in Actor : /\ Launching(b)' <=> Launching(b)
                         /\ pc'[b] = "none" <=> pc[b] = "none"
                         /\ pc'[b] = "waiting" <=> pc[b] = "waiting"
    BY <2>1 DEF Launching, TypeOK
  <2>3. (pc[Main] \notin {"none", "published", "gone"})'
    BY <2>1 DEF Ownership, TypeOK
  <2> QED
    BY <2>1, <2>2, <2>3 DEF Ownership
<1>8. ASSUME NEW a \in Actor, Spawn(a) PROVE Ownership'
  <2> DEFINE j == held[a]
  <2>1. PICK w \in {"ready", "ended"} : pc' = [pc EXCEPT ![a] = "ready", ![j] = w]
    BY <1>8 DEF Spawn
  <2>2. /\ Launching(a) /\ j \in JobID /\ j # a /\ pc[j] = "none" /\ j <= nextID
        /\ nextID' = nextID /\ held' = [held EXCEPT ![a] = 0] /\ queue' = queue
    BY <1>8 DEF Spawn, Ownership, Launching
  <2>3. \A b \in Actor : Launching(b)' <=> (Launching(b) /\ b # a)
    BY <2>1, <2>2 DEF Launching, TypeOK
  <2>4. \A b \in Actor : b # a => held'[b] = held[b]
    BY <2>2 DEF TypeOK
  <2>5. \A b \in Actor : pc'[b] = "none" <=> (pc[b] = "none" /\ b # j)
    BY <2>1, <2>2 DEF Launching, TypeOK
  <2>6. \A b \in Actor : pc'[b] = "waiting" => pc[b] = "waiting"
    BY <2>1, <2>2 DEF TypeOK
  <2>7. (pc[Main] \notin {"none", "published", "gone"})'
    BY <2>1, <2>2 DEF Ownership, TypeOK
  <2>8. (\A b \in Actor : Launching(b) =>
           held[b] \in JobID /\ held[b] <= nextID /\ pc[held[b]] = "none")'
    <3> SUFFICES ASSUME NEW b \in Actor, Launching(b), b # a
                 PROVE  held'[b] \in JobID /\ held'[b] <= nextID' /\ pc'[held'[b]] = "none"
      BY <2>3
    <3>1. held[b] \in JobID /\ held[b] <= nextID /\ pc[held[b]] = "none" /\ held[b] # j
      BY <2>2 DEF Ownership
    <3> QED
      BY <3>1, <2>2, <2>4, <2>5
  <2>9. (\A b, c \in Actor : Launching(b) /\ Launching(c) /\ held[b] = held[c] => b = c)'
    BY <2>3, <2>4 DEF Ownership
  <2>10. (\A k \in JobID : k <= nextID /\ pc[k] = "none" =>
           \E b \in Actor : Launching(b) /\ held[b] = k)'
    <3> SUFFICES ASSUME NEW k \in JobID, k <= nextID, pc[k] = "none", k # j
                 PROVE  \E b \in Actor : Launching(b)' /\ held'[b] = k
      BY <2>2, <2>5
    <3>1. PICK b \in Actor : Launching(b) /\ held[b] = k
      BY DEF Ownership
    <3> QED
      BY <3>1, <2>3, <2>4
  <2>11. (\A b \in Actor : pc[b] = "waiting" => queue[b] \in Seq(JobID))'
    BY <2>2, <2>6 DEF Ownership
  <2>12. (\A k \in JobID : k > nextID => pc[k] = "none")'
    BY <2>2, <2>5 DEF Ownership, TypeOK
  <2> QED
    BY <2>7, <2>8, <2>9, <2>10, <2>11, <2>12 DEF Ownership
<1>9. ASSUME NEW a \in Actor, Kill(a) PROVE Ownership'
  BY <1>9, OwnershipMove DEF Kill, TypeOK
<1>10. ASSUME NEW a \in Actor, SignalJob(a) PROVE Ownership'
  BY <1>10, OwnershipMove DEF SignalJob, TypeOK
<1>11. ASSUME NEW a \in Actor, CancelJob(a) PROVE Ownership'
  BY <1>11, OwnershipMove DEF CancelJob, TypeOK
<1>12. ASSUME NEW a \in Actor, KillReturns(a) PROVE Ownership'
  BY <1>12, OwnershipMove DEF KillReturns, TypeOK
<1>13. ASSUME NEW a \in Actor, WaitMissing(a) PROVE Ownership'
  BY <1>13, OwnershipMove DEF WaitMissing
<1>14. ASSUME NEW a \in Actor, Wait(a) PROVE Ownership'
  <2>1. PICK args \in WaitArgs : \E s \in Selections(args) : queue' = [queue EXCEPT ![a] = s]
    BY <1>14 DEF Wait
  <2>2. PICK s \in Selections(args) : queue' = [queue EXCEPT ![a] = s]
    BY <2>1
  <2>3. s \in Seq(JobID)
    <3>1. Allocated \subseteq JobID /\ nextID \in Nat
      BY JobsAssumption DEF Allocated, JobID, TypeOK
    <3>2. CASE args = <<>>
      BY <3>1, <3>2 DEF Selections, Allocated
    <3>3. CASE args # <<>>
      <4>1. Len(args) \in Nat
        BY JobsAssumption
      <4>2. s \in [1..Len(args) -> JobID]
        BY <3>1, <3>3 DEF Selections
      <4> QED
        BY <4>1, <4>2
    <3> QED
      BY <3>2, <3>3
  <2>4. /\ pc' = [pc EXCEPT ![a] = "waiting"] /\ pc[a] = "called"
        /\ nextID' = nextID /\ held' = held
    BY <1>14 DEF Wait
  <2>5. \A b \in Actor : /\ Launching(b)' <=> Launching(b)
                         /\ pc'[b] = "none" <=> pc[b] = "none"
    BY <2>4 DEF Launching, TypeOK
  <2>6. (pc[Main] \notin {"none", "published", "gone"})'
    BY <2>4 DEF Ownership, TypeOK
  <2>7. (\A b \in Actor : pc[b] = "waiting" => queue[b] \in Seq(JobID))'
    BY <2>2, <2>3, <2>4 DEF Ownership, TypeOK
  <2> QED
    BY <2>4, <2>5, <2>6, <2>7 DEF Ownership
<1>15. ASSUME NEW a \in Actor, WaitNext(a) PROVE Ownership'
  <2>1. /\ UNCHANGED <<nextID, pc, held>> /\ queue[a] # <<>> /\ pc[a] = "waiting"
        /\ queue' = [queue EXCEPT ![a] = Tail(@)]
    BY <1>15 DEF WaitNext
  <2>2. (\A b \in Actor : pc[b] = "waiting" => queue[b] \in Seq(JobID))'
    <3> SUFFICES ASSUME NEW b \in Actor, pc[b] = "waiting"
                 PROVE  queue'[b] \in Seq(JobID)
      BY <2>1
    <3>1. queue[b] \in Seq(JobID)
      BY DEF Ownership
    <3>2. CASE b = a
      BY <2>1, <3>1, <3>2 DEF TypeOK
    <3>3. CASE b # a
      BY <2>1, <3>1, <3>3 DEF TypeOK
    <3> QED
      BY <3>2, <3>3
  <2> QED
    BY <2>1, <2>2 DEF Ownership, Launching
<1>16. ASSUME NEW a \in Actor, WaitReturns(a) PROVE Ownership'
  BY <1>16, OwnershipMove DEF WaitReturns
<1>17. ASSUME NEW a \in Actor, Publish(a) PROVE Ownership'
  BY <1>17, OwnershipMove DEF Publish
<1>18. ASSUME NEW a \in Actor, Leave(a) PROVE Ownership'
  BY <1>18, OwnershipMove DEF Leave, Ownership
<1>19. CASE Stop
  BY <1>19, OwnershipMove DEF Stop
<1>20. CASE Return
  BY <1>20, OwnershipMove DEF Return
<1>21. CASE Deadline
  BY <1>21, OwnershipStay DEF Deadline
<1>22. CASE HostCancel
  BY <1>22, OwnershipStay DEF HostCancel
<1> QED
  BY <1>0, <1>1, <1>2, <1>3, <1>4, <1>5, <1>6, <1>7, <1>8, <1>9, <1>10, <1>11, <1>12, <1>13,
     <1>14, <1>15, <1>16, <1>17, <1>18, <1>19, <1>20, <1>21, <1>22
  DEF Next, ActorStep, Command, Advance, Finished

-----------------------------------------------------------------------------
(* Which steps write what: the rest of the proofs look only at these.      *)

\* Only launching, publishing and leaving change what the wait group counts.
LEMMA GroupWriters ==
  ASSUME TypeOK, Ownership, [Next]_vars
  PROVE  \/ \E a \in Actor : Spawn(a) \/ Publish(a) \/ Leave(a)
         \/ /\ wg' = wg
            /\ \A j \in Actor : \A w \in {"none", "published", "gone"} :
                 pc'[j] = w <=> pc[j] = w
<1> DEFINE Quiet == /\ wg' = wg
                    /\ \A j \in Actor : \A w \in {"none", "published", "gone"} :
                         pc'[j] = w <=> pc[j] = w
<1>1. ASSUME NEW a \in Actor, NEW w \in Phases, pc[a] \notin {"none", "published", "gone"},
             w \notin {"none", "published", "gone"}, pc' = [pc EXCEPT ![a] = w], wg' = wg
      PROVE  Quiet
  BY <1>1 DEF TypeOK
<1> HIDE DEF Quiet
<1>2. ASSUME pc' = pc, wg' = wg PROVE Quiet
  BY <1>2 DEF Quiet
<1>3. Main \in Actor
  BY ActorFacts
<1> USE DEF Goto, Phases
<1>4. ASSUME NEW a \in Actor, Call(a) PROVE Quiet
  <2>1. CASE OverBudget(commands')
    BY <1>1, <1>4, <2>1 DEF Call
  <2>2. CASE ~OverBudget(commands')
    BY <1>1, <1>4, <2>2 DEF Call
  <2> QED
    BY <2>1, <2>2
<1>5. ASSUME NEW a \in Actor, Exit(a) \/ Interrupt(a) \/ Command(a) PROVE Quiet
  BY <1>1, <1>5 DEF Exit, Interrupt, Command, Run, Overflow, Allocate, Kill, Wait, WaitMissing
<1>6. ASSUME NEW a \in Actor, Advance(a), ~(Spawn(a) \/ Publish(a) \/ Leave(a)) PROVE Quiet
  BY <1>1, <1>2, <1>6
  DEF Advance, Register, SignalJob, CancelJob, KillReturns, WaitNext, WaitReturns, control
<1>7. CASE Stop
  BY <1>1, <1>3, <1>7 DEF Stop
<1>8. CASE Return
  BY <1>1, <1>3, <1>8 DEF Return
<1>9. CASE Deadline \/ HostCancel \/ UNCHANGED vars
  BY <1>2, <1>9 DEF Deadline, HostCancel, control, vars
<1> QED
  BY <1>4, <1>5, <1>6, <1>7, <1>8, <1>9 DEF Next, ActorStep, Finished, Quiet

\* Only registering, signalling and publishing write the job table.
LEMMA TableWriters ==
  ASSUME [Next]_vars
  PROVE  job' = job \/ \E a \in Actor : Register(a) \/ SignalJob(a) \/ Publish(a)
BY DEF Next, ActorStep, Command, Advance, Finished, vars, table, Call, Exit, Interrupt, Run,
       Overflow, Allocate, Spawn, Kill, CancelJob, KillReturns, WaitMissing, Wait, WaitNext,
       WaitReturns, Leave, Stop, Return, Deadline, HostCancel

LEMMA NextIDWriters ==
  ASSUME TypeOK, [Next]_vars
  PROVE  nextID' \in Nat /\ nextID' >= nextID
<1>1. nextID' = nextID \/ nextID' = nextID + 1
  BY DEF Next, ActorStep, Command, Advance, Finished, vars, table, Call, Exit, Interrupt, Run,
         Overflow, Allocate, Register, Spawn, Kill, SignalJob, CancelJob, KillReturns, WaitMissing,
         Wait, WaitNext, WaitReturns, Publish, Leave, Stop, Return, Deadline, HostCancel
<1> QED
  BY <1>1 DEF TypeOK

\* An actor about to register a job allocated it just now or was about to.
LEMMA AllocatedWriters ==
  ASSUME TypeOK, Ownership, [Next]_vars, NEW a \in Actor, pc'[a] = "allocated"
  PROVE  Allocate(a) \/ (pc[a] = "allocated" /\ held'[a] = held[a])
<1> USE ActorFacts DEF Goto
<1>1. ASSUME NEW b \in Actor, Call(b) PROVE pc[a] = "allocated" /\ held'[a] = held[a]
  <2>1. CASE OverBudget(commands')
    BY <1>1, <2>1 DEF Call, TypeOK
  <2>2. CASE ~OverBudget(commands')
    BY <1>1, <2>2 DEF Call, TypeOK
  <2> QED
    BY <2>1, <2>2
<1>2. ASSUME NEW b \in Actor, Exit(b) \/ Interrupt(b) \/ Run(b) \/ Overflow(b) \/ Kill(b)
                              \/ Wait(b) \/ WaitMissing(b)
      PROVE  pc[a] = "allocated" /\ held'[a] = held[a]
  BY <1>2 DEF Exit, Interrupt, Run, Overflow, Kill, Wait, WaitMissing, TypeOK
<1>3. ASSUME NEW b \in Actor, Allocate(b), b # a PROVE pc[a] = "allocated" /\ held'[a] = held[a]
  BY <1>3 DEF Allocate, TypeOK
<1>4. ASSUME NEW b \in Actor, Spawn(b) PROVE pc[a] = "allocated" /\ held'[a] = held[a]
  <2>1. /\ held[b] \in JobID /\ held' = [held EXCEPT ![b] = 0]
        /\ \E w \in {"ready", "ended"} : pc' = [pc EXCEPT ![b] = "ready", ![held[b]] = w]
    BY <1>4 DEF Spawn, Ownership, Launching
  <2> QED
    BY <2>1 DEF TypeOK
<1>5. ASSUME NEW b \in Actor, Register(b) \/ CancelJob(b) \/ KillReturns(b)
                              \/ WaitReturns(b) \/ Publish(b) \/ Leave(b)
      PROVE  pc[a] = "allocated" /\ held'[a] = held[a]
  BY <1>5 DEF Register, CancelJob, KillReturns, WaitReturns, Publish, Leave, TypeOK
<1>6. ASSUME NEW b \in Actor, SignalJob(b) PROVE pc[a] = "allocated" /\ held'[a] = held[a]
  BY <1>6 DEF SignalJob, TypeOK
<1>7. ASSUME NEW b \in Actor, WaitNext(b) PROVE pc[a] = "allocated" /\ held'[a] = held[a]
  BY <1>7 DEF WaitNext
<1>8. CASE Stop \/ Return
  BY <1>8 DEF Stop, Return, TypeOK
<1>9. CASE Deadline \/ HostCancel \/ UNCHANGED vars
  BY <1>9 DEF Deadline, HostCancel, control, vars
<1> QED
  BY <1>1, <1>2, <1>3, <1>4, <1>5, <1>6, <1>7, <1>8, <1>9
  DEF Next, ActorStep, Command, Advance, Finished

\* A context appears in Register and changes otherwise only by a cancellation.
LEMMA ContextWriters ==
  ASSUME TypeOK, [Next]_vars
  PROVE  \/ \E a \in Actor : Register(a)
         \/ /\ lineage' = lineage
            /\ \/ ctx' = ctx
               \/ \E a \in Actor, why \in {"deadline", "canceled"} : ctx' = Cancelled(a, why)
<1> USE ActorFacts DEF contexts
<1>1. ASSUME NEW a \in Actor, ActorStep(a), ~Register(a)
      PROVE  /\ lineage' = lineage
             /\ \/ ctx' = ctx
                \/ \E b \in Actor, why \in {"deadline", "canceled"} : ctx' = Cancelled(b, why)
  <2>1. CASE Overflow(a)
    BY <2>1 DEF Overflow
  <2>2. CASE CancelJob(a)
    BY <2>2 DEF CancelJob, TypeOK
  <2> QED
    BY <1>1, <2>1, <2>2
    DEF ActorStep, Command, Advance, Call, Exit, Interrupt, Run, Allocate, Spawn, Kill, SignalJob,
        KillReturns, WaitMissing, Wait, WaitNext, WaitReturns, Publish, Leave
<1>2. CASE Stop \/ Deadline \/ HostCancel
  BY <1>2 DEF Stop, Deadline, HostCancel
<1>3. CASE Return \/ UNCHANGED vars
  BY <1>3 DEF Return, vars
<1> QED
  BY <1>1, <1>2, <1>3 DEF Next, Finished

-----------------------------------------------------------------------------
(* The wait group *)

LEMMA GroupInit == Init => GroupCounts
<1> SUFFICES ASSUME Init PROVE wg = Cardinality(Running)
  BY DEF GroupCounts
<1>1. Running = {}
  BY ActorFacts DEF Init, Running
<1> QED
  BY <1>1, FS_EmptySet DEF Init

LEMMA GroupStep ==
  ASSUME TypeOK, Ownership, GroupCounts, [Next]_vars
  PROVE  GroupCounts'
<1> USE ActorFacts DEF Goto
<1>1. ASSUME NEW a \in Actor, Spawn(a) PROVE GroupCounts'
  <2> DEFINE j == held[a]
  <2>1. /\ j \in JobID /\ pc[j] = "none" /\ pc[a] = "registered" /\ wg' = wg + 1
        /\ \E w \in {"ready", "ended"} : pc' = [pc EXCEPT ![a] = "ready", ![j] = w]
    BY <1>1 DEF Spawn, Ownership, Launching
  <2>2. \A k \in JobID : pc'[k] \notin {"none", "gone"} <=> pc[k] \notin {"none", "gone"} \/ k = j
    BY <2>1 DEF TypeOK
  <2>3. Running' = Running \cup {j} /\ j \notin Running
    BY <2>1, <2>2 DEF Running
  <2> QED
    BY <2>1, <2>3, RunningFinite, FS_AddElement DEF GroupCounts
<1>2. ASSUME NEW a \in Actor, Publish(a) PROVE GroupCounts'
  <2>1. pc[a] = "ended" /\ pc' = [pc EXCEPT ![a] = "published"] /\ wg' = wg
    BY <1>2 DEF Publish
  <2>2. Running' = Running
    BY <2>1 DEF Running, TypeOK
  <2> QED
    BY <2>1, <2>2 DEF GroupCounts
<1>3. ASSUME NEW a \in Actor, Leave(a) PROVE GroupCounts'
  <2>1. pc[a] = "published" /\ pc' = [pc EXCEPT ![a] = "gone"] /\ wg' = wg - 1 /\ a \in JobID
    BY <1>3 DEF Leave, Ownership, Actor
  <2>2. Running' = Running \ {a} /\ a \in Running
    BY <2>1 DEF Running, TypeOK
  <2> QED
    BY <2>1, <2>2, RunningFinite, FS_RemoveElement DEF GroupCounts
<1>4. ASSUME wg' = wg, \A j \in Actor : \A w \in {"none", "published", "gone"} :
                         pc'[j] = w <=> pc[j] = w
      PROVE  GroupCounts'
  <2>1. Running' = Running
    BY <1>4 DEF Running
  <2> QED
    BY <1>4, <2>1 DEF GroupCounts
<1> QED
  BY <1>1, <1>2, <1>3, <1>4, GroupWriters

-----------------------------------------------------------------------------
(* The job table *)

LEMMA SignalJobFacts ==
  ASSUME TypeOK, NEW a \in Actor, SignalJob(a)
  PROVE  \E j \in JobID : /\ j <= nextID
                          /\ ~job[j].done
                          /\ job' = [job EXCEPT ![j].forced = sig[a]]
<1>1. PICK j \in Signallable(Head(queue[a])) : job' = [job EXCEPT ![j].forced = sig[a]]
  BY DEF SignalJob
<1>2. j \in JobID /\ j <= nextID /\ ~job[j].done
  BY JobsAssumption DEF Signallable, Allocated, JobID, TypeOK
<1> QED
  BY <1>1, <1>2

\* How a step may change the entry of one job.
LEMMA EntryStep ==
  ASSUME TypeOK, Ownership, DoneIffPublished, [Next]_vars, NEW j \in JobID
  PROVE  \/ job'[j] = job[j]
         \/ /\ ~job[j].done /\ ~job'[j].done /\ job'[j].status = job[j].status
         \/ /\ ~job[j].done /\ Publish(j)
            /\ job'[j] = [job[j] EXCEPT !.done = TRUE, !.status = FinalStatus(j)]
<1>1. ASSUME NEW a \in Actor, Register(a), job'[j] # job[j]
      PROVE  ~job[j].done /\ ~job'[j].done /\ job'[j].status = job[j].status
  <2>1. held[a] \in JobID /\ pc[held[a]] = "none" /\ job' = [job EXCEPT ![held[a]].cancel = TRUE]
    BY <1>1 DEF Register, Ownership, Launching
  <2>2. j = held[a]
    BY <1>1, <2>1 DEF TypeOK
  <2>3. job'[j] = [job[j] EXCEPT !.cancel = TRUE] /\ job[j] \in VirtualJob
    BY <2>1, <2>2 DEF TypeOK
  <2>4. ~job[j].done
    BY <2>1, <2>2 DEF DoneIffPublished
  <2> QED
    BY <2>3, <2>4 DEF VirtualJob
<1>2. ASSUME NEW a \in Actor, SignalJob(a), job'[j] # job[j]
      PROVE  ~job[j].done /\ ~job'[j].done /\ job'[j].status = job[j].status
  <2>1. PICK k \in JobID : ~job[k].done /\ job' = [job EXCEPT ![k].forced = sig[a]]
    BY <1>2, SignalJobFacts
  <2>2. j = k
    BY <1>2, <2>1 DEF TypeOK
  <2> QED
    BY <2>1, <2>2 DEF TypeOK, VirtualJob
<1>3. ASSUME NEW a \in Actor, Publish(a), job'[j] # job[j]
      PROVE  /\ ~job[j].done /\ Publish(j)
             /\ job'[j] = [job[j] EXCEPT !.done = TRUE, !.status = FinalStatus(j)]
  <2>1. job' = [job EXCEPT ![a] = [@ EXCEPT !.done = TRUE, !.status = FinalStatus(a)]]
    BY <1>3 DEF Publish
  <2>2. j = a
    BY <1>3, <2>1 DEF TypeOK
  <2>3. pc[j] = "ended"
    BY <1>3, <2>2 DEF Publish
  <2> QED
    BY <1>3, <2>1, <2>2, <2>3 DEF TypeOK, DoneIffPublished
<1> QED
  BY <1>1, <1>2, <1>3, TableWriters

LEMMA DoneInit == Init => DoneIffPublished
BY ActorFacts DEF Init, DoneIffPublished, NewJob

LEMMA DoneStep ==
  ASSUME TypeOK, Ownership, DoneIffPublished, [Next]_vars
  PROVE  DoneIffPublished'
<1> SUFFICES ASSUME NEW j \in JobID
             PROVE  job'[j].done <=> pc'[j] \in {"published", "gone"}
  BY DEF DoneIffPublished
<1> USE ActorFacts DEF Goto
<1>1. CASE Publish(j)
  <2>1. pc'[j] = "published"
    BY <1>1 DEF Publish, TypeOK
  <2>2. job'[j].done
    BY <1>1 DEF Publish, TypeOK, VirtualJob
  <2> QED
    BY <2>1, <2>2
<1>2. CASE ~Publish(j)
  <2>1. job'[j].done <=> job[j].done
    BY <1>2, EntryStep
  <2>2. pc'[j] \in {"published", "gone"} <=> pc[j] \in {"published", "gone"}
    <3>1. ASSUME NEW a \in Actor, Spawn(a)
          PROVE  pc'[j] \in {"published", "gone"} <=> pc[j] \in {"published", "gone"}
      <4>1. /\ held[a] \in JobID /\ pc[held[a]] = "none" /\ pc[a] = "registered"
            /\ \E w \in {"ready", "ended"} : pc' = [pc EXCEPT ![a] = "ready", ![held[a]] = w]
        BY <3>1 DEF Spawn, Ownership, Launching
      <4> QED
        BY <4>1 DEF TypeOK
    <3>2. ASSUME NEW a \in Actor, Publish(a)
          PROVE  pc'[j] \in {"published", "gone"} <=> pc[j] \in {"published", "gone"}
      BY <1>2, <3>2 DEF Publish, TypeOK
    <3>3. ASSUME NEW a \in Actor, Leave(a)
          PROVE  pc'[j] \in {"published", "gone"} <=> pc[j] \in {"published", "gone"}
      BY <3>3 DEF Leave, TypeOK
    <3> QED
      BY <3>1, <3>2, <3>3, GroupWriters
  <2> QED
    BY <2>1, <2>2 DEF DoneIffPublished
<1> QED
  BY <1>1, <1>2

LEMMA KilledInit == Init => KilledStatus
BY DEF Init, KilledStatus, NewJob

LEMMA KilledStep ==
  ASSUME TypeOK, Ownership, DoneIffPublished, KilledStatus, [Next]_vars
  PROVE  KilledStatus'
<1> SUFFICES ASSUME NEW j \in JobID, job'[j].done, job'[j].forced # 0
             PROVE  job'[j].status = job'[j].forced
  BY DEF KilledStatus
<1>1. CASE job'[j] = job[j]
  BY <1>1 DEF KilledStatus
<1>2. CASE job'[j] = [job[j] EXCEPT !.done = TRUE, !.status = FinalStatus(j)]
  BY <1>2 DEF FinalStatus, TypeOK, VirtualJob
<1> QED
  BY <1>1, <1>2, EntryStep

\* wait reports what the table says, and the table does not change its mind.
LEMMA WaitInit == Init => WaitReportsFinalStatus
BY DEF Init, WaitReportsFinalStatus

LEMMA WaitStep ==
  ASSUME TypeOK, Ownership, DoneIffPublished, WaitReportsFinalStatus, [Next]_vars
  PROVE  WaitReportsFinalStatus'
<1> SUFFICES ASSUME NEW a \in Actor, answer'[a].job # 0
             PROVE  /\ job'[answer'[a].job].done
                    /\ job'[answer'[a].job].status = answer'[a].status
  BY DEF WaitReportsFinalStatus
<1>1. answer' = answer \/ \E b \in Actor : WaitNext(b)
  BY DEF Next, ActorStep, Command, Advance, Finished, vars, Call, Exit, Interrupt, Run,
         Overflow, Allocate, Register, Spawn, Kill, SignalJob, CancelJob, KillReturns, WaitMissing,
         Wait, WaitReturns, Publish, Leave, Stop, Return, Deadline, HostCancel
<1>2. CASE answer'[a] = answer[a]
  <2>1. answer[a].job \in JobID
    BY <1>2 DEF TypeOK, Actor, Main
  <2>2. job[answer[a].job].done /\ job[answer[a].job].status = answer[a].status
    BY <1>2 DEF WaitReportsFinalStatus
  <2>3. job'[answer[a].job] = job[answer[a].job]
    BY <2>1, <2>2, EntryStep
  <2> QED
    BY <1>2, <2>2, <2>3
<1>3. CASE WaitNext(a)
  <2>1. /\ job' = job /\ job[Head(queue[a])].done
        /\ answer' = [answer EXCEPT ![a] = [job |-> Head(queue[a]),
                                            status |-> job[Head(queue[a])].status]]
    BY <1>3 DEF WaitNext, Arrived, table
  <2> QED
    BY <2>1 DEF TypeOK
<1>4. ASSUME NEW b \in Actor, b # a, WaitNext(b) PROVE answer'[a] = answer[a]
  BY <1>4 DEF WaitNext, TypeOK
<1> QED
  BY <1>1, <1>2, <1>3, <1>4

-----------------------------------------------------------------------------
(* Contexts *)

LEMMA TreeInit == Init => Tree /\ CancellationReaches
BY ActorFacts DEF Init, Tree, CancellationReaches, NewJob

\* What Register finds and does, and that only it and Allocate touch what Tree
\* says about jobs without a context.
LEMMA RegisterFacts ==
  ASSUME TypeOK, Ownership, Tree, NEW a \in Actor, Register(a)
  PROVE  /\ held[a] \in JobID /\ pc[held[a]] = "none" /\ held[a] # a
         /\ \A b \in Actor : held[a] \notin lineage[b]
         /\ \A b \in Actor : lineage'[b] =
              IF b = held[a] THEN lineage[a] \cup {held[a]} ELSE lineage[b]
         /\ \A b \in Actor : ctx'[b] = IF b = held[a] THEN ctx[a] ELSE ctx[b]
         /\ \A j \in JobID : job'[j].cancel <=> job[j].cancel \/ j = held[a]
         /\ pc' = [pc EXCEPT ![a] = "registered"] /\ held' = held
         /\ pc[a] = "allocated"
<1>1. /\ held[a] \in JobID /\ pc[held[a]] = "none" /\ pc[a] = "allocated"
      /\ job' = [job EXCEPT ![held[a]].cancel = TRUE]
      /\ lineage' = [lineage EXCEPT ![held[a]] = lineage[a] \cup {held[a]}]
      /\ ctx' = [ctx EXCEPT ![held[a]] = ctx[a]]
      /\ pc' = [pc EXCEPT ![a] = "registered"] /\ held' = held
  BY DEF Register, Ownership, Launching, Goto
<1>2. \A b \in Actor : held[a] \notin lineage[b]
  BY <1>1 DEF Tree
<1>3. \A j \in JobID : job'[j].cancel <=> job[j].cancel \/ j = held[a]
  <2> TAKE j \in JobID
  <2>1. CASE j = held[a]
    BY <1>1, <2>1 DEF TypeOK, VirtualJob
  <2>2. CASE j # held[a]
    <3>1. job'[j] = job[j] /\ job[j] \in VirtualJob
      BY <1>1, <2>2 DEF TypeOK
    <3> QED
      BY <3>1, <2>2 DEF VirtualJob
  <2> QED
    BY <2>1, <2>2
<1> QED
  BY <1>1, <1>2, <1>3, ActorFacts DEF TypeOK

LEMMA TreeStep ==
  ASSUME TypeOK, Ownership, DoneIffPublished, Tree, [Next]_vars
  PROVE  Tree'
<1> USE ActorFacts
<1>1. ASSUME NEW a \in Actor, Register(a) PROVE Tree'
  <2> DEFINE k == held[a]
  <2>1. /\ k \in JobID /\ k # a /\ pc[a] = "allocated" /\ held' = held
        /\ \A b \in Actor : k \notin lineage[b]
    BY <1>1, RegisterFacts
  <2>2. \A b \in Actor : lineage'[b] = IF b = k THEN lineage[a] \cup {k} ELSE lineage[b]
    BY <1>1, RegisterFacts
  <2>3. \A j \in JobID : job'[j].cancel <=> job[j].cancel \/ j = k
    BY <1>1, RegisterFacts
  <2>4. pc' = [pc EXCEPT ![a] = "registered"]
    BY <1>1, RegisterFacts
  <2> HIDE DEF k
  <2>5. (Main \in lineage[Main])'
    BY <2>1, <2>2 DEF Tree
  <2>6. (\A j \in JobID : ~job[j].cancel => \A b \in Actor : j \notin lineage[b])'
    <3> SUFFICES ASSUME NEW j \in JobID, ~job'[j].cancel, NEW b \in Actor
                 PROVE  j \notin lineage'[b]
      OBVIOUS
    <3>1. j # k /\ \A c \in Actor : j \notin lineage[c]
      BY <2>3 DEF Tree
    <3> QED
      BY <3>1, <2>2
  <2>7. (\A b \in Actor : pc[b] = "allocated" => ~job[held[b]].cancel)'
    <3> SUFFICES ASSUME NEW b \in Actor, pc'[b] = "allocated"
                 PROVE  ~job'[held[b]].cancel
      BY <2>1
    <3>1. pc[b] = "allocated" /\ b # a
      BY <2>4 DEF TypeOK
    <3>2. held[b] # k /\ held[b] \in JobID
      BY <2>1, <3>1 DEF Ownership, Launching, k
    <3> QED
      BY <2>3, <3>1, <3>2 DEF Tree
  <2>8. (\A b, c \in Actor : b \in lineage[c] => lineage[b] \subseteq lineage[c])'
    <3> SUFFICES ASSUME NEW b \in Actor, NEW c \in Actor, b \in lineage'[c]
                 PROVE  lineage'[b] \subseteq lineage'[c]
      OBVIOUS
    <3>1. CASE b = k
      <4>1. c = k
        BY <2>1, <2>2, <3>1
      <4> QED
        BY <3>1, <4>1
    <3>2. CASE b # k
      <4>1. lineage'[b] = lineage[b]
        BY <2>2, <3>2 DEF TypeOK
      <4>2. CASE c = k
        <5>1. b \in lineage[a]
          BY <2>2, <3>2, <4>2
        <5>2. lineage[b] \subseteq lineage[a]
          BY <5>1 DEF Tree
        <5>3. lineage'[c] = lineage[a] \cup {k}
          BY <2>2, <4>2
        <5> QED
          BY <4>1, <5>2, <5>3
      <4>3. CASE c # k
        <5>1. lineage'[c] = lineage[c]
          BY <2>2, <4>3
        <5> QED
          BY <4>1, <5>1 DEF Tree
      <4> QED
        BY <4>2, <4>3
    <3> QED
      BY <3>1, <3>2
  <2>9. (\A j \in JobID : j > nextID => ~job[j].cancel)'
    <3>1. nextID' = nextID /\ k <= nextID /\ k \in Nat /\ nextID \in Nat
      BY <1>1, <2>1 DEF Register, Ownership, Launching, TypeOK, k
    <3>2. \A j \in JobID : j > nextID => j # k
      BY <3>1 DEF JobID
    <3>3. \A j \in JobID : j > nextID => ~job[j].cancel
      BY DEF Tree
    <3> QED
      BY <2>3, <3>1, <3>2, <3>3
  <2> QED
    BY <2>5, <2>6, <2>7, <2>8, <2>9 DEF Tree
<1>2. ASSUME lineage' = lineage, \A a \in Actor : ~Register(a) PROVE Tree'
  <2>1. \A j \in JobID : job'[j].cancel = job[j].cancel
    <3> TAKE j \in JobID
    <3>1. CASE \E a \in Actor : SignalJob(a)
      <4>1. PICK a \in Actor : SignalJob(a)
        BY <3>1
      <4>2. PICK k \in JobID : job' = [job EXCEPT ![k].forced = sig[a]]
        BY <4>1, SignalJobFacts
      <4> QED
        BY <4>2 DEF TypeOK, VirtualJob
    <3>2. CASE \E a \in Actor : Publish(a)
      BY <3>2 DEF Publish, TypeOK, VirtualJob
    <3> QED
      BY <1>2, <3>1, <3>2, TableWriters
  <2>2. ASSUME NEW a \in Actor, pc'[a] = "allocated" PROVE ~job'[held'[a]].cancel
    <3>1. CASE Allocate(a)
      <4>1. held'[a] = nextID + 1 /\ nextID + 1 \in JobID /\ nextID + 1 > nextID
        BY <3>1, JobsAssumption DEF Allocate, TypeOK, JobID
      <4> QED
        BY <2>1, <4>1 DEF Tree
    <3>2. CASE pc[a] = "allocated" /\ held'[a] = held[a]
      BY <2>1, <3>2 DEF Tree, Ownership, Launching
    <3> QED
      BY <2>2, <3>1, <3>2, AllocatedWriters
  <2>3. (\A j \in JobID : j > nextID => ~job[j].cancel)'
    <3> SUFFICES ASSUME NEW j \in JobID, j > nextID' PROVE ~job'[j].cancel
      OBVIOUS
    <3>1. j > nextID
      BY NextIDWriters DEF TypeOK
    <3> QED
      BY <2>1, <3>1 DEF Tree
  <2> QED
    BY <1>2, <2>1, <2>2, <2>3 DEF Tree
<1> QED
  BY <1>1, <1>2, ContextWriters

LEMMA ReachStep ==
  ASSUME TypeOK, Ownership, Tree, CancellationReaches, [Next]_vars
  PROVE  CancellationReaches'
<1> SUFFICES ASSUME NEW b \in Actor, NEW c \in Actor, b \in lineage'[c], ctx'[b] # "nil"
             PROVE  ctx'[c] # "nil"
  BY DEF CancellationReaches
<1>1. ASSUME NEW a \in Actor, Register(a) PROVE ctx'[c] # "nil"
  <2> DEFINE k == held[a]
  <2>1. \A d \in Actor : k \notin lineage[d]
    BY <1>1, RegisterFacts
  <2>2. \A d \in Actor : lineage'[d] = IF d = k THEN lineage[a] \cup {k} ELSE lineage[d]
    BY <1>1, RegisterFacts
  <2>3. \A d \in Actor : ctx'[d] = IF d = k THEN ctx[a] ELSE ctx[d]
    BY <1>1, RegisterFacts
  <2> HIDE DEF k
  <2>4. CASE b = k
    BY <2>1, <2>2, <2>4
  <2>5. CASE b # k /\ c = k
    BY <2>2, <2>3, <2>5 DEF CancellationReaches
  <2>6. CASE b # k /\ c # k
    BY <2>2, <2>3, <2>6 DEF CancellationReaches
  <2>7. CASE b = k /\ c = k
    BY <2>3, <2>7
  <2> QED
    BY <2>4, <2>5, <2>6, <2>7, <2>1, <2>2
<1>2. ASSUME lineage' = lineage, ctx' = ctx PROVE ctx'[c] # "nil"
  BY <1>2 DEF CancellationReaches
<1>3. ASSUME lineage' = lineage, NEW a \in Actor, NEW why \in {"deadline", "canceled"},
             ctx' = Cancelled(a, why)
      PROVE  ctx'[c] # "nil"
  <2>1. CASE ctx[b] # "nil"
    <3>1. ctx[c] # "nil"
      BY <1>3, <2>1 DEF CancellationReaches
    <3> QED
      BY <1>3, <3>1, CancelledFacts
  <2>2. CASE ctx[b] = "nil"
    <3>1. a \in lineage[b]
      BY <1>3, <2>2, CancelledFacts
    <3>2. a \in lineage[c]
      BY <1>3, <3>1 DEF Tree
    <3> QED
      BY <1>3, <3>2, CancelledFacts
  <2> QED
    BY <2>1, <2>2
<1> QED
  BY <1>1, <1>2, <1>3, ContextWriters

\* A context that ended keeps its cause.
LEMMA CauseStep ==
  ASSUME TypeOK, Ownership, Tree, [Next]_vars, NEW b \in Actor, pc[b] # "none", ctx[b] # "nil"
  PROVE  ctx'[b] = ctx[b]
<1>1. ASSUME NEW a \in Actor, Register(a) PROVE ctx'[b] = ctx[b]
  <2>1. pc[held[a]] = "none" /\ \A c \in Actor : ctx'[c] = IF c = held[a] THEN ctx[a] ELSE ctx[c]
    BY <1>1, RegisterFacts
  <2> QED
    BY <2>1
<1>2. ASSUME NEW a \in Actor, NEW why \in {"deadline", "canceled"}, ctx' = Cancelled(a, why)
      PROVE  ctx'[b] = ctx[b]
  BY <1>2, CancelledFacts
<1> QED
  BY <1>1, <1>2, ContextWriters

-----------------------------------------------------------------------------
(* Limits, and the end of the call *)

LEMMA ChargedStep ==
  ASSUME TypeOK, Charged, CommandLimit, [Next]_vars
  PROVE  Charged' /\ CommandLimit'
<1>1. \/ UNCHANGED <<commands, executed>>
      \/ \E a \in Actor : Call(a)
  BY DEF Next, ActorStep, Command, Advance, Finished, vars, history, Exit, Interrupt, Run,
         Overflow, Allocate, Register, Spawn, Kill, SignalJob, CancelJob, KillReturns, WaitMissing,
         Wait, WaitNext, WaitReturns, Publish, Leave, Stop, Return, Deadline, HostCancel
<1>2. CASE UNCHANGED <<commands, executed>>
  BY <1>2 DEF Charged, CommandLimit
<1>3. ASSUME NEW a \in Actor, Call(a) PROVE Charged' /\ CommandLimit'
  <2>1. CASE OverBudget(commands')
    <3>1. commands' = commands + 1 /\ executed' = executed
      BY <1>3, <2>1 DEF Call
    <3> QED
      BY <3>1 DEF TypeOK, Charged, CommandLimit
  <2>2. CASE ~OverBudget(commands')
    <3>1. commands' = commands + 1 /\ executed' = executed + 1
      BY <1>3, <2>2 DEF Call
    <3> QED
      BY <3>1, <2>2, JobsAssumption DEF TypeOK, Charged, CommandLimit, OverBudget
  <2> QED
    BY <2>1, <2>2
<1> QED
  BY <1>1, <1>2, <1>3

LEMMA ArmedStep ==
  ASSUME TypeOK, Ownership, Armed, [Next]_vars
  PROVE  Armed'
<1> SUFFICES ASSUME NEW a \in Actor, pc'[a] \in {"killing", "cancelling"}
             PROVE  sig'[a] \in SignalCodes
  BY DEF Armed
<1> USE ActorFacts DEF Goto
<1>1. ASSUME pc[a] \in {"killing", "cancelling"}, sig'[a] = sig[a] PROVE sig'[a] \in SignalCodes
  BY <1>1 DEF Armed
<1>2. ASSUME NEW b \in Actor, Call(b) PROVE pc[a] \in {"killing", "cancelling"} /\ sig'[a] = sig[a]
  <2>1. CASE OverBudget(commands')
    BY <1>2, <2>1 DEF Call, TypeOK
  <2>2. CASE ~OverBudget(commands')
    BY <1>2, <2>2 DEF Call, TypeOK
  <2> QED
    BY <2>1, <2>2
<1>3. ASSUME NEW b \in Actor, Exit(b) \/ Interrupt(b) \/ Run(b) \/ Overflow(b) \/ Allocate(b)
                              \/ Wait(b) \/ WaitMissing(b)
      PROVE  pc[a] \in {"killing", "cancelling"} /\ sig'[a] = sig[a]
  BY <1>3 DEF Exit, Interrupt, Run, Overflow, Allocate, Wait, WaitMissing, TypeOK
<1>4. ASSUME NEW b \in Actor, Kill(b) PROVE sig'[a] \in SignalCodes
  <2>1. PICK n \in SignalCodes : sig' = [sig EXCEPT ![b] = n]
    BY <1>4 DEF Kill
  <2>2. pc' = [pc EXCEPT ![b] = "killing"]
    BY <1>4 DEF Kill
  <2> QED
    BY <2>1, <2>2 DEF TypeOK, Armed
<1>5. ASSUME NEW b \in Actor, Spawn(b) PROVE pc[a] \in {"killing", "cancelling"} /\ sig'[a] = sig[a]
  <2>1. /\ held[b] \in JobID /\ sig' = sig
        /\ \E w \in {"ready", "ended"} : pc' = [pc EXCEPT ![b] = "ready", ![held[b]] = w]
    BY <1>5 DEF Spawn, Ownership, Launching
  <2> QED
    BY <2>1 DEF TypeOK
<1>6. ASSUME NEW b \in Actor, Register(b) \/ CancelJob(b) \/ SignalJob(b) \/ WaitReturns(b)
                              \/ Publish(b) \/ Leave(b)
      PROVE  pc[a] \in {"killing", "cancelling"} /\ sig'[a] = sig[a]
  BY <1>6 DEF Register, CancelJob, SignalJob, WaitReturns, Publish, Leave, TypeOK
<1>7. ASSUME NEW b \in Actor, KillReturns(b)
      PROVE  pc[a] \in {"killing", "cancelling"} /\ sig'[a] = sig[a]
  BY <1>7 DEF KillReturns, TypeOK
<1>8. ASSUME NEW b \in Actor, WaitNext(b)
      PROVE  pc[a] \in {"killing", "cancelling"} /\ sig'[a] = sig[a]
  BY <1>8 DEF WaitNext
<1>9. CASE Stop \/ Return
  BY <1>1, <1>9 DEF Stop, Return, TypeOK
<1>10. CASE Deadline \/ HostCancel \/ UNCHANGED vars
  BY <1>1, <1>10 DEF Deadline, HostCancel, control, vars
<1> QED
  BY <1>1, <1>2, <1>3, <1>4, <1>5, <1>6, <1>7, <1>8, <1>9, <1>10
  DEF Next, ActorStep, Command, Advance, Finished

\* When Exec returned, the group it waited for is empty.
ReturnedIdle == pc[Main] = "returned" => wg = 0

LEMMA MainWriters ==
  ASSUME TypeOK, Ownership, [Next]_vars, pc'[Main] = "returned"
  PROVE  pc[Main] = "returned" \/ Return
<1> USE ActorFacts DEF Goto
<1>1. ASSUME NEW b \in Actor, Call(b) PROVE pc[Main] = "returned"
  <2>1. CASE OverBudget(commands')
    BY <1>1, <2>1 DEF Call, TypeOK
  <2>2. CASE ~OverBudget(commands')
    BY <1>1, <2>2 DEF Call, TypeOK
  <2> QED
    BY <2>1, <2>2
<1>2. ASSUME NEW b \in Actor, Exit(b) \/ Interrupt(b) \/ Command(b) PROVE pc[Main] = "returned"
  BY <1>2 DEF Exit, Interrupt, Command, Run, Overflow, Allocate, Kill, Wait, WaitMissing, TypeOK
<1>3. ASSUME NEW b \in Actor, Spawn(b) PROVE pc[Main] = "returned"
  <2>1. /\ held[b] \in JobID
        /\ \E w \in {"ready", "ended"} : pc' = [pc EXCEPT ![b] = "ready", ![held[b]] = w]
    BY <1>3 DEF Spawn, Ownership, Launching
  <2> QED
    BY <2>1 DEF TypeOK
<1>4. ASSUME NEW b \in Actor, Advance(b), ~Spawn(b) PROVE pc[Main] = "returned"
  BY <1>4 DEF Advance, Register, SignalJob, CancelJob, KillReturns, WaitNext, WaitReturns,
              Publish, Leave, TypeOK
<1>5. CASE Stop \/ Deadline \/ HostCancel \/ UNCHANGED vars
  BY <1>5 DEF Stop, Deadline, HostCancel, control, vars, TypeOK
<1> QED
  BY <1>1, <1>2, <1>3, <1>4, <1>5 DEF Next, ActorStep, Finished

LEMMA ReturnedIdleStep ==
  ASSUME TypeOK, Ownership, GroupCounts, ReturnedIdle, [Next]_vars
  PROVE  ReturnedIdle'
<1> SUFFICES ASSUME pc'[Main] = "returned" PROVE wg' = 0
  BY DEF ReturnedIdle
<1>1. CASE Return
  BY <1>1 DEF Return, GroupIdle
<1>2. CASE pc[Main] = "returned"
  <2>1. wg = 0 /\ Running = {}
    BY <1>2, RunningFinite, FS_EmptySet DEF ReturnedIdle, GroupCounts
  <2>2. \A j \in Actor : pc[j] \in {"none", "gone", "returned"}
    BY <1>2, <2>1 DEF Running, Actor
  <2>3. \A a \in Actor : ~Spawn(a) /\ ~Publish(a) /\ ~Leave(a)
    BY <2>2 DEF Spawn, Publish, Leave
  <2> QED
    BY <2>1, <2>3, GroupWriters
<1> QED
  BY <1>1, <1>2, MainWriters

LEMMA OutcomeStep ==
  ASSUME TypeOK, Ownership, Tree, OverranIsDeadline, TimeoutReported, [Next]_vars
  PROVE  OverranIsDeadline' /\ TimeoutReported'
<1> USE ActorFacts
<1>1. overran' = overran \/ Deadline
  BY DEF Next, ActorStep, Command, Advance, Finished, vars, history, Call, Exit, Interrupt, Run,
         Overflow, Allocate, Register, Spawn, Kill, SignalJob, CancelJob, KillReturns, WaitMissing,
         Wait, WaitNext, WaitReturns, Publish, Leave, Stop, Return, HostCancel
<1>2. OverranIsDeadline'
  <2>1. CASE Deadline
    <3>1. ctx[Main] = "nil" /\ ctx' = Cancelled(Main, "deadline") /\ Main \in lineage[Main]
      BY <2>1 DEF Deadline, Tree
    <3>2. ctx'[Main] = "deadline"
      BY <3>1, CancelledFacts
    <3> QED
      BY <3>2 DEF OverranIsDeadline
  <2>2. CASE overran' = overran
    <3>1. pc[Main] # "none"
      BY DEF Ownership
    <3>2. ctx[Main] = "deadline" => ctx'[Main] = "deadline"
      BY <3>1, CauseStep
    <3> QED
      BY <2>2, <3>2 DEF OverranIsDeadline
  <2> QED
    BY <1>1, <2>1, <2>2
<1>3. TimeoutReported'
  <2> SUFFICES ASSUME pc'[Main] = "returned", overran'
               PROVE  result' \in {Interrupted, Refused}
    BY DEF TimeoutReported
  <2>1. CASE Return
    <3>1. overran' = overran /\ result' = ExitCode
      BY <2>1 DEF Return, history
    <3> QED
      BY <3>1 DEF ExitCode, OverranIsDeadline
  <2>2. CASE pc[Main] = "returned" /\ ~Return
    <3>1. result' = result
      BY <2>2 DEF Next, ActorStep, Command, Advance, Finished, vars, outcome, Call, Exit, Interrupt,
         Run, Overflow, Allocate, Register, Spawn, Kill, SignalJob, CancelJob, KillReturns,
         WaitMissing, Wait, WaitNext, WaitReturns, Publish, Leave, Stop, Deadline, HostCancel
    <3>2. ~Deadline
      BY <2>2 DEF Deadline
    <3> QED
      BY <1>1, <2>2, <3>1, <3>2 DEF TimeoutReported
  <2> QED
    BY <2>1, <2>2, MainWriters
<1> QED
  BY <1>2, <1>3

-----------------------------------------------------------------------------
(* The invariant and the theorems *)

IInv == /\ TypeOK /\ Ownership /\ GroupCounts /\ DoneIffPublished
        /\ KilledStatus /\ WaitReportsFinalStatus
        /\ Tree /\ CancellationReaches
        /\ Charged /\ CommandLimit /\ Armed
        /\ ReturnedIdle /\ OverranIsDeadline /\ TimeoutReported

LEMMA IInvInit == Init => IInv
<1> SUFFICES ASSUME Init PROVE IInv
  OBVIOUS
<1>1. Charged /\ CommandLimit
  BY JobsAssumption DEF Init, Charged, CommandLimit
<1>2. ReturnedIdle /\ OverranIsDeadline /\ TimeoutReported
  BY ActorFacts DEF Init, ReturnedIdle, OverranIsDeadline, TimeoutReported
<1>3. Armed
  BY ActorFacts DEF Init, Armed
<1> QED
  BY <1>1, <1>2, <1>3, TypeInit, OwnershipInit, GroupInit, DoneInit, KilledInit, WaitInit, TreeInit
  DEF IInv

LEMMA IInvStep == IInv /\ [Next]_vars => IInv'
BY TypeStep, OwnershipStep, GroupStep, DoneStep, KilledStep, WaitStep, TreeStep, ReachStep,
   ChargedStep, ArmedStep, ReturnedIdleStep, OutcomeStep
DEF IInv

\* The conjunction above holds in every reachable state.
THEOREM Invariance == Spec => []IInv
BY IInvInit, IInvStep, PTL DEF Spec

\* Every variable keeps its type; in particular the wait group's counter is
\* never negative, which is where sync.WaitGroup would panic.
THEOREM TypeCorrect == Spec => []TypeOK
BY Invariance, PTL DEF IInv

\* Exec returns only when no background goroutine is left, for any number of
\* jobs, started at any depth and at any moment of the teardown.
THEOREM ExecLeavesNothing == Spec => []NoJobOutlivesExec
<1>1. IInv => NoJobOutlivesExec
  <2> SUFFICES ASSUME IInv, pc[Main] = "returned" PROVE Running = {}
    BY DEF NoJobOutlivesExec, Running
  <2> QED
    BY RunningFinite, FS_EmptySet DEF IInv, ReturnedIdle, GroupCounts
<1> QED
  BY <1>1, Invariance, PTL

\* At that moment every job that was ever allocated is done.
THEOREM ExecSettlesTable == Spec => []TableSettled
<1>1. IInv => TableSettled
  <2> SUFFICES ASSUME IInv, pc[Main] = "returned", NEW j \in Allocated PROVE job[j].done
    BY DEF TableSettled
  <2>1. j \in JobID /\ j <= nextID
    BY JobsAssumption DEF Allocated, JobID, IInv, TypeOK
  <2>2. Running = {}
    BY RunningFinite, FS_EmptySet DEF IInv, ReturnedIdle, GroupCounts
  <2>3. \A a \in Actor : ~Launching(a)
    BY <2>2 DEF Launching, Running, Actor
  <2>4. pc[j] = "gone"
    BY <2>1, <2>2, <2>3 DEF Running, IInv, Ownership
  <2> QED
    BY <2>1, <2>4 DEF IInv, DoneIffPublished
<1> QED
  BY <1>1, Invariance, PTL

\* An accepted kill decides the exit status of its job.
THEOREM KillDecidesStatus == Spec => []KilledStatus
BY Invariance, PTL DEF IInv

\* What wait reported stays what the table says.
THEOREM WaitIsFinal == Spec => []WaitReportsFinalStatus
BY Invariance, PTL DEF IInv

\* The command budget holds for any number of concurrent jobs.
THEOREM CommandsBounded == Spec => []CommandLimit
BY Invariance, PTL DEF IInv

\* No context is live inside a cancelled one.
THEOREM CancellationIsDeep == Spec => []CancellationReaches
BY Invariance, PTL DEF IInv

\* A timeout that interrupted the script is never reported as its own status.
THEOREM TimeoutIsReported == Spec => []TimeoutReported
BY Invariance, PTL DEF IInv

\* The entry of a finished job never changes again.
THEOREM EntriesAreFinal == Spec => FinishedIsFinal
<1>1. IInv /\ [Next]_vars => [\A j \in JobID : job[j].done => job'[j] = job[j]]_vars
  <2> SUFFICES ASSUME IInv, [Next]_vars, NEW j \in JobID, job[j].done
               PROVE  job'[j] = job[j]
    OBVIOUS
  <2> QED
    BY EntryStep DEF IInv
<1> QED
  BY <1>1, Invariance, PTL DEF Spec, FinishedIsFinal

\* The cause a context ended with is never replaced.
THEOREM CausesAreFinal == Spec => CauseIsFirst
<1>1. IInv /\ [Next]_vars =>
        [\A a \in Actor : pc[a] # "none" /\ ctx[a] # "nil" => ctx'[a] = ctx[a]]_vars
  <2> SUFFICES ASSUME IInv, [Next]_vars, NEW a \in Actor, pc[a] # "none", ctx[a] # "nil"
               PROVE  ctx'[a] = ctx[a]
    OBVIOUS
  <2> QED
    BY CauseStep DEF IInv
<1> QED
  BY <1>1, Invariance, PTL DEF Spec, CauseIsFirst

-----------------------------------------------------------------------------
(* Refinement of the abstract job table *)

LEMMA TableInit == Init => Table!Init
BY JobsAssumption DEF Init, Table!Init, NewJob, JobID, tableLife, tablePromise, tableVerdict

\* A step that changes no job's entry, but for its cancel function, and
\* allocates nothing is invisible to the users of the table.
LEMMA TableStutter ==
  ASSUME UNCHANGED nextID,
         \A j \in JobID : /\ job'[j].done <=> job[j].done
                          /\ job'[j].status = job[j].status
                          /\ job'[j].forced = job[j].forced
  PROVE  UNCHANGED <<tableLife, tablePromise, tableVerdict>>
BY DEF tableLife, tablePromise, tableVerdict

LEMMA TableStep ==
  ASSUME IInv, [Next]_vars
  PROVE  [Table!Next]_(Table!vars)
<1> USE DEF IInv
<1>1. ASSUME NEW a \in Actor, Allocate(a) PROVE Table!Next
  <2> DEFINE k == nextID + 1
  <2>1. /\ nextID' = k /\ k \in JobID /\ job' = job /\ nextID \in Nat
        /\ pc[k] = "none"
    BY <1>1, JobsAssumption DEF Allocate, TypeOK, JobID, Ownership
  <2>2. ~job[k].done
    BY <2>1 DEF DoneIffPublished
  <2>3. /\ tableLife[k] = "absent" /\ tableLife' = [tableLife EXCEPT ![k] = "running"]
        /\ tablePromise' = tablePromise /\ tableVerdict' = tableVerdict
    <3>1. \A j \in JobID : j > nextID' <=> j > nextID /\ j # k
      BY <2>1, ActorFacts
    <3>2. tableLife' = [tableLife EXCEPT ![k] = "running"]
      BY <2>1, <2>2, <3>1 DEF tableLife
    <3>3. tableLife[k] = "absent"
      BY <2>1 DEF tableLife
    <3> QED
      BY <2>1, <3>2, <3>3 DEF tablePromise, tableVerdict
  <2> QED
    BY <2>1, <2>3 DEF Table!Next, Table!Create
<1>2. ASSUME NEW a \in Actor, SignalJob(a) PROVE Table!Next
  <2>1. PICK k \in JobID : k <= nextID /\ ~job[k].done /\ job' = [job EXCEPT ![k].forced = sig[a]]
    BY <1>2, SignalJobFacts
  <2>2. nextID' = nextID /\ nextID \in Nat /\ sig[a] \in SignalCodes
    BY <1>2 DEF SignalJob, TypeOK, Armed
  <2>3. \A j \in JobID : /\ job'[j].done <=> job[j].done
                         /\ job'[j].status = job[j].status
                         /\ job'[j].forced = IF j = k THEN sig[a] ELSE job[j].forced
    BY <2>1 DEF TypeOK, VirtualJob
  <2>4. /\ tableLife[k] = "running" /\ tableLife' = tableLife /\ tableVerdict' = tableVerdict
        /\ tablePromise' = [tablePromise EXCEPT ![k] = sig[a]]
    <3>1. ~(k > nextID)
      BY <2>1, <2>2, ActorFacts
    <3>2. tableLife[k] = "running" /\ tableLife' = tableLife
      BY <2>1, <2>2, <2>3, <3>1 DEF tableLife
    <3>3. tableVerdict' = tableVerdict
      BY <2>3 DEF tableVerdict
    <3>4. tablePromise' = [tablePromise EXCEPT ![k] = sig[a]]
      BY <2>1, <2>3 DEF tablePromise
    <3> QED
      BY <3>2, <3>3, <3>4
  <2> QED
    BY <2>1, <2>2, <2>4 DEF Table!Next, Table!Signal
<1>3. ASSUME NEW k \in Actor, Publish(k) PROVE Table!Next
  <2>1. /\ k \in JobID /\ pc[k] = "ended" /\ nextID' = nextID /\ nextID \in Nat
        /\ job' = [job EXCEPT ![k] = [@ EXCEPT !.done = TRUE, !.status = FinalStatus(k)]]
    BY <1>3 DEF Publish, Actor, TypeOK
  <2>2. ~job[k].done /\ ~(k > nextID)
    BY <2>1 DEF DoneIffPublished, Ownership
  <2>3. job'[k] = [job[k] EXCEPT !.done = TRUE, !.status = FinalStatus(k)]
    BY <2>1 DEF TypeOK
  <2>4. \A j \in JobID : /\ job'[j].done <=> job[j].done \/ j = k
                         /\ job'[j].status = IF j = k THEN FinalStatus(k) ELSE job[j].status
                         /\ job'[j].forced = job[j].forced
    <3> TAKE j \in JobID
    <3>1. CASE j = k
      <4>1. job[k] \in VirtualJob
        BY <2>1 DEF TypeOK
      <4> QED
        BY <2>3, <3>1, <4>1 DEF VirtualJob
    <3>2. CASE j # k
      BY <2>1, <3>2 DEF TypeOK
    <3> QED
      BY <3>1, <3>2
  <2>5. /\ tableLife[k] = "running" /\ tableLife' = [tableLife EXCEPT ![k] = "done"]
        /\ tablePromise' = tablePromise
    BY <2>1, <2>2, <2>4 DEF tableLife, tablePromise
  <2>6. tableVerdict' = [tableVerdict EXCEPT
                           ![k] = IF tablePromise[k] # 0 THEN tablePromise[k] ELSE code[k]]
    BY <2>1, <2>4 DEF tableVerdict, tablePromise, FinalStatus
  <2>7. code[k] \in Codes
    BY DEF TypeOK
  <2> QED
    BY <2>1, <2>5, <2>6, <2>7 DEF Table!Next, Table!Finish
<1>4. ASSUME NEW a \in Actor, Register(a)
      PROVE  UNCHANGED <<tableLife, tablePromise, tableVerdict>>
  <2>1. /\ nextID' = nextID /\ held[a] \in JobID /\ job' = [job EXCEPT ![held[a]].cancel = TRUE]
    BY <1>4 DEF Register, Ownership, Launching
  <2>2. \A j \in JobID : /\ job'[j].done <=> job[j].done
                         /\ job'[j].status = job[j].status
                         /\ job'[j].forced = job[j].forced
    <3> TAKE j \in JobID
    <3>1. CASE j = held[a]
      <4>1. job'[j] = [job[j] EXCEPT !.cancel = TRUE] /\ job[j] \in VirtualJob
        BY <2>1, <3>1 DEF TypeOK
      <4> QED
        BY <4>1 DEF VirtualJob
    <3>2. CASE j # held[a]
      BY <2>1, <3>2 DEF TypeOK
    <3> QED
      BY <3>1, <3>2
  <2> QED
    BY <2>1, <2>2, TableStutter
<1>5. ASSUME job' = job, nextID' = nextID
      PROVE  UNCHANGED <<tableLife, tablePromise, tableVerdict>>
  BY <1>5, TableStutter
<1>6. nextID' = nextID \/ \E a \in Actor : Allocate(a)
  BY DEF Next, ActorStep, Command, Advance, Finished, vars, table, Call, Exit, Interrupt, Run,
         Overflow, Register, Spawn, Kill, SignalJob, CancelJob, KillReturns, WaitMissing,
         Wait, WaitNext, WaitReturns, Publish, Leave, Stop, Return, Deadline, HostCancel
<1> QED
  BY <1>1, <1>2, <1>3, <1>4, <1>5, <1>6, TableWriters DEF Table!vars

\* Whatever the interleaving of kills, waits and endings, the locks and
\* channels of the job table implement the abstract table.
THEOREM JobsImplementTable == Spec => ImplementsTable
<1>1. IInv /\ [Next]_vars => [Table!Next]_(Table!vars)
  BY TableStep DEF Table!vars
<1> QED
  BY <1>1, TableInit, Invariance, PTL DEF Spec, ImplementsTable, Table!Spec
=============================================================================
