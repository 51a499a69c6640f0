------------------------- MODULE OutputBudget_proofs -------------------------
(***************************************************************************)
(* The safety properties of OutputBudget for any number of writers, any    *)
(* allowance and any writes, and the refinement of OutputMeter.            *)
(***************************************************************************)
EXTENDS OutputBudget, TLAPS

\* A buffer is held by the one writer that is inside its Write.
Mutex ==
  /\ \A w \in Writers : pc[w] # "idle" => holder[target[w]] = w
  /\ \A b \in Buffers : holder[b] # NoWriter =>
       pc[holder[b]] # "idle" /\ target[holder[b]] = b

\* Only a write past its compare-and-swap has something granted.
NothingYet == \A w \in Writers : pc[w] \in {"idle", "take", "swap"} => allowed[w] = 0

\* A write that reports the budget exceeded has seen it spent.
Reporting ==
  /\ \A w \in Writers : pc[w] \in {"flag", "cancel"} => used = Maximum
  /\ \A w \in Writers : pc[w] = "cancel" => exceeded
  /\ exceeded => used = Maximum
  /\ lost => \/ exceeded /\ cancelled
             \/ \E w \in Writers : pc[w] \in {"flag", "cancel"}

\* Only a write of at least one byte reaches the budget.
Asking == \A w \in Writers : pc[w] \in {"take", "swap"} => asked[w] \in Sizes \ {0}

IInv == TypeOK /\ Mutex /\ NothingYet /\ Reporting /\ Asking /\ Accounted

-----------------------------------------------------------------------------
LEMMA ShareFacts ==
  ASSUME TypeOK, NEW w \in Writers
  PROVE  /\ Share(w) \in 0..Maximum /\ Share(w) <= asked[w]
         /\ seen[w] + Share(w) \in 0..Maximum
         /\ Share(w) < asked[w] => seen[w] + Share(w) = Maximum
         /\ seen[w] = Maximum => Share(w) = 0
BY OutputAssumption DEF TypeOK, Share

LEMMA IInvInit == Init => IInv
<1> SUFFICES ASSUME Init PROVE IInv
  OBVIOUS
<1> USE OutputAssumption
<1>1. TypeOK
  <2>1. 0 \in 0..Maximum
    OBVIOUS
  <2>2. holder \in [Buffers -> Writers \cup {NoWriter}] /\ target \in [Writers -> Buffers]
    BY DEF Init, Buffers
  <2>3. pc \in [Writers -> Phases]
    BY DEF Init, Phases
  <2> QED
    BY <2>1, <2>2, <2>3 DEF Init, TypeOK
<1>2. Mutex /\ NothingYet /\ Reporting /\ Asking
  BY DEF Init, Mutex, NothingYet, Reporting, Asking
<1>3. Accounted
  BY DEF Init, Accounted, InFlight, Buffers
<1> QED
  BY <1>1, <1>2, <1>3 DEF IInv

LEMMA TypeStep == ASSUME TypeOK, [Next]_vars PROVE TypeOK'
<1> USE OutputAssumption DEF Goto, shared, local
<1>1. ASSUME NEW w \in Writers, NEW b \in Buffers, NEW n \in Sizes, Begin(w, b, n) PROVE TypeOK'
  BY <1>1 DEF TypeOK, Begin, Phases
<1>2. ASSUME NEW w \in Writers, Load(w) PROVE TypeOK'
  BY <1>2 DEF TypeOK, Load, Phases, Full
<1>3. ASSUME NEW w \in Writers, Swap(w) PROVE TypeOK'
  <2>1. used' \in 0..Maximum /\ allowed' \in [Writers -> 0..Maximum]
    BY <1>3, ShareFacts DEF Swap, TypeOK
  <2>2. pc' \in [Writers -> Phases]
    BY <1>3 DEF Swap, TypeOK, Phases
  <2> QED
    BY <1>3, <2>1, <2>2 DEF TypeOK, Swap
<1>4. ASSUME NEW w \in Writers, SwapFails(w) PROVE TypeOK'
  BY <1>4 DEF TypeOK, SwapFails, RetryAt, Phases
<1>5. ASSUME NEW w \in Writers, Flag(w) PROVE TypeOK'
  BY <1>5 DEF TypeOK, Flag, Phases
<1>6. ASSUME NEW w \in Writers, Cancel(w) PROVE TypeOK'
  BY <1>6 DEF TypeOK, Cancel, Phases
<1>7. ASSUME NEW w \in Writers, Append(w) PROVE TypeOK'
  BY <1>7 DEF TypeOK, Append, Phases
<1>8. CASE UNCHANGED vars
  BY <1>8 DEF TypeOK, vars
<1> QED
  BY <1>1, <1>2, <1>3, <1>4, <1>5, <1>6, <1>7, <1>8 DEF Next, Progress

LEMMA MutexStep == ASSUME TypeOK, Mutex, [Next]_vars PROVE Mutex'
<1> USE OutputAssumption DEF Goto, shared, local, TypeOK, Mutex
<1>1. ASSUME NEW w \in Writers, NEW b \in Buffers, NEW n \in Sizes, Begin(w, b, n) PROVE Mutex'
  BY <1>1 DEF Begin
<1>2. ASSUME NEW w \in Writers, Load(w) \/ Swap(w) \/ SwapFails(w) \/ Flag(w) \/ Cancel(w)
      PROVE  Mutex'
  <2>1. /\ holder' = holder /\ target' = target /\ pc[w] # "idle"
        /\ \E x \in Phases \ {"idle"} : pc' = [pc EXCEPT ![w] = x]
    BY <1>2 DEF Load, Swap, SwapFails, Flag, Cancel, RetryAt, Phases
  <2> QED
    BY <2>1
<1>3. ASSUME NEW w \in Writers, Append(w) PROVE Mutex'
  BY <1>3 DEF Append
<1>4. CASE UNCHANGED vars
  BY <1>4 DEF vars
<1> QED
  BY <1>1, <1>2, <1>3, <1>4 DEF Next, Progress

LEMMA NothingYetStep == ASSUME TypeOK, NothingYet, [Next]_vars PROVE NothingYet'
<1> USE DEF Goto, shared, local, TypeOK, NothingYet, vars, Next, Progress
<1>1. ASSUME NEW w \in Writers, Swap(w) PROVE NothingYet'
  BY <1>1 DEF Swap
<1>2. ASSUME NEW w \in Writers, NEW b \in Buffers, NEW n \in Sizes, Begin(w, b, n) PROVE NothingYet'
  BY <1>2 DEF Begin
<1>3. ASSUME NEW w \in Writers, Load(w) \/ SwapFails(w) \/ Flag(w) \/ Cancel(w) \/ Append(w)
      PROVE  NothingYet'
  BY <1>3 DEF Load, SwapFails, Flag, Cancel, Append, RetryAt
<1> QED
  BY <1>1, <1>2, <1>3

LEMMA ReportingStep == ASSUME TypeOK, Reporting, [Next]_vars PROVE Reporting'
<1> USE OutputAssumption DEF Goto, shared, local, TypeOK
<1>1. ASSUME NEW w \in Writers, NEW b \in Buffers, NEW n \in Sizes, Begin(w, b, n)
      PROVE  Reporting'
  BY <1>1 DEF Begin, Reporting
<1>2. ASSUME NEW w \in Writers, Load(w) PROVE Reporting'
  BY <1>2 DEF Load, Reporting, Full
<1>3. ASSUME NEW w \in Writers, Swap(w) PROVE Reporting'
  <2>1. used = seen[w] /\ used' = used + Share(w) /\ exceeded' = exceeded /\ cancelled' = cancelled
    BY <1>3 DEF Swap, StillSeen
  <2>5. /\ Share(w) < asked[w] => seen[w] + Share(w) = Maximum
        /\ seen[w] = Maximum => Share(w) = 0
    BY ShareFacts
  <2>2. used = Maximum => used' = Maximum
    BY <2>1, <2>5
  <2>3. Share(w) < asked[w] => used' = Maximum
    BY <2>1, <2>5
  <2>4. /\ pc' = [pc EXCEPT ![w] = IF Share(w) < asked[w] THEN "flag" ELSE "append"]
        /\ lost' = (lost \/ Share(w) < asked[w]) /\ pc[w] = "swap"
    BY <1>3 DEF Swap, Partial
  <2> QED
    BY <2>1, <2>2, <2>3, <2>4 DEF Reporting
<1>4. ASSUME NEW w \in Writers, SwapFails(w) PROVE Reporting'
  BY <1>4 DEF SwapFails, Reporting, RetryAt
<1>5. ASSUME NEW w \in Writers, Flag(w) PROVE Reporting'
  BY <1>5 DEF Flag, Reporting
<1>6. ASSUME NEW w \in Writers, Cancel(w) PROVE Reporting'
  BY <1>6 DEF Cancel, Reporting
<1>7. ASSUME NEW w \in Writers, Append(w) PROVE Reporting'
  BY <1>7 DEF Append, Reporting
<1>8. CASE UNCHANGED vars
  BY <1>8 DEF vars, Reporting
<1> QED
  BY <1>1, <1>2, <1>3, <1>4, <1>5, <1>6, <1>7, <1>8 DEF Next, Progress

LEMMA AskingStep == ASSUME TypeOK, Asking, [Next]_vars PROVE Asking'
<1> USE DEF Goto, shared, local, TypeOK, Asking, vars, Next, Progress
<1>1. ASSUME NEW w \in Writers, NEW b \in Buffers, NEW n \in Sizes, Begin(w, b, n) PROVE Asking'
  BY <1>1 DEF Begin
<1>2. ASSUME NEW w \in Writers, Load(w) PROVE Asking'
  BY <1>2 DEF Load
<1>3. ASSUME NEW w \in Writers, Swap(w) \/ SwapFails(w) \/ Flag(w) \/ Cancel(w) \/ Append(w)
      PROVE  Asking'
  BY <1>3 DEF Swap, SwapFails, Flag, Cancel, Append, RetryAt
<1> QED
  BY <1>1, <1>2, <1>3

\* What each step does to the bytes in flight on a buffer.
LEMMA AccountedStep ==
  ASSUME TypeOK, Mutex, NothingYet, Accounted, [Next]_vars
  PROVE  Accounted'
<1> USE OutputAssumption DEF Goto, shared, local, TypeOK
<1>1. ASSUME NEW w \in Writers, NEW b \in Buffers, NEW n \in Sizes, Begin(w, b, n)
      PROVE  Accounted'
  <2>1. InFlight(b) = 0 /\ InFlight(b)' = 0
    BY <1>1 DEF Begin, InFlight, NothingYet
  <2>2. \A c \in Buffers \ {b} : InFlight(c)' = InFlight(c)
    BY <1>1 DEF Begin, InFlight
  <2> QED
    BY <1>1, <2>1, <2>2 DEF Begin, Accounted, Buffers
<1>2. ASSUME NEW w \in Writers, Load(w) \/ SwapFails(w) \/ Flag(w) \/ Cancel(w)
      PROVE  Accounted'
  <2>1. UNCHANGED <<holder, allowed, used, len>>
    BY <1>2 DEF Load, SwapFails, Flag, Cancel
  <2> QED
    BY <2>1 DEF Accounted, InFlight
<1>3. ASSUME NEW w \in Writers, Swap(w) PROVE Accounted'
  <2> PICK b \in Buffers : b = target[w]
    OBVIOUS
  <2>1. /\ b \in Buffers /\ holder[b] = w /\ allowed[w] = 0 /\ used = seen[w]
        /\ holder' = holder /\ len' = len /\ used' = used + Share(w)
        /\ allowed' = [allowed EXCEPT ![w] = Share(w)]
    BY <1>3 DEF Swap, StillSeen, Mutex, NothingYet
  <2>2. InFlight(b) = 0 /\ InFlight(b)' = Share(w)
    BY <2>1 DEF InFlight
  <2>3. \A c \in Buffers \ {b} : InFlight(c)' = InFlight(c) /\ InFlight(c) \in Nat
    BY <2>1 DEF InFlight, Mutex
  <2>4. Share(w) \in Nat
    BY ShareFacts
  <2> QED
    BY <2>1, <2>2, <2>3, <2>4 DEF Accounted, Buffers
<1>4. ASSUME NEW w \in Writers, Append(w) PROVE Accounted'
  <2> PICK b \in Buffers : b = target[w]
    OBVIOUS
  <2>1. /\ b \in Buffers /\ holder[b] = w /\ allowed[w] \in Nat /\ used' = used
        /\ holder' = [holder EXCEPT ![b] = NoWriter]
        /\ len' = [len EXCEPT ![b] = @ + allowed[w]]
        /\ allowed' = [allowed EXCEPT ![w] = 0]
    BY <1>4 DEF Append, Mutex
  <2>2. InFlight(b) = allowed[w] /\ InFlight(b)' = 0
    BY <2>1 DEF InFlight
  <2>3. \A c \in Buffers \ {b} : InFlight(c)' = InFlight(c) /\ InFlight(c) \in Nat
    BY <2>1 DEF InFlight, Mutex
  <2> QED
    BY <2>1, <2>2, <2>3 DEF Accounted, Buffers
<1>5. CASE UNCHANGED vars
  BY <1>5 DEF vars, Accounted, InFlight
<1> QED
  BY <1>1, <1>2, <1>3, <1>4, <1>5 DEF Next, Progress

-----------------------------------------------------------------------------
\* The conjunction of the invariants holds in every reachable state.
THEOREM Invariance == Spec => []IInv
<1>1. IInv /\ [Next]_vars => IInv'
  BY TypeStep, MutexStep, NothingYetStep, ReportingStep, AskingStep, AccountedStep DEF IInv
<1> QED
  BY <1>1, IInvInit, PTL DEF Spec

\* Every variable keeps its type; in particular no interleaving of writes
\* takes the amount used beyond the allowance.
THEOREM TypeCorrect == Spec => []TypeOK
BY Invariance, PTL DEF IInv

\* Bytes charged are bytes stored or about to be.
THEOREM BytesAccounted == Spec => []Accounted
BY Invariance, PTL DEF IInv

\* Output is declared exceeded only when the allowance is spent to the byte.
THEOREM ExceededMeansFull == Spec => []ExceededIsFull
<1>1. IInv => ExceededIsFull
  BY DEF IInv, Reporting, ExceededIsFull
<1> QED
  BY <1>1, Invariance, PTL

\* A loss is flagged, and the execution cancelled, before the writes return.
THEOREM NoSilentLoss == Spec => []LossIsFlagged
<1>1. IInv => LossIsFlagged
  BY DEF IInv, Reporting, LossIsFlagged
<1> QED
  BY <1>1, Invariance, PTL

\* The two results a caller receives fit in MaxOutputBytes together.
Fits == len["stdout"] + len["stderr"] <= Maximum
THEOREM ResultFits == Spec => []Fits
<1>1. IInv => Fits
  <2> SUFFICES ASSUME IInv PROVE Fits
    OBVIOUS
  <2>1. \A b \in Buffers : InFlight(b) \in Nat /\ len[b] \in Nat
    BY OutputAssumption DEF IInv, TypeOK, InFlight
  <2> QED
    BY <2>1, OutputAssumption DEF IInv, TypeOK, Accounted, Fits, Buffers
<1> QED
  BY <1>1, Invariance, PTL

-----------------------------------------------------------------------------
\* Two kinds of steps are writes of the meter: the compare-and-swap that
\* succeeds, and the load that finds the allowance spent.  All others stutter.
LEMMA MeterStep == ASSUME IInv, [Next]_vars PROVE [Meter!Next]_(Meter!vars)
<1> USE OutputAssumption DEF shared, Goto
<1>1. ASSUME NEW w \in Writers, Load(w) PROVE [Meter!Next]_(Meter!vars)
  <2>1. CASE Full(used)
    <3>1. asked[w] \in Sizes /\ asked[w] # 0 /\ asked[w] \in Nat /\ used = Maximum
      BY <1>1, <2>1 DEF Load, Full, IInv, TypeOK, Asking
    <3>2. Meter!Write(asked[w])
      BY <1>1, <2>1, <3>1 DEF Load, Meter!Write
    <3> QED
      BY <3>1, <3>2 DEF Meter!Next
  <2>2. CASE ~Full(used)
    <3>1. used' = used /\ lost' = lost
      BY <1>1, <2>2 DEF Load, IInv, TypeOK
    <3> QED
      BY <3>1 DEF Meter!vars
  <2> QED
    BY <2>1, <2>2
<1>2. ASSUME NEW w \in Writers, Swap(w) PROVE Meter!Next
  <2>1. /\ asked[w] \in Sizes /\ asked[w] \in Nat /\ used = seen[w] /\ used \in 0..Maximum
        /\ used' = seen[w] + Share(w) /\ lost' = (lost \/ Share(w) < asked[w])
    BY <1>2 DEF Swap, StillSeen, IInv, TypeOK, Asking
  <2>2. Meter!Write(asked[w])
    BY <2>1 DEF Share, Meter!Write
  <2> QED
    BY <2>1, <2>2 DEF Meter!Next
<1>3. ASSUME NEW w \in Writers, NEW b \in Buffers, NEW n \in Sizes, Begin(w, b, n)
      PROVE  UNCHANGED Meter!vars
  BY <1>3 DEF Begin, Meter!vars
<1>4. ASSUME NEW w \in Writers, SwapFails(w) \/ Flag(w) \/ Cancel(w) \/ Append(w)
      PROVE  UNCHANGED Meter!vars
  BY <1>4 DEF SwapFails, Flag, Cancel, Append, Meter!vars
<1>5. CASE UNCHANGED vars
  BY <1>5 DEF vars, Meter!vars
<1> QED
  BY <1>1, <1>2, <1>3, <1>4, <1>5 DEF Next, Progress

\* The compare-and-swap loop, with any number of writers racing in it, gives
\* out the allowance as a meter that serves one write at a time.
THEOREM BudgetImplementsMeter == Spec => ImplementsMeter
<1>1. Init => Meter!Init
  BY DEF Init, Meter!Init
<1>2. IInv /\ [Next]_vars => [Meter!Next]_(Meter!vars)
  BY MeterStep
<1> QED
  BY <1>1, <1>2, Invariance, PTL DEF Spec, ImplementsMeter, Meter!Spec
=============================================================================
