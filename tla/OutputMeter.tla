---------------------------- MODULE OutputMeter ----------------------------
(***************************************************************************)
(* What the aggregate output limit of one execution promises: writes are   *)
(* metered one at a time against a single allowance, each stores as much   *)
(* as still fits, and a write that did not fit is remembered.              *)
(***************************************************************************)
EXTENDS Naturals

CONSTANTS Maximum, \* the allowance
          Sizes    \* lengths of writes

VARIABLES stored,    \* bytes kept so far, both streams together
          truncated  \* some write lost bytes

vars == <<stored, truncated>>

Init == stored = 0 /\ truncated = FALSE

Write(n) ==
  /\ stored' = IF stored + n <= Maximum THEN stored + n ELSE Maximum
  /\ truncated' = (truncated \/ stored + n > Maximum)

Next == \E n \in Sizes : Write(n)

Spec == Init /\ [][Next]_vars
=============================================================================
