----------------------------- MODULE MCScripts -----------------------------
(* A small instance of Scripts for TLC. *)
EXTENDS Scripts

\* One mask besides the empty one, that takes the only permission bit away.
MCMasks == {{}, {"w"}}

Does(uses, sets, nests, depth) ==
  [uses |-> uses, sets |-> sets, nests |-> nests, depth |-> depth]

\* A script that nests shells and redirects what they create, and one that only
\* nests; beside a job: one that redirects in every way, or under a mask it sets,
\* or that changes its mask, and one whose job nests shells.
MCPrograms ==
  {[main |-> Does({"out"}, TRUE, TRUE, 3), job |-> Does({}, FALSE, FALSE, 0)],
   [main |-> Does({}, TRUE, TRUE, 4), job |-> Does({}, FALSE, FALSE, 0)],
   [main |-> Does(DOMAIN Redirections, FALSE, FALSE, 2), job |-> Does({"out", "append"}, FALSE, FALSE, 2)],
   [main |-> Does({"append"}, TRUE, FALSE, 2), job |-> Does({"out"}, FALSE, FALSE, 2)],
   [main |-> Does({}, TRUE, TRUE, 2), job |-> Does({"out", "append"}, FALSE, FALSE, 2)],
   [main |-> Does({"append"}, FALSE, FALSE, 2), job |-> Does({"out"}, FALSE, TRUE, 2)]}
=============================================================================
