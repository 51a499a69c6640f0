------------------------------ MODULE JobTable ------------------------------
(***************************************************************************)
(* What the job table of one execution promises to the scripts that use    *)
(* it, with no goroutine, lock or context in sight: a background job runs  *)
(* once, a signal that was accepted decides its exit status, and the exit  *)
(* status of a finished job is final.                                      *)
(***************************************************************************)
EXTENDS Naturals

CONSTANTS Jobs,     \* identities of the jobs one execution may start
          Statuses, \* exit statuses a script can end with
          Signals   \* exit statuses 128+n a signal imposes

VARIABLES life,     \* "absent", "running" or "done", per job
          promise,  \* status promised by the last accepted signal, or 0
          verdict   \* the status wait reports once the job is done

vars == <<life, promise, verdict>>

Init == /\ life = [j \in Jobs |-> "absent"]
        /\ promise = [j \in Jobs |-> 0]
        /\ verdict = [j \in Jobs |-> 0]

Create(j) == /\ life[j] = "absent"
             /\ life' = [life EXCEPT ![j] = "running"]
             /\ UNCHANGED <<promise, verdict>>

Signal(j, n) == /\ life[j] = "running"
                /\ promise' = [promise EXCEPT ![j] = n]
                /\ UNCHANGED <<life, verdict>>

Finish(j, s) == /\ life[j] = "running"
                /\ life' = [life EXCEPT ![j] = "done"]
                /\ verdict' = [verdict EXCEPT
                                 ![j] = IF promise[j] # 0 THEN promise[j] ELSE s]
                /\ UNCHANGED promise

Next == \E j \in Jobs : \/ Create(j)
                        \/ \E n \in Signals : Signal(j, n)
                        \/ \E s \in Statuses : Finish(j, s)

Spec == Init /\ [][Next]_vars
=============================================================================
