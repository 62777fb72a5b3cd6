--------------------------- MODULE ModuleLifecycle --------------------------
(***************************************************************************)
(* What the module registry promises about the status of its modules,      *)
(* without tasks, awaits or retries (docstring and ModuleStatus of         *)
(* farmhub/core/registry.py): modules start one after the other, a running *)
(* one may lose its dependency, a degraded one comes back or is given up,  *)
(* and once the registry closes modules only stop, the last started first. *)
(***************************************************************************)
EXTENDS Naturals

CONSTANT N  \* how many modules; they are numbered in start order

VARIABLES
  status,  \* of each module
  closing  \* the registry has begun to stop its modules

lifecycleVars == <<status, closing>>

Init == /\ status = [m \in 1..N |-> "pending"]
        /\ closing = FALSE

Become(m, s) == status' = [status EXCEPT ![m] = s]

\* The first start of m, after every module before it had its own.
Start(m) == /\ ~closing
            /\ status[m] = "pending"
            /\ \A k \in 1..(m - 1) : status[k] # "pending"
            /\ Become(m, "running") \/ Become(m, "degraded")
            /\ UNCHANGED closing

Degrade(m) == ~closing /\ status[m] = "running" /\ Become(m, "degraded")
              /\ UNCHANGED closing

Recover(m) == ~closing /\ status[m] = "degraded" /\ Become(m, "running")
              /\ UNCHANGED closing

GiveUp(m) == ~closing /\ status[m] = "degraded" /\ Become(m, "failed")
             /\ UNCHANGED closing

Close == /\ ~closing
         /\ closing' = TRUE
         /\ UNCHANGED status

\* Only once every module started after m has stopped; a pending one is stopped when
\* its first start is what failed.
Stop(m) == /\ closing
           /\ status[m] # "stopped"
           /\ \A k \in 1..(m - 1) : status[k] # "stopped"
           /\ \A k \in (m + 1)..N : status[k] \in {"stopped", "pending"}
           /\ Become(m, "stopped")
           /\ UNCHANGED closing

Next == \/ Close
        \/ \E m \in 1..N : \/ Start(m) \/ Degrade(m) \/ Recover(m)
                           \/ GiveUp(m) \/ Stop(m)

Spec == Init /\ [][Next]_lifecycleVars
=============================================================================
