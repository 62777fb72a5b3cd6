------------------------------ MODULE AuditTrail -----------------------------
(***************************************************************************)
(* What the gateway promises of its calls and their rows, without tools,   *)
(* tiers, modules or awaits (docstring of farmhub/core/gateway.py): the    *)
(* trail only grows, a call is on it before it acts, and the one outcome   *)
(* it may have comes after and says what it did.  A call may always end    *)
(* with no row of its own: the sink refuses it, or the caller is gone.     *)
(***************************************************************************)
EXTENDS Naturals, Sequences

CONSTANT Calls  \* the calls made

VARIABLES
  trail,  \* the rows, in the order they were written
  acted,  \* calls that acted, or may have
  closed  \* calls that are over

trailVars == <<trail, acted, closed>>

OnTrail(c) == \E i \in 1..Len(trail) : trail[i].call = c

Init == trail = <<>> /\ acted = {} /\ closed = {}

\* c is announced, and may act from then on.
Announce(c) ==
  /\ c \notin closed /\ ~OnTrail(c)
  /\ trail' = Append(trail, [phase |-> "INTENT", call |-> c, decision |-> "undecided"])
  /\ acted' \in {acted, acted \cup {c}}
  /\ UNCHANGED closed

\* c is over, and its outcome says whether it acted.
Conclude(c) ==
  /\ c \notin closed /\ OnTrail(c)
  /\ trail' = Append(trail, [phase |-> "OUTCOME", call |-> c,
                             decision |-> IF c \in acted THEN "executed" ELSE "denied"])
  /\ closed' = closed \cup {c}
  /\ UNCHANGED acted

\* c is over, and no row says so.
Leave(c) ==
  /\ c \notin closed
  /\ closed' = closed \cup {c}
  /\ UNCHANGED <<trail, acted>>

Next == \E c \in Calls : Announce(c) \/ Conclude(c) \/ Leave(c)

Spec == Init /\ [][Next]_trailVars
=============================================================================
