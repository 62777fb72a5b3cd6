------------------------------ MODULE LlmBackend ----------------------------
(***************************************************************************)
(* The shared connection to the language model: probe and aclose of        *)
(* farmhub/modules/llm/client.py, and the server at its other end, which   *)
(* is started and stopped by hand.                                         *)
(*                                                                         *)
(* A probe is answered at one moment and read at a later one: between them *)
(* other tasks run, and the server may come or go.                         *)
(***************************************************************************)
VARIABLES
  vllm,     \* the server
  client,   \* the HTTP client: "open" or "closed"
  asking    \* of every asker: "idle", "waiting", or the answer it has not read yet

llmVars == <<vllm, client, asking>>

\* "serving" the configured model; "unusable": not there, too slow, refusing, or serving
\* another model; "alien": something that answers, and does not speak the protocol.
ServerStates == {"serving", "unusable", "alien"}

\* probe returns, raises DependencyUnavailable, or lets another exception through.
Answers == {"ok", "unavailable", "raises"}

\* A closed client fails like a connection.
ProbeAnswer ==
  CASE client = "closed" \/ vllm = "unusable" -> "unavailable"
    [] client = "open" /\ vllm = "serving" -> "ok"
    [] client = "open" /\ vllm = "alien" -> "raises"

-----------------------------------------------------------------------------

ServerChanges ==
  /\ vllm' \in ServerStates \ {vllm}
  /\ UNCHANGED <<client, asking>>

\* The last attempt of the SDK is answered, or timed out.
Answer(u) ==
  /\ asking[u] = "waiting"
  /\ asking' = [asking EXCEPT ![u] = ProbeAnswer]
  /\ UNCHANGED <<vllm, client>>

\* Whoever is in a probe after this step and was not before has just asked; whoever
\* has left the probe, with its answer or cancelled, asks no more.
Asking(before, after) ==
  asking' = [u \in DOMAIN asking |-> 
              IF u \notin after THEN "idle"
              ELSE IF u \in before THEN asking[u] ELSE "waiting"]

\* askers: who may have a probe under way.
LlmInit(askers) == /\ vllm \in ServerStates
                   /\ client = "open"
                   /\ asking = [u \in askers |-> "idle"]

LlmTypeOK == /\ vllm \in ServerStates
             /\ client \in {"open", "closed"}
             /\ \A u \in DOMAIN asking : asking[u] \in {"idle", "waiting"} \cup Answers
=============================================================================
