-------------------------------- MODULE Chat --------------------------------
(***************************************************************************)
(* One conversation turn from end to end: the Home Assistant agent         *)
(* (custom_components/farmhub/conversation.py), the chat endpoint          *)
(* (farmhub/api/openai_compat.py, identity.py) over the session store, and *)
(* the LLM client (farmhub/modules/llm/client.py).                         *)
(*                                                                         *)
(* The agent waits for a reply at most REQUEST_TIMEOUT_S, the server goes  *)
(* on after the agent has left, and the whole store is in memory: a turn   *)
(* may time out, lose its connection, be answered too late, or outlive the *)
(* server.  Of an utterance the model keeps whether it has text, of an     *)
(* answer whether it is blank, of an HTTP reply its class.  What a request *)
(* says about tools, model or system prompt is dropped by the server       *)
(* whatever it is, and is left out.                                        *)
(***************************************************************************)
EXTENDS Sessions

CONSTANTS
  StartsWith,  \* the conversation id Home Assistant has for a device's first turn
  Texts,       \* what utterances are: "words", or "blank"
  MaxRetries,  \* max_retries of the LLM client
  Turns,       \* bound: how many turns each device takes
  MaxBoots     \* bound: starts of the server

ASSUME ChatAssumption ==
  /\ StartsWith \in [Devices -> Names \cup {NoName}]
  /\ Texts \subseteq {"words", "blank"}
  /\ Turns \in [Devices -> Nat]
  /\ MaxRetries \in Nat /\ MaxBoots \in Nat \ {0}

VARIABLES
  up,        \* the server runs
  tokenOk,   \* the token the agent holds is the one the server expects
  boots,     \* how often the server was started
  conv,      \* user_input.conversation_id of each device's next turn
  turn,      \* how many turns each device has taken
  saying,    \* what the last turn of each device said, "waiting" until it ends
  heard,     \* the last turn of each device got a reply (history)
  requests,  \* the requests on their way, in a handler, or being replied to
  current    \* the session each device's conversation is in (history)

serverVars == <<up, tokenOk, boots>>
agentVars == <<conv, turn, saying, heard>>
storeVars == <<sessions, byConversation, minted, mintedBy>>
chatVars == <<sessionVars, serverVars, agentVars, requests, current>>

Replies == {"text", "blank", "badGateway", "unavailable", "unauthorised", "badRequest"}
Sayings == {"nothing", "waiting", "answer", "badReply", "unavailable", "unauthorised",
            "unreachable"}

Waiting(d) == saying[d] = "waiting"

\* The agent still waits for the reply to this request.
Awaited(q) == Waiting(q.device) /\ turn[q.device] = q.turn

Becomes(q, p) == requests' = (requests \ {q}) \cup {p}

\* The handler answers; how often it tried is forgotten.
Answer(q, reply) ==
  Becomes(q, [q EXCEPT !.at = "replied", !.reply = reply, !.tries = 0])

-----------------------------------------------------------------------------
(* The agent: async_process.                                               *)

\* A turn is taken; session.post sends the request.
Ask(d) ==
  /\ ~Waiting(d) /\ turn[d] < Turns[d]
  /\ \E text \in Texts :
       requests' = requests \cup
         {[device |-> d, turn |-> turn[d] + 1, conv |-> conv[d], text |-> text,
           at |-> "sent", tries |-> 0, session |-> NoSession, reply |-> "none"]}
  /\ turn' = [turn EXCEPT ![d] = @ + 1]
  /\ saying' = [saying EXCEPT ![d] = "waiting"]
  /\ heard' = [heard EXCEPT ![d] = FALSE]
  /\ UNCHANGED <<sessionVars, serverVars, conv, current>>

\* What the agent says for each reply: 401 and 5xx by their status, any other 4xx by
\* the exception of raise_for_status, a blank answer by _answer_of.
SaidOf == [text |-> "answer", blank |-> "badReply", badGateway |-> "unavailable",
           unavailable |-> "unavailable", unauthorised |-> "unauthorised",
           badRequest |-> "unreachable"]

\* Bug: an error result carries no conversation id.
Deliver_ErrorForgets(q) ==
  /\ q.at = "replied"
  /\ requests' = requests \ {q}
  /\ IF Awaited(q)
     THEN /\ saying' = [saying EXCEPT ![q.device] = SaidOf[q.reply]]
          /\ conv' = [conv EXCEPT ![q.device] = IF q.reply = "text" THEN q.session ELSE NoName]
          /\ heard' = [heard EXCEPT ![q.device] = TRUE]
     ELSE UNCHANGED <<saying, conv, heard>>
  /\ current' = IF Awaited(q) /\ q.reply = "text"
                THEN [current EXCEPT ![q.device] = q.session] ELSE current
  /\ UNCHANGED <<sessionVars, serverVars, turn>>

\* The reply arrives: an answer hands its session back as the next conversation id, an
\* error keeps the one it had.  If the agent has left, nobody reads it.
Deliver(q) ==
  /\ q.at = "replied"
  /\ requests' = requests \ {q}
  /\ IF Awaited(q)
     THEN /\ saying' = [saying EXCEPT ![q.device] = SaidOf[q.reply]]
          /\ conv' = [conv EXCEPT ![q.device] = IF q.reply = "text" THEN q.session ELSE @]
          /\ heard' = [heard EXCEPT ![q.device] = TRUE]
     ELSE UNCHANGED <<saying, conv, heard>>
  /\ current' = IF Awaited(q) /\ q.reply = "text"
                THEN [current EXCEPT ![q.device] = q.session] ELSE current
  /\ UNCHANGED <<sessionVars, serverVars, turn>>

\* TimeoutError after REQUEST_TIMEOUT_S; the request goes on without the agent.
TimeOut(d) ==
  /\ Waiting(d)
  /\ saying' = [saying EXCEPT ![d] = "unavailable"]
  /\ UNCHANGED <<sessionVars, serverVars, conv, turn, heard, requests, current>>

\* The connection is refused or breaks; the server may have the request all the same.
ConnectionFails(d) ==
  /\ Waiting(d)
  /\ saying' = [saying EXCEPT ![d] = "unreachable"]
  /\ UNCHANGED <<sessionVars, serverVars, conv, turn, heard, requests, current>>

\* A request nobody waits for any more never reaches the server.
Drop(q) ==
  /\ q.at = "sent" /\ ~Awaited(q)
  /\ requests' = requests \ {q}
  /\ UNCHANGED <<sessionVars, serverVars, agentVars, current>>

-----------------------------------------------------------------------------
(* The server: chat_completions.                                           *)

\* require_bearer_token: 401 before anything else.
Refuse(q) ==
  /\ up /\ q.at = "sent"
  /\ ~tokenOk
  /\ Answer(q, "unauthorised")
  /\ UNCHANGED <<sessionVars, serverVars, agentVars, current>>

\* resolve_identity, latest_user_text, and the call of the model: no await in between.
\* A request with no text is a 400, after its session was resolved.  The conversation id
\* is read here and nowhere after.
Handle(q) ==
  /\ up /\ q.at = "sent"
  /\ tokenOk
  /\ \E r \in 1..(minted + 1) :
       /\ Resolve(q.device, q.conv, r)
       /\ IF q.text = "blank" THEN Answer(q, "badRequest")
          ELSE Becomes(q, [q EXCEPT !.at = "model", !.session = r, !.conv = NoName])
       /\ current' = IF Awaited(q) /\ (q.conv # NoName \/ current[q.device] # NoSession)
                     THEN [current EXCEPT ![q.device] = r] ELSE current
  /\ UNCHANGED <<now, result, lastOf, serverVars, agentVars>>

\* Bug: after the last attempt the retries start over.
ModelFails_StartsOver(q) ==
  /\ q.at = "model"
  /\ Becomes(q, [q EXCEPT !.tries = IF @ < MaxRetries THEN @ + 1 ELSE 0])
  /\ UNCHANGED <<sessionVars, serverVars, agentVars, current>>

\* Bug: one attempt more than configured.
ModelFails_OneMore(q) ==
  /\ q.at = "model"
  /\ IF q.tries <= MaxRetries
     THEN Becomes(q, [q EXCEPT !.tries = @ + 1])
     ELSE \E reply \in {"unavailable", "badGateway"} : Answer(q, reply)
  /\ UNCHANGED <<sessionVars, serverVars, agentVars, current>>

\* An attempt fails in a way the SDK retries: no connection, a timeout, a 5xx.  After
\* the last one it is DependencyUnavailable (503), or LLMError (502) for a 5xx.
ModelFails(q) ==
  /\ q.at = "model"
  /\ IF q.tries < MaxRetries
     THEN Becomes(q, [q EXCEPT !.tries = @ + 1])
     ELSE \E reply \in {"unavailable", "badGateway"} : Answer(q, reply)
  /\ UNCHANGED <<sessionVars, serverVars, agentVars, current>>

\* The model answers, perhaps with nothing; or the call fails for good: no choices or
\* another API error is LLMError (502), any other exception a 503.
ModelEnds(q) ==
  /\ q.at = "model"
  /\ \E reply \in {"text", "blank", "badGateway", "unavailable"} : Answer(q, reply)
  /\ UNCHANGED <<sessionVars, serverVars, agentVars, current>>

-----------------------------------------------------------------------------
(* The server stops, by a signal or a crash, and starts again.             *)

\* The store and every handler are gone, and whoever waits loses its connection.
Stop ==
  /\ up
  /\ up' = FALSE
  /\ sessions' = KeptSessions(sessions, {})
  /\ byConversation' = KeptKeys(byConversation, {})
  /\ requests' = {}
  /\ saying' = [d \in Devices |-> IF Waiting(d) THEN "unreachable" ELSE saying[d]]
  /\ UNCHANGED <<now, minted, mintedBy, result, lastOf, tokenOk, boots, conv, turn,
                 heard, current>>

\* The token may have been changed in the meantime.
Boot ==
  /\ ~up /\ boots < MaxBoots
  /\ up' = TRUE
  /\ boots' = boots + 1
  /\ tokenOk' \in BOOLEAN
  /\ UNCHANGED <<sessionVars, agentVars, requests, current>>

-----------------------------------------------------------------------------

ChatInit ==
  /\ Init
  /\ up = TRUE /\ boots = 1 /\ tokenOk \in BOOLEAN
  /\ conv = StartsWith
  /\ turn = [d \in Devices |-> 0]
  /\ saying = [d \in Devices |-> "nothing"]
  /\ heard = [d \in Devices |-> FALSE]
  /\ requests = {}
  /\ current = [d \in Devices |-> NoSession]

Agent == \E d \in Devices : Ask(d) \/ TimeOut(d) \/ ConnectionFails(d)

Tick == Clock /\ UNCHANGED <<serverVars, agentVars, requests, current>>

Serve(q) == Refuse(q) \/ Handle(q) \/ ModelFails(q) \/ ModelEnds(q) \/ Deliver(q)

ChatNext == \/ Agent \/ Tick \/ Stop \/ Boot
            \/ \E q \in requests : Serve(q) \/ Drop(q)

ChatSpec == ChatInit /\ [][ChatNext]_chatVars

\* Every attempt at the model ends, by the client's own timeouts, and a handler's reply
\* leaves the server.  Nobody has to ask, and the server need not run.
FairChatSpec ==
  /\ ChatSpec
  /\ \A d \in Devices : \A k \in 1..Turns[d] :
       WF_chatVars(\E q \in requests : q.device = d /\ q.turn = k /\ q.at # "sent" /\ Serve(q))

-----------------------------------------------------------------------------
(* Properties.                                                             *)

ChatTypeOK ==
  /\ up \in BOOLEAN /\ tokenOk \in BOOLEAN /\ boots \in 0..MaxBoots
  /\ conv \in [Devices -> ConversationIds]
  /\ turn \in [Devices -> Nat] /\ \A d \in Devices : turn[d] <= Turns[d]
  /\ saying \in [Devices -> Sayings]
  /\ heard \in [Devices -> BOOLEAN]
  /\ requests \subseteq [device : Devices, turn : Nat, conv : ConversationIds,
                         text : Texts, at : {"sent", "model", "replied"},
                         tries : 0..MaxRetries, session : 0..minted,
                         reply : Replies \cup {"none"}]
  /\ current \in [Devices -> 0..minted]

\* "handing it back keeps the next turn in the same conversation": as long as the store
\* holds the session a device's conversation is in, its next turn is served in it, after
\* errors, timeouts, lost replies and requests that arrive late or out of order.
ConversationHolds ==
  [][\A q \in requests :
       /\ Handle(q) /\ Awaited(q)
       /\ current[q.device] \in Unexpired
       => current'[q.device] = current[q.device]]_chatVars

\* Conversations of different identities are never in one session, though Home
\* Assistant names them alike.
ConversationsApart ==
  \A d, e \in Devices :
    SatelliteOf[d] # SatelliteOf[e] /\ current[d] # NoSession => current[d] # current[e]

\* "FarmHub is not responding" is said only of a turn that got no reply.  Not so: a turn
\* with no text is a 400, see MCChatBlank.cfg.
UnreachableMeansSilence == \A d \in Devices : saying[d] = "unreachable" => ~heard[d]

\* How many steps a request has left at most.
StepsLeft(q) == CASE q.at = "sent" -> MaxRetries + 3
                  [] q.at = "model" -> MaxRetries - q.tries + 2
                  [] q.at = "replied" -> 1

\* Requests only go forward: one that is new in a step was just asked, or takes the place of
\* one of the same turn that had more steps left.  None makes more than MaxRetries + 3.
RequestsAdvance ==
  [][\A p \in requests' \ requests :
       \/ p.at = "sent" /\ p.turn = turn[p.device] + 1 /\ turn'[p.device] = p.turn
       \/ \E q \in requests \ requests' :
            /\ q.device = p.device /\ q.turn = p.turn
            /\ StepsLeft(p) \in 0..(StepsLeft(q) - 1)]_chatVars

\* A handler ends though the agent has left: it tries a bounded number of times.
RequestsDrain ==
  \A d \in Devices : \A k \in 1..Turns[d] :
    (\E q \in requests : q.device = d /\ q.turn = k /\ q.at # "sent")
      ~> ~ \E q \in requests : q.device = d /\ q.turn = k /\ q.at # "sent"
=============================================================================
