-------------------------- MODULE ConversationStore -------------------------
(***************************************************************************)
(* What the session store promises of conversations, without time, expiry  *)
(* or capacity (docstring of farmhub/core/sessions.py): a conversation id  *)
(* finds a session and never claims one.  Each session has its own aliases *)
(* (the one id it was begun with), instead of a dict that all share.       *)
(***************************************************************************)
EXTENDS Naturals

CONSTANTS
  Identities,  \* who a session may be bound to
  Names,       \* conversation ids that callers make up
  NoName       \* the absent conversation id

VARIABLES
  held,   \* from session ids to the sessions held
  begun,  \* how many sessions were ever begun
  answer  \* who asked last, and the session it was given

storeVars == <<held, begun, answer>>

ConversationIds == Names \cup {NoName} \cup (1..begun)

Init == /\ held = [i \in {} |-> [satellite |-> NoName, aliases |-> {}]]
        /\ begun = 0
        /\ answer = [session |-> 0]

\* The sessions of h that sat may call conv, because it is their id or their alias.
Found(h, sat, conv) ==
  {i \in DOMAIN h : h[i].satellite = sat /\ (conv = i \/ conv \in h[i].aliases)}

\* sat goes on with session i, which it calls conv; only the sessions of keep stay.
Continue(sat, conv, i, keep) ==
  /\ conv # NoName
  /\ i \in Found(held, sat, conv) \cap keep
  /\ held' = [k \in keep |-> held[k]]
  /\ answer' = [satellite |-> sat, session |-> i]
  /\ UNCHANGED begun

\* sat begins a session, because none it may call conv is left.  The new one may be gone
\* at once: a clock that was set back makes it the oldest of a full store.
Begin(sat, conv, keep) ==
  LET new == begun + 1
      session == [satellite |-> sat, aliases |-> {conv} \ {NoName}]
  IN  /\ conv = NoName \/ Found(held, sat, conv) \cap keep = {}
      /\ \E stays \in SUBSET {new} :
           held' = [i \in keep \cup stays |-> IF i = new THEN session ELSE held[i]]
      /\ begun' = new
      /\ answer' = [satellite |-> sat, session |-> new]

Next == \E sat \in Identities, conv \in ConversationIds, keep \in SUBSET DOMAIN held :
          \/ \E i \in keep : Continue(sat, conv, i, keep)
          \/ Begin(sat, conv, keep)

Spec == Init /\ [][Next]_storeVars
=============================================================================
