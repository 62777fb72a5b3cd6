------------------------------ MODULE Sessions ------------------------------
(***************************************************************************)
(* The session store of farmhub/core/sessions.py, entered through          *)
(* resolve_identity of farmhub/api/identity.py.                            *)
(*                                                                         *)
(* resolve() never awaits, so one call is one action.  Sessions are        *)
(* numbered in the order they are minted, which is also the order of the   *)
(* dict that holds them: a refreshed session keeps its place.  Of a        *)
(* session the model keeps what the code reads, satellite and              *)
(* last_seen_at; created_at is never read.                                 *)
(***************************************************************************)
EXTENDS Integers, FiniteSets, Functions

CONSTANTS
  Devices,      \* what device id headers hold; an absent header is one of them
  Identities,   \* the names of satellites, and NoSatellite
  NoSatellite,
  SatelliteOf,  \* the satellite registry: the identity of each device
  Names,        \* conversation ids that callers make up
  NoName,       \* the absent conversation id
  Ttl,          \* ttl_s
  Max,          \* max_sessions
  MaxTime,      \* bound: the last instant
  MaxMinted,    \* bound: sessions minted
  Backwards     \* the wall clock may be set back

Ids == Nat \ {0}

ASSUME SessionsAssumption ==
  /\ NoSatellite \in Identities
  /\ \A d \in Devices : SatelliteOf[d] \in Identities
  /\ NoName \notin Names /\ \A n \in Names \cup {NoName} : n \notin Nat
  /\ Ttl \in Nat /\ Max \in Nat \ {0} /\ MaxTime \in Nat /\ MaxMinted \in Nat
  /\ Backwards \in BOOLEAN

VARIABLES
  now,             \* datetime.now(UTC)
  sessions,        \* _sessions: from session ids to the sessions held
  byConversation,  \* _by_conversation: from <<satellite, conversation id>> to session ids
  minted,          \* how many sessions were ever minted
  mintedBy,        \* the device each session was minted for (history)
  result,          \* the last call of resolve_identity and what it returned (history)
  lastOf           \* what each <<device, conversation id>> last got, and when (history)

store == <<sessions, byConversation, minted>>
sessionVars == <<now, sessions, byConversation, minted, mintedBy, result, lastOf>>

NoSession == 0

\* A conversation id a caller may send: one it made up, or a session id it was given.
ConversationIds == Names \cup {NoName} \cup (1..minted)

-----------------------------------------------------------------------------
(* Helpers of SessionStore, on a map ss of sessions and a map bc of keys.   *)

Expired(s) == now - s.seen > Ttl

\* Bug: a session is forgotten, the keys that lead to it are not.
KeptKeys_All(bc, keep) == bc

\* _forget: drop the sessions outside keep, and the keys that lead to them.
KeptSessions(ss, keep) == Restrict(ss, DOMAIN ss \cap keep)
KeptKeys(bc, keep) == Restrict(bc, {k \in DOMAIN bc : bc[k] \in keep})

\* Bug: the newest of equally old sessions goes first.
Before_NewestTie(ss, i, j) ==
  ss[i].seen < ss[j].seen \/ (ss[i].seen = ss[j].seen /\ i > j)

\* Bug: sessions are evicted in the order they were minted.
Before_FirstIn(ss, i, j) == i < j

\* Which of two sessions min(..., key=last_seen_at) finds first.
Before(ss, i, j) == ss[i].seen < ss[j].seen \/ (ss[i].seen = ss[j].seen /\ i < j)

\* Bug: one session more than the maximum is kept.
Survivors_OneMore(ss) ==
  {i \in DOMAIN ss : Cardinality({j \in DOMAIN ss : Before(ss, i, j)}) <= Max}

\* _evict_oldest: all but the Max last.
Survivors(ss) == {i \in DOMAIN ss : Cardinality({j \in DOMAIN ss : Before(ss, i, j)}) < Max}

\* _expire
Unexpired == {i \in DOMAIN sessions : ~Expired(sessions[i])}

\* Bug: conversation ids are not kept apart by satellite.
ByKey_AnySatellite(ss, bc, sat, conv) ==
  {i \in DOMAIN ss : \E k \in DOMAIN bc : k[2] = conv /\ bc[k] = i}

\* The session found by the conversation key, if it is held and of this satellite.
ByKey(ss, bc, sat, conv) ==
  {i \in DOMAIN ss : ss[i].satellite = sat
                     /\ <<sat, conv>> \in DOMAIN bc /\ bc[<<sat, conv>>] = i}

\* Bug: a session id is enough to claim the session.
BySession_Anyone(ss, sat, conv) == {i \in DOMAIN ss : i = conv}

\* The session found by taking the conversation id for a session id.
BySession(ss, sat, conv) == {i \in DOMAIN ss : i = conv /\ ss[i].satellite = sat}

-----------------------------------------------------------------------------
(* resolve, past its _expire: ss and bc are what is left of the store.     *)

\* Bug: a lookup does not count as use.
Refresh_NotSeen(ss, bc, i) ==
  /\ sessions' = ss
  /\ byConversation' = bc
  /\ UNCHANGED <<minted, mintedBy>>

Refresh(ss, bc, i) ==
  /\ sessions' = [ss EXCEPT ![i].seen = now]
  /\ byConversation' = bc
  /\ UNCHANGED <<minted, mintedBy>>

\* Bug: a minted session is bound to the device, not to its satellite.
Mint_BoundToDevice(ss, bc, sat, conv, d) ==
  LET new == minted + 1
      all == [i \in DOMAIN ss \cup {new} |->
                IF i = new THEN [satellite |-> d, seen |-> now] ELSE ss[i]]
      keep == Survivors(all)
  IN  /\ minted < MaxMinted
      /\ minted' = new
      /\ sessions' = KeptSessions(all, keep)
      /\ byConversation' = KeptKeys(bc, keep)
      /\ mintedBy' = [i \in 1..new |-> IF i = new THEN d ELSE mintedBy[i]]

Mint(ss, bc, sat, conv, d) ==
  LET new == minted + 1
      all == [i \in DOMAIN ss \cup {new} |->
                IF i = new THEN [satellite |-> sat, seen |-> now] ELSE ss[i]]
      key == IF conv = NoName THEN {} ELSE {<<sat, conv>>}
      keys == [k \in DOMAIN bc \cup key |-> IF k \in key THEN new ELSE bc[k]]
      keep == Survivors(all)
  IN  /\ minted < MaxMinted
      /\ minted' = new
      /\ sessions' = KeptSessions(all, keep)
      /\ byConversation' = KeptKeys(keys, keep)
      /\ mintedBy' = [i \in 1..new |-> IF i = new THEN d ELSE mintedBy[i]]

\* resolve(satellite, conversation_id) for a request of device d; r is the session
\* returned.
Resolve(d, conv, r) ==
  LET sat == SatelliteOf[d]
      ss == KeptSessions(sessions, Unexpired)
      bc == KeptKeys(byConversation, Unexpired)
      byKey == IF conv = NoName THEN {} ELSE ByKey(ss, bc, sat, conv)
      bySession == IF conv = NoName THEN {} ELSE BySession(ss, sat, conv)
  IN  \/ /\ r \in byKey
         /\ Refresh(ss, bc, r)
      \/ /\ byKey = {}
         /\ r \in bySession
         /\ Refresh(ss, bc, r)
      \/ /\ byKey = {} /\ bySession = {}
         /\ r = minted + 1
         /\ Mint(ss, bc, sat, conv, d)

\* resolve_identity: the origin of the request is this satellite and this session.
Request(d, conv) ==
  \E r \in 1..(minted + 1) :
    /\ Resolve(d, conv, r)
    /\ result' = [device |-> d, session |-> r]
    /\ lastOf' = [k \in DOMAIN lastOf \cup {<<d, conv>>} |->
                    IF k = <<d, conv>> THEN [session |-> r, at |-> now] ELSE lastOf[k]]
    /\ UNCHANGED now

\* Time passes; a wall clock may also be set back.
Clock == /\ \E t \in 0..MaxTime : /\ t = now + 1 \/ (Backwards /\ t < now)
                                  /\ now' = t
         /\ UNCHANGED <<sessions, byConversation, minted, mintedBy, result, lastOf>>

-----------------------------------------------------------------------------

Init == /\ now = 0
        /\ sessions = [i \in {} |-> [satellite |-> NoSatellite, seen |-> 0]]
        /\ byConversation = [k \in {} |-> NoSession]
        /\ minted = 0
        /\ mintedBy = [i \in {} |-> NoSession]
        /\ result = [session |-> NoSession]
        /\ lastOf = [k \in {} |-> NoSession]

Next == \/ Clock
        \/ \E d \in Devices, conv \in ConversationIds : Request(d, conv)

Spec == Init /\ [][Next]_sessionVars

-----------------------------------------------------------------------------
(* Properties.                                                             *)

TypeOK ==
  /\ now \in Nat
  /\ minted \in Nat
  /\ DOMAIN sessions \subseteq 1..minted
  /\ \A i \in DOMAIN sessions : sessions[i] \in [satellite : Identities, seen : Nat]
  /\ DOMAIN byConversation \subseteq Identities \X (Names \cup Nat)
  /\ \A k \in DOMAIN byConversation : byConversation[k] \in 1..minted
  /\ mintedBy \in [1..minted -> Devices]

\* The two dicts of the store agree after expiry and eviction: a conversation key leads
\* to a session that is held, and to one of the key's own satellite (_forget, resolve).
KeysResolve ==
  \A k \in DOMAIN byConversation :
    /\ byConversation[k] \in DOMAIN sessions
    /\ sessions[byConversation[k]].satellite = k[1]

\* "A caller cannot inherit another satellite's session": whatever conversation id a
\* request carries, its session was minted for a device of the same identity.
ResultIsOwn ==
  result.session # NoSession =>
    SatelliteOf[mintedBy[result.session]] = SatelliteOf[result.device]

\* The session a request is served under is held by the store, as get() shows: resolve
\* does not evict what it is about to return (as long as the clock goes forward).
ResultIsHeld == result.session # NoSession => result.session \in DOMAIN sessions

\* The store stays bounded whoever asks ("a flood of unidentified requests").
BoundedStore == Cardinality(DOMAIN sessions) <= Max

\* A conversation continues: within the TTL of its last turn, and unless the store was
\* ever full, the same caller with the same conversation id gets the same session,
\* and a caller that sends back a session it may use gets that session.
ConversationContinues ==
  [][\A d \in Devices, conv \in ConversationIds \ {NoName} : Request(d, conv) =>
       /\ /\ <<d, conv>> \in DOMAIN lastOf
          /\ now - lastOf[<<d, conv>>].at <= Ttl
          /\ minted <= Max \/ lastOf[<<d, conv>>].session \in DOMAIN sessions
          => result'.session = lastOf[<<d, conv>>].session
       /\ conv \in Unexpired /\ sessions[conv].satellite = SatelliteOf[d]
          => result'.session = conv]_sessionVars

\* Only a full store evicts, and what goes was used no later than anything that stays.
EvictsLeastRecent ==
  [][\A e \in Unexpired \ DOMAIN sessions' :
       /\ Cardinality(Unexpired) >= Max
       /\ \A k \in DOMAIN sessions' : sessions[e].seen <= sessions'[k].seen]_sessionVars

-----------------------------------------------------------------------------
(* What the store does is what ConversationStore promises.                 *)

\* The conversation ids that lead to session i by a key.
Aliases(i) == {k[2] : k \in {k \in DOMAIN byConversation : byConversation[k] = i}}

HeldSessions == [i \in DOMAIN sessions |->
                   [satellite |-> sessions[i].satellite, aliases |-> Aliases(i)]]

LastAnswer == IF result.session = NoSession
              THEN result
              ELSE [satellite |-> SatelliteOf[result.device], session |-> result.session]

Conversations == INSTANCE ConversationStore
                   WITH held <- HeldSessions, begun <- minted, answer <- LastAnswer

\* The two dicts that all callers share, with expiry and eviction, give every caller what
\* sessions with aliases of their own would: a key or a session id only ever finds a
\* session of the caller's own identity, the one it names, and else a new one is minted;
\* no step adds an alias to a session or takes one away (resolve, _forget).
ImplementsConversations == Conversations!Spec
=============================================================================
