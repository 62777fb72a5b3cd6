----------------------------- MODULE ChatProofs -----------------------------
(***************************************************************************)
(* Proofs about conversation turns, for any devices, identities, texts,    *)
(* times to live, store sizes, turns and restarts of the server.           *)
(***************************************************************************)
EXTENDS Chat, SessionsProofs

-----------------------------------------------------------------------------
(* The turns.                                                              *)

\* What requests may be when m sessions were minted.
RequestsUpTo(m) ==
  [device : Devices, turn : Nat, conv : Names \cup {NoName} \cup (1..m), text : Texts,
   at : {"sent", "model", "replied"}, tries : 0..MaxRetries, session : 0..m,
   reply : Replies \cup {"none"}]

\* A request carries the conversation id its device still has, and a session of its own
\* identity once it was handled.
RequestOK(q) ==
  /\ q.turn <= turn[q.device]
  /\ q.at = "sent" /\ Awaited(q) => q.conv = conv[q.device]
  /\ q.at = "model" \/ (q.at = "replied" /\ q.reply = "text") => q.session # NoSession
  /\ q.session # NoSession => Own(q.session, q.device)
  /\ q.at = "replied" => q.reply \in Replies

\* The next conversation id of a device leads to the session its conversation is in.
DeviceOK(d) ==
  /\ current[d] # NoSession => Own(current[d], d)
  /\ conv[d] = NoName => current[d] = NoSession
  /\ current[d] \in DOMAIN sessions => Leads(SatelliteOf[d], conv[d], current[d])

ChatInv ==
  /\ StoreOK /\ ChatTypeOK
  /\ \A q \in requests : RequestOK(q)
  /\ \A d \in Devices : DeviceOK(d)

\* Handlers reply with an exception or an answer; nothing else of the request changes.
LEMMA ReplySent ==
  ASSUME NEW m \in Nat, NEW q \in RequestsUpTo(m), NEW w \in Replies, Answer(q, w)
  PROVE  \E p \in RequestsUpTo(m) :
           /\ requests' = (requests \ {q}) \cup {p}
           /\ p.device = q.device /\ p.turn = q.turn /\ p.text = q.text
           /\ p.session = q.session /\ p.at = "replied" /\ p.reply = w
<1> DEFINE p == [q EXCEPT !.at = "replied", !.reply = w, !.tries = 0]
<1>1. 0 \in 0..MaxRetries /\ w \in Replies \cup {"none"}
  BY ChatAssumption
<1>2. /\ p \in RequestsUpTo(m)
      /\ p.device = q.device /\ p.turn = q.turn /\ p.text = q.text
      /\ p.session = q.session /\ p.at = "replied" /\ p.reply = w
  BY <1>1 DEF RequestsUpTo
<1>3. requests' = (requests \ {q}) \cup {p}
  BY DEF Answer, Becomes
<1> HIDE DEF p
<1> QED
  BY <1>2, <1>3

\* The request goes on to the model, for session r.
ToModel(q, r) == Becomes(q, [q EXCEPT !.at = "model", !.session = r, !.conv = NoName])

LEMMA InModel ==
  ASSUME NEW m \in Nat, NEW q \in RequestsUpTo(m), NEW r \in 1..m, ToModel(q, r)
  PROVE  \E p \in RequestsUpTo(m) :
           /\ requests' = (requests \ {q}) \cup {p}
           /\ p.device = q.device /\ p.turn = q.turn /\ p.text = q.text
           /\ p.session = r /\ p.at = "model" /\ p.reply = q.reply
<1> DEFINE p == [q EXCEPT !.at = "model", !.session = r, !.conv = NoName]
<1>1. r \in 0..m
  OBVIOUS
<1>2. /\ p \in RequestsUpTo(m)
      /\ p.device = q.device /\ p.turn = q.turn /\ p.text = q.text
      /\ p.session = r /\ p.at = "model" /\ p.reply = q.reply
  BY <1>1 DEF RequestsUpTo
<1>3. requests' = (requests \ {q}) \cup {p}
  BY DEF ToModel, Becomes
<1> HIDE DEF p
<1> QED
  BY <1>2, <1>3

LEMMA TriedAgain ==
  ASSUME NEW m \in Nat, NEW q \in RequestsUpTo(m), q.tries < MaxRetries, NEW p, p = [q EXCEPT !.tries = @ + 1]
  PROVE  /\ p \in RequestsUpTo(m)
         /\ p.device = q.device /\ p.turn = q.turn /\ p.text = q.text /\ p.conv = q.conv
         /\ p.session = q.session /\ p.at = q.at /\ p.reply = q.reply
BY ChatAssumption DEF RequestsUpTo

LEMMA ChatInitKeeps == ChatInit => ChatInv
<1> SUFFICES ASSUME ChatInit PROVE ChatInv
  OBVIOUS
<1>1. StoreOK
  BY DEF ChatInit, Init, StoreOK, TypeOK, KeysResolve, HeldIsBound, KeysApart
<1>2. ChatTypeOK
  <2>1. 1 \in 0..MaxBoots /\ StartsWith \in [Devices -> ConversationIds]
    BY ChatAssumption DEF ConversationIds
  <2>2. \A d \in Devices : turn[d] = 0 /\ Turns[d] \in Nat
    BY ChatAssumption DEF ChatInit
  <2>3. minted = 0 /\ NoSession \in 0..minted
    BY DEF ChatInit, Init, NoSession
  <2> QED
    BY <2>1, <2>2, <2>3 DEF ChatInit, ChatTypeOK, Sayings
<1>3. \A d \in Devices : DeviceOK(d)
  BY DEF ChatInit, Init, DeviceOK, NoSession
<1> QED
  BY <1>1, <1>2, <1>3 DEF ChatInv, ChatInit

\* A handler that has its session ends, or tries again.
LEMMA ModelKeeps ==
  ASSUME ChatInv, NEW q \in requests, ModelFails(q) \/ ModelEnds(q) \/ Refuse(q)
  PROVE  ChatInv'
<1>1. /\ UNCHANGED <<sessionVars, serverVars, agentVars, current>>
      /\ q \in RequestsUpTo(minted) /\ RequestOK(q) /\ minted \in Nat
  BY DEF ModelFails, ModelEnds, Refuse, ChatInv, ChatTypeOK, StoreOK, TypeOK,
         ConversationIds, RequestsUpTo
<1>2. /\ UNCHANGED <<StoreOK, ConversationIds, minted>>
      /\ \A p : RequestOK(p) <=> RequestOK(p)'
      /\ \A d \in Devices : DeviceOK(d) <=> DeviceOK(d)'
  BY <1>1 DEF sessionVars, agentVars, StoreOK, TypeOK, KeysResolve, HeldIsBound, KeysApart,
              ConversationIds, RequestOK, DeviceOK, Own, Leads, Awaited, Waiting
<1>3. PICK p : requests' = (requests \ {q}) \cup {p} /\ p \in RequestsUpTo(minted) /\ RequestOK(p)
  <2>1. CASE q.at = "model" /\ q.tries < MaxRetries /\ Becomes(q, [q EXCEPT !.tries = @ + 1])
    <3> DEFINE p == [q EXCEPT !.tries = @ + 1]
    <3>1. /\ p \in RequestsUpTo(minted)
          /\ p.device = q.device /\ p.turn = q.turn /\ p.text = q.text /\ p.conv = q.conv
          /\ p.session = q.session /\ p.at = q.at /\ p.reply = q.reply
      BY <1>1, <2>1, TriedAgain
    <3> HIDE DEF p
    <3>2. RequestOK(p)
      BY <1>1, <3>1 DEF RequestOK, Awaited, Own
    <3> QED
      BY <2>1, <3>1, <3>2 DEF Becomes, p
  <2>2. ASSUME NEW reply \in Replies \ {"badRequest"}, Answer(q, reply),
               reply = "text" => q.at = "model"
        PROVE  \E p : requests' = (requests \ {q}) \cup {p} /\ p \in RequestsUpTo(minted) /\ RequestOK(p)
    <3>1. PICK p \in RequestsUpTo(minted) :
            /\ requests' = (requests \ {q}) \cup {p}
            /\ p.device = q.device /\ p.turn = q.turn /\ p.text = q.text
            /\ p.session = q.session /\ p.at = "replied" /\ p.reply = reply
      BY <1>1, <2>2, ReplySent
    <3>2. RequestOK(p)
      BY <1>1, <2>2, <3>1 DEF RequestOK, Awaited, Own
    <3> QED
      BY <3>1, <3>2
  <2> QED
    BY <2>1, <2>2 DEF ModelFails, ModelEnds, Refuse, Replies
<1>4. ChatTypeOK'
  BY <1>1, <1>2, <1>3 DEF ChatInv, ChatTypeOK, ConversationIds, RequestsUpTo, sessionVars, serverVars, agentVars
<1> QED
  BY <1>2, <1>3, <1>4 DEF ChatInv

\* A request is handled: its session is the one its conversation is in, if that is held,
\* and no other conversation is led astray.
LEMMA HandleKeeps ==
  ASSUME ChatInv, NEW q \in requests, Handle(q)
  PROVE  ChatInv'
<1>1. /\ q \in RequestsUpTo(minted) /\ RequestOK(q) /\ q.device \in Devices
      /\ q.conv \in ConversationIds /\ minted \in Nat /\ StoreOK
      /\ q.at = "sent"
  BY DEF Handle, ChatInv, ChatTypeOK, StoreOK, TypeOK, ConversationIds, RequestsUpTo
<1>2. PICK r \in 1..(minted + 1) :
       /\ Resolve(q.device, q.conv, r)
       /\ IF q.text = "blank" THEN Answer(q, "badRequest")
          ELSE Becomes(q, [q EXCEPT !.at = "model", !.session = r, !.conv = NoName])
       /\ current' = IF Awaited(q) /\ (q.conv # NoName \/ current[q.device] # NoSession)
                     THEN [current EXCEPT ![q.device] = r] ELSE current
  BY DEF Handle
<1>3. now' = now /\ UNCHANGED <<serverVars, agentVars>>
  BY DEF Handle
<1>4. /\ StoreOK'
      /\ minted' \in Nat /\ minted <= minted' /\ \A i \in 1..minted : mintedBy'[i] = mintedBy[i]
      /\ r \in 1..minted' /\ Own(r, q.device)'
      /\ q.conv # NoName /\ r \in DOMAIN sessions' => Leads(SatelliteOf[q.device], q.conv, r)'
      /\ \A e \in Devices, b \in ConversationIds, s \in 1..minted :
           Own(s, e) /\ (s \in DOMAIN sessions => Leads(SatelliteOf[e], b, s))
             => (s \in DOMAIN sessions' => Leads(SatelliteOf[e], b, s)')
  BY <1>1, <1>2, <1>3, ResolveEffect
<1>5. /\ \A x \in RequestsUpTo(minted) : x \in RequestsUpTo(minted')
      /\ \A x \in RequestsUpTo(minted) : RequestOK(x) => RequestOK(x)'
  <2>1. \A x \in RequestsUpTo(minted) : x \in RequestsUpTo(minted')
    BY <1>1, <1>4 DEF RequestsUpTo
  <2>2. ASSUME NEW x \in RequestsUpTo(minted), RequestOK(x) PROVE RequestOK(x)'
    <3>1. x.session # NoSession => x.session \in 1..minted
      BY <1>1 DEF RequestsUpTo, NoSession
    <3> QED
      BY <1>3, <1>4, <2>2, <3>1 DEF RequestOK, Own, Awaited, Waiting, agentVars
  <2> QED
    BY <2>1, <2>2
<1>6. PICK p \in RequestsUpTo(minted') : requests' = (requests \ {q}) \cup {p} /\ RequestOK(p)'
  <2>0. q \in RequestsUpTo(minted') /\ RequestOK(q)'
    BY <1>1, <1>5
  <2>1. CASE q.text = "blank"
    <3>1. Answer(q, "badRequest") /\ "badRequest" \in Replies
      BY <1>2, <2>1 DEF Replies
    <3>2. PICK p \in RequestsUpTo(minted') :
           /\ requests' = (requests \ {q}) \cup {p}
           /\ p.device = q.device /\ p.turn = q.turn /\ p.text = q.text
           /\ p.session = q.session /\ p.at = "replied" /\ p.reply = "badRequest"
      BY <1>4, <2>0, <3>1, ReplySent
    <3>3. RequestOK(p)'
      BY <2>0, <2>1, <3>1, <3>2 DEF RequestOK, Own
    <3> QED
      BY <3>2, <3>3
  <2>2. CASE q.text # "blank"
    <3>0. ToModel(q, r)
      BY <1>2, <2>2 DEF ToModel
    <3>1. PICK p \in RequestsUpTo(minted') :
           /\ requests' = (requests \ {q}) \cup {p}
           /\ p.device = q.device /\ p.turn = q.turn /\ p.text = q.text
           /\ p.session = r /\ p.at = "model" /\ p.reply = q.reply
      BY <1>4, <2>0, <3>0, InModel
    <3>2. r # NoSession
      BY <1>4 DEF NoSession
    <3>3. RequestOK(p)'
      BY <1>4, <2>0, <3>1, <3>2 DEF RequestOK, Own
    <3> QED
      BY <3>1, <3>3
  <2> QED
    BY <2>1, <2>2
<1>7. ChatTypeOK'
  <2>1. requests' \subseteq RequestsUpTo(minted')
    BY <1>5, <1>6 DEF ChatInv, ChatTypeOK, ConversationIds, RequestsUpTo
  <2>2. \A c \in ConversationIds : c \in ConversationIds'
    BY <1>1, <1>4 DEF ConversationIds
  <2>3. conv' \in [Devices -> ConversationIds']
    BY <1>3, <2>2 DEF ChatInv, ChatTypeOK, agentVars
  <2>4. current' \in [Devices -> 0..minted']
    BY <1>1, <1>2, <1>4 DEF ChatInv, ChatTypeOK
  <2> QED
    BY <1>3, <2>1, <2>3, <2>4
       DEF ChatInv, ChatTypeOK, ConversationIds, RequestsUpTo, serverVars, agentVars
<1>8. ASSUME NEW d \in Devices PROVE DeviceOK(d)'
  <2>1. DeviceOK(d) /\ conv[d] \in ConversationIds /\ current[d] \in 0..minted
        /\ current \in [Devices -> 0..minted]
    BY DEF ChatInv, ChatTypeOK
  <2>2. CASE current'[d] = current[d]
    <3>1. current[d] # NoSession => current[d] \in 1..minted
      BY <1>1, <2>1 DEF NoSession
    <3>2. current'[d] # NoSession => Own(current[d], d)'
      BY <1>4, <2>1, <2>2, <3>1 DEF DeviceOK, Own
    <3>3. NoSession \notin DOMAIN sessions'
      BY <1>4 DEF StoreOK, TypeOK, NoSession
    <3>4. ASSUME current[d] \in DOMAIN sessions' PROVE Leads(SatelliteOf[d], conv[d], current[d])'
      <4> DEFINE s == current[d]
                 b == conv[d]
      <4>1. s \in 1..minted /\ Own(s, d) /\ b \in ConversationIds
            /\ (s \in DOMAIN sessions => Leads(SatelliteOf[d], b, s))
        BY <2>1, <3>1, <3>3, <3>4 DEF DeviceOK
      <4>2. b' = b /\ s' = s
        BY <1>3, <2>2 DEF agentVars
      <4> HIDE DEF s, b
      <4>3. \A x, y : x = s /\ y = b => Leads(SatelliteOf[d], y, x)'
        BY <1>4, <3>4, <4>1 DEF s, b
      <4> QED
        BY <4>2, <4>3 DEF s, b
    <3> QED
      BY <1>3, <2>1, <2>2, <3>2, <3>4 DEF DeviceOK, Leads, agentVars
  <2>3. CASE current'[d] # current[d]
    <3>1. /\ d = q.device /\ Awaited(q) /\ current'[d] = r
          /\ q.conv # NoName \/ current[d] # NoSession
      BY <1>1, <1>2, <2>1, <2>3
    <3>2. q.conv = conv[d] /\ conv[d] # NoName
      BY <1>1, <2>1, <3>1 DEF RequestOK, DeviceOK
    <3> QED
      BY <1>3, <1>4, <2>1, <3>1, <3>2 DEF DeviceOK, Leads, agentVars
  <2> QED
    BY <2>2, <2>3
<1>9. \A x \in requests' : RequestOK(x)'
  BY <1>5, <1>6 DEF ChatInv, ChatTypeOK, ConversationIds, RequestsUpTo
<1> QED
  BY <1>4, <1>7, <1>8, <1>9 DEF ChatInv

\* A reply hands back the session, which then names the conversation it is in.
LEMMA DeliverKeeps ==
  ASSUME ChatInv, NEW q \in requests, Deliver(q)
  PROVE  ChatInv'
<1>1. /\ q \in RequestsUpTo(minted) /\ RequestOK(q) /\ q.device \in Devices
      /\ minted \in Nat /\ UNCHANGED <<sessionVars, serverVars, turn>>
      /\ q.at = "replied" /\ requests' = requests \ {q}
  BY DEF Deliver, ChatInv, ChatTypeOK, StoreOK, TypeOK, ConversationIds, RequestsUpTo
<1>2. UNCHANGED <<StoreOK, ConversationIds, minted, sessions, byConversation, mintedBy>>
  BY <1>1 DEF sessionVars, StoreOK, TypeOK, KeysResolve, HeldIsBound, KeysApart, ConversationIds
<1>3. CASE ~Awaited(q)
  <2>1. UNCHANGED <<saying, conv, heard, current>>
    BY <1>3 DEF Deliver
  <2> QED
    BY <1>1, <1>2, <2>1 DEF ChatInv, ChatTypeOK, RequestOK, DeviceOK, Own, Leads, Awaited, Waiting,
                          serverVars
<1>4. CASE Awaited(q)
  <2> DEFINE d == q.device
             text == q.reply = "text"
  <2>1. /\ saying' = [saying EXCEPT ![d] = SaidOf[q.reply]]
        /\ conv' = [conv EXCEPT ![d] = IF text THEN q.session ELSE @]
        /\ heard' = [heard EXCEPT ![d] = TRUE]
        /\ current' = IF text THEN [current EXCEPT ![d] = q.session] ELSE current
    BY <1>4 DEF Deliver
  <2>2. /\ saying \in [Devices -> Sayings] /\ conv \in [Devices -> ConversationIds]
        /\ heard \in [Devices -> BOOLEAN] /\ current \in [Devices -> 0..minted]
    BY DEF ChatInv, ChatTypeOK
  <2>3. text => q.session \in 1..minted /\ q.session \in ConversationIds /\ Own(q.session, d)
                /\ q.session # NoName /\ q.session # NoSession
    <3>1. q.session \in 0..minted
      BY <1>1 DEF RequestsUpTo
    <3>2. text => q.session # NoSession /\ Own(q.session, d)
      BY <1>1 DEF RequestOK
    <3> QED
      BY <1>1, <3>1, <3>2, SessionsAssumption DEF NoSession, ConversationIds
  <2>4. q.reply \in Replies
    BY <1>1 DEF RequestOK
  <2>5. SaidOf[q.reply] \in Sayings \ {"waiting"}
    BY <2>4 DEF SaidOf, Replies, Sayings
  <2>0. d \in Devices
    BY <1>1
  <2> HIDE DEF d, text
  <2>6. ChatTypeOK'
    <3>1. saying' \in [Devices -> Sayings] /\ heard' \in [Devices -> BOOLEAN]
      BY <2>0, <2>1, <2>2, <2>5
    <3>2. conv' \in [Devices -> ConversationIds] /\ current' \in [Devices -> 0..minted]
      BY <1>1, <2>0, <2>1, <2>2, <2>3
    <3> QED
      BY <1>1, <1>2, <3>1, <3>2 DEF ChatInv, ChatTypeOK, serverVars
  <2>7. \A x \in requests' : RequestOK(x)'
    <3> SUFFICES ASSUME NEW x \in requests, x \in RequestsUpTo(minted), RequestOK(x)
                 PROVE  RequestOK(x)'
      BY <1>1 DEF ChatInv, ChatTypeOK, ConversationIds, RequestsUpTo
    <3>1. x.device \in Devices
      BY DEF RequestsUpTo
    <3>2. Awaited(x)' => Awaited(x) /\ x.device # d
      BY <1>1, <2>1, <2>2, <2>5, <3>1 DEF Awaited, Waiting
    <3>3. x.device # d => conv'[x.device] = conv[x.device]
      BY <2>1, <2>2, <3>1
    <3> QED
      BY <1>1, <1>2, <3>2, <3>3 DEF RequestOK, Own
  <2>8. ASSUME NEW e \in Devices PROVE DeviceOK(e)'
    <3>1. DeviceOK(e)
      BY DEF ChatInv
    <3>2. CASE e # d
      <4>1. current'[e] = current[e] /\ conv'[e] = conv[e]
        BY <2>1, <2>2, <3>2
      <4> QED
        BY <1>2, <3>1, <4>1 DEF DeviceOK, Own, Leads
    <3>3. CASE e = d
      <4>2. CASE ~text
        BY <1>2, <2>1, <2>2, <3>1, <3>3, <4>2 DEF DeviceOK, Own, Leads
      <4>3. CASE text
        <5>1. current'[e] = q.session /\ conv'[e] = q.session
          BY <2>1, <2>2, <3>3, <4>3
        <5>2. q.session \in DOMAIN sessions => sessions[q.session].satellite = SatelliteOf[e]
          BY <2>3, <3>3, <4>3 DEF ChatInv, StoreOK, HeldIsBound, Own
        <5>3. q.session \in DOMAIN sessions => <<SatelliteOf[e], q.session>> \notin DOMAIN byConversation
          <6>1. <<SatelliteOf[e], q.session>>[1] = SatelliteOf[e]
                /\ <<SatelliteOf[e], q.session>>[2] = q.session
            OBVIOUS
          <6> QED
            BY <5>2, <6>1 DEF ChatInv, StoreOK, KeysApart
        <5> QED
          BY <1>2, <2>3, <3>3, <4>3, <5>1, <5>3 DEF DeviceOK, Own, Leads
      <4> QED
        BY <4>2, <4>3
    <3> QED
      BY <3>2, <3>3
  <2> QED
    BY <1>2, <2>6, <2>7, <2>8 DEF ChatInv
<1> QED
  BY <1>3, <1>4

\* A turn is taken with the conversation id the device has now.
LEMMA AskKeeps ==
  ASSUME ChatInv, NEW d \in Devices, Ask(d)
  PROVE  ChatInv'
<1>1. /\ ~Waiting(d) /\ turn[d] < Turns[d]
      /\ UNCHANGED <<sessionVars, serverVars, conv, current>>
      /\ turn' = [turn EXCEPT ![d] = @ + 1]
      /\ saying' = [saying EXCEPT ![d] = "waiting"]
      /\ heard' = [heard EXCEPT ![d] = FALSE]
  BY DEF Ask
<1>2. PICK text \in Texts :
        requests' = requests \cup
          {[device |-> d, turn |-> turn[d] + 1, conv |-> conv[d], text |-> text,
            at |-> "sent", tries |-> 0, session |-> NoSession, reply |-> "none"]}
  BY DEF Ask
<1>3. UNCHANGED <<StoreOK, ConversationIds, minted, sessions, byConversation, mintedBy>>
  BY <1>1 DEF sessionVars, StoreOK, TypeOK, KeysResolve, HeldIsBound, KeysApart, ConversationIds
<1>4. /\ turn \in [Devices -> Nat] /\ saying \in [Devices -> Sayings]
      /\ heard \in [Devices -> BOOLEAN] /\ conv \in [Devices -> ConversationIds]
      /\ minted \in Nat /\ Turns \in [Devices -> Nat] /\ MaxRetries \in Nat
      /\ \A e \in Devices : turn[e] <= Turns[e]
  BY ChatAssumption DEF ChatInv, ChatTypeOK, StoreOK, TypeOK
<1>5. PICK p \in RequestsUpTo(minted) :
        /\ requests' = requests \cup {p}
        /\ p.device = d /\ p.turn = turn[d] + 1 /\ p.conv = conv[d]
        /\ p.at = "sent" /\ p.session = NoSession /\ p.reply = "none"
  <2> DEFINE p == [device |-> d, turn |-> turn[d] + 1, conv |-> conv[d], text |-> text,
                   at |-> "sent", tries |-> 0, session |-> NoSession, reply |-> "none"]
  <2>1. /\ p \in RequestsUpTo(minted) /\ p.device = d /\ p.turn = turn[d] + 1
        /\ p.conv = conv[d] /\ p.at = "sent" /\ p.session = NoSession /\ p.reply = "none"
    BY <1>4 DEF RequestsUpTo, ConversationIds, NoSession
  <2>2. requests' = requests \cup {p}
    BY <1>2
  <2> HIDE DEF p
  <2> QED
    BY <2>1, <2>2
<1>7. ChatTypeOK'
  <2>1. requests' \subseteq RequestsUpTo(minted)
    BY <1>5 DEF ChatInv, ChatTypeOK, RequestsUpTo, ConversationIds
  <2>2. turn' \in [Devices -> Nat] /\ \A e \in Devices : turn'[e] <= Turns[e]
    BY <1>1, <1>4
  <2>3. saying' \in [Devices -> Sayings] /\ heard' \in [Devices -> BOOLEAN]
    BY <1>1, <1>4 DEF Sayings
  <2> QED
    BY <1>1, <1>3, <2>1, <2>2, <2>3
       DEF ChatInv, ChatTypeOK, RequestsUpTo, ConversationIds, serverVars
<1>8. RequestOK(p)'
  <2>1. turn'[d] = turn[d] + 1 /\ turn[d] + 1 \in Nat /\ conv' = conv
    BY <1>1, <1>4
  <2> QED
    BY <1>5, <2>1 DEF RequestOK
<1>9. ASSUME NEW x \in requests PROVE RequestOK(x)'
  <2>1. RequestOK(x) /\ x.device \in Devices /\ x.turn \in Nat
    BY DEF ChatInv, ChatTypeOK
  <2>2. x.turn <= turn'[x.device]
    BY <1>1, <1>4, <2>1 DEF RequestOK
  <2>3. Awaited(x)' => Awaited(x)
    BY <1>1, <1>4, <2>1 DEF RequestOK, Awaited, Waiting
  <2> QED
    BY <1>1, <1>3, <2>1, <2>2, <2>3 DEF RequestOK, Own
<1>10. ASSUME NEW e \in Devices PROVE DeviceOK(e)'
  <2>1. DeviceOK(e)
    BY DEF ChatInv
  <2> QED
    BY <1>1, <1>3, <2>1 DEF DeviceOK, Own, Leads
<1>11. \A x \in requests' : RequestOK(x)'
  BY <1>5, <1>8, <1>9
<1> QED
  BY <1>3, <1>7, <1>10, <1>11 DEF ChatInv

\* The agent gives up, and waits for no request any more.
LEMMA GiveUpKeeps ==
  ASSUME ChatInv, NEW d \in Devices, TimeOut(d) \/ ConnectionFails(d)
  PROVE  ChatInv'
<1>1. /\ Waiting(d)
      /\ UNCHANGED <<sessionVars, serverVars, conv, turn, heard, requests, current>>
      /\ \E word \in {"unavailable", "unreachable"} : saying' = [saying EXCEPT ![d] = word]
  BY DEF TimeOut, ConnectionFails
<1>2. UNCHANGED <<StoreOK, ConversationIds, minted, sessions, byConversation, mintedBy>>
  BY <1>1 DEF sessionVars, StoreOK, TypeOK, KeysResolve, HeldIsBound, KeysApart, ConversationIds
<1>3. saying \in [Devices -> Sayings]
  BY DEF ChatInv, ChatTypeOK
<1>4. ChatTypeOK'
  <2>1. saying' \in [Devices -> Sayings]
    BY <1>1, <1>3 DEF Sayings
  <2> QED
    BY <1>1, <1>2, <2>1 DEF ChatInv, ChatTypeOK, serverVars
<1>5. ASSUME NEW x \in requests PROVE RequestOK(x)'
  <2>1. RequestOK(x) /\ x.device \in Devices
    BY DEF ChatInv, ChatTypeOK
  <2>2. Awaited(x)' => Awaited(x)
    BY <1>1, <1>3, <2>1 DEF Awaited, Waiting
  <2> QED
    BY <1>1, <1>2, <2>1, <2>2 DEF RequestOK, Own
<1>6. ASSUME NEW e \in Devices PROVE DeviceOK(e)'
  <2>1. DeviceOK(e)
    BY DEF ChatInv
  <2> QED
    BY <1>1, <1>2, <2>1 DEF DeviceOK, Own, Leads
<1> QED
  BY <1>1, <1>2, <1>4, <1>5, <1>6 DEF ChatInv

\* The store, the requests and what was waited for are lost; no conversation is held.
LEMMA StopKeeps ==
  ASSUME ChatInv, Stop
  PROVE  ChatInv'
<1>1. /\ up' = FALSE /\ requests' = {}
      /\ saying' = [d \in Devices |-> IF Waiting(d) THEN "unreachable" ELSE saying[d]]
      /\ UNCHANGED <<now, minted, mintedBy, result, lastOf, tokenOk, boots, conv, turn,
                     heard, current>>
  BY DEF Stop
<1>2. DOMAIN sessions' = {} /\ DOMAIN byConversation' = {}
  BY DEF Stop, KeptSessions, KeptKeys, Restrict
<1>3. StoreOK'
  BY <1>1, <1>2 DEF ChatInv, StoreOK, TypeOK, KeysResolve, HeldIsBound, KeysApart
<1>4. ConversationIds' = ConversationIds
  BY <1>1 DEF ConversationIds
<1>5. ChatTypeOK'
  <2>1. saying' \in [Devices -> Sayings]
    BY <1>1 DEF ChatInv, ChatTypeOK, Sayings
  <2> QED
    BY <1>1, <1>4, <2>1 DEF ChatInv, ChatTypeOK
<1>6. ASSUME NEW e \in Devices PROVE DeviceOK(e)'
  <2>1. DeviceOK(e) /\ saying'[e] = IF saying[e] = "waiting" THEN "unreachable" ELSE saying[e]
    BY <1>1 DEF ChatInv, Waiting
  <2> QED
    BY <1>1, <1>2, <2>1 DEF DeviceOK, Own
<1> QED
  BY <1>1, <1>3, <1>5, <1>6 DEF ChatInv

LEMMA ChatStepKeeps ==
  ASSUME ChatInv, [ChatNext]_chatVars
  PROVE  ChatInv'
<1>1. CASE Tick
  <2>1. /\ now' \in Nat
        /\ UNCHANGED <<sessions, byConversation, minted, mintedBy, serverVars, agentVars,
                       requests, current>>
    BY <1>1, SessionsAssumption DEF Tick, Clock
  <2> QED
    BY <2>1 DEF ChatInv, StoreOK, TypeOK, KeysResolve, HeldIsBound, KeysApart, ChatTypeOK,
                ConversationIds, RequestOK, DeviceOK, Own, Leads, Awaited, Waiting,
                serverVars, agentVars
<1>2. CASE Boot
  <2>1. /\ up' \in BOOLEAN /\ boots' \in 0..MaxBoots /\ tokenOk' \in BOOLEAN
        /\ UNCHANGED <<sessionVars, agentVars, requests, current>>
    BY <1>2, ChatAssumption DEF Boot, ChatInv, ChatTypeOK
  <2> QED
    BY <2>1 DEF ChatInv, StoreOK, TypeOK, KeysResolve, HeldIsBound, KeysApart, ChatTypeOK,
                ConversationIds, RequestOK, DeviceOK, Own, Leads, Awaited, Waiting,
                sessionVars, agentVars
<1>3. ASSUME NEW q \in requests, Drop(q) PROVE ChatInv'
  <2>1. /\ requests' \subseteq requests
        /\ UNCHANGED <<sessionVars, serverVars, agentVars, current>>
    BY <1>3 DEF Drop
  <2> QED
    BY <2>1 DEF ChatInv, StoreOK, TypeOK, KeysResolve, HeldIsBound, KeysApart, ChatTypeOK,
                ConversationIds, RequestOK, DeviceOK, Own, Leads, Awaited, Waiting,
                sessionVars, serverVars, agentVars
<1>4. CASE UNCHANGED chatVars
  BY <1>4 DEF chatVars, ChatInv, StoreOK, TypeOK, KeysResolve, HeldIsBound, KeysApart,
              ChatTypeOK, ConversationIds, RequestOK, DeviceOK, Own, Leads, Awaited, Waiting,
              sessionVars, serverVars, agentVars
<1> QED
  BY <1>1, <1>2, <1>3, <1>4, AskKeeps, GiveUpKeeps, StopKeeps, ModelKeeps, HandleKeeps, DeliverKeeps
     DEF ChatNext, Agent, Serve

LEMMA ChatInvHolds == ChatSpec => []ChatInv
BY ChatInitKeeps, ChatStepKeeps, PTL DEF ChatSpec

\* Type correctness of a turn, end to end.
THEOREM ChatTypeCorrect == ChatSpec => []ChatTypeOK
<1>1. ChatInv => ChatTypeOK
  BY DEF ChatInv
<1> QED
  BY <1>1, ChatInvHolds, PTL

\* Two devices of different identities are never in one session, whatever they call their
\* conversations, however requests are delayed and however often the server restarts
\* (SessionStore.resolve, async_process).
THEOREM ConversationsStayApart == ChatSpec => []ConversationsApart
<1>1. ChatInv => ConversationsApart
  BY DEF ChatInv, DeviceOK, Own, ConversationsApart
<1> QED
  BY <1>1, ChatInvHolds, PTL

\* A turn is served in the session its conversation is in, as long as the store holds it:
\* after errors, timeouts, lost and late replies, reordered requests and restarts
\* (resolve, async_process).
THEOREM ConversationIsHeld == ChatSpec => ConversationHolds
<1>1. ASSUME ChatInv, NEW q \in requests, Handle(q), Awaited(q), current[q.device] \in Unexpired
      PROVE  current'[q.device] = current[q.device]
  <2> DEFINE d == q.device
             s == current[d]
  <2>1. /\ d \in Devices /\ q.conv \in ConversationIds /\ RequestOK(q) /\ DeviceOK(d)
        /\ StoreOK /\ q.at = "sent" /\ current \in [Devices -> 0..minted]
    BY <1>1 DEF Handle, ChatInv, ChatTypeOK
  <2>2. s \in DOMAIN sessions /\ s # NoSession
    BY <1>1, <2>1 DEF Unexpired, StoreOK, TypeOK, NoSession
  <2>3. q.conv = conv[d] /\ Own(s, d) /\ Leads(SatelliteOf[d], q.conv, s)
    BY <1>1, <2>1, <2>2 DEF RequestOK, DeviceOK
  <2>4. PICK r \in 1..(minted + 1) :
          /\ Resolve(d, q.conv, r)
          /\ current' = IF Awaited(q) /\ (q.conv # NoName \/ s # NoSession)
                        THEN [current EXCEPT ![d] = r] ELSE current
    BY <1>1 DEF Handle
  <2>5. now' = now
    BY <1>1 DEF Handle
  <2> HIDE DEF d
  <2>6. \A x \in Unexpired : Own(x, d) /\ Leads(SatelliteOf[d], q.conv, x) => r = x
    BY <2>1, <2>4, <2>5, ResolveEffect
  <2>7. r = s
    BY <1>1, <2>3, <2>6 DEF d
  <2> QED
    BY <2>1, <2>4, <2>7 DEF d
<1>2. ChatInv /\ [ChatNext]_chatVars =>
        [\A q \in requests :
           /\ Handle(q) /\ Awaited(q)
           /\ current[q.device] \in Unexpired
           => current'[q.device] = current[q.device]]_chatVars
  BY <1>1
<1> QED
  BY <1>2, ChatInvHolds, PTL DEF ChatSpec, ConversationHolds

\* A handler that goes on has fewer steps left than before.
LEMMA ServeAdvances ==
  ASSUME ChatInv, NEW q \in requests, Serve(q), NEW p \in requests' \ requests
  PROVE  /\ q \notin requests'
         /\ q.device = p.device /\ q.turn = p.turn
         /\ StepsLeft(p) \in 0..(StepsLeft(q) - 1)
<1>1. q \in RequestsUpTo(minted) /\ minted \in Nat /\ MaxRetries \in Nat
  BY ChatAssumption DEF ChatInv, ChatTypeOK, StoreOK, TypeOK, ConversationIds, RequestsUpTo
<1>2. ASSUME NEW r \in RequestsUpTo(minted'), requests' = (requests \ {q}) \cup {r}, minted' \in Nat,
             r.device = q.device, r.turn = q.turn, StepsLeft(r) \in 0..(StepsLeft(q) - 1)
      PROVE  /\ q \notin requests'
             /\ q.device = p.device /\ q.turn = p.turn
             /\ StepsLeft(p) \in 0..(StepsLeft(q) - 1)
  <2>1. StepsLeft(q) \in Nat
    BY <1>1 DEF StepsLeft, RequestsUpTo
  <2>2. r # q /\ p = r
    BY <1>2, <2>1
  <2> QED
    BY <1>2, <2>2
<1>3. CASE Deliver(q)
  BY <1>3 DEF Deliver
<1>4. ASSUME NEW reply \in Replies, Answer(q, reply), q.at \in {"sent", "model"}, minted' \in Nat,
             minted <= minted'
      PROVE  /\ q \notin requests'
             /\ q.device = p.device /\ q.turn = p.turn
             /\ StepsLeft(p) \in 0..(StepsLeft(q) - 1)
  <2>1. q \in RequestsUpTo(minted')
    BY <1>1, <1>4 DEF RequestsUpTo
  <2>2. PICK r \in RequestsUpTo(minted') :
          /\ requests' = (requests \ {q}) \cup {r}
          /\ r.device = q.device /\ r.turn = q.turn /\ r.at = "replied"
    BY <1>4, <2>1, ReplySent
  <2>3. StepsLeft(r) \in 0..(StepsLeft(q) - 1)
    BY <1>1, <1>4, <2>2 DEF StepsLeft, RequestsUpTo
  <2> QED
    BY <1>2, <1>4, <2>2, <2>3
<1>5. CASE Refuse(q) \/ ModelEnds(q)
  <2>1. minted' = minted
    BY <1>5 DEF Refuse, ModelEnds, sessionVars
  <2> QED
    BY <1>1, <1>4, <1>5, <2>1 DEF Refuse, ModelEnds, Replies
<1>6. CASE ModelFails(q)
  <2>1. minted' = minted /\ q.at = "model"
    BY <1>6 DEF ModelFails, sessionVars
  <2>2. CASE q.tries < MaxRetries /\ Becomes(q, [q EXCEPT !.tries = @ + 1])
    <3> DEFINE r == [q EXCEPT !.tries = @ + 1]
    <3>1. /\ r \in RequestsUpTo(minted) /\ r.device = q.device /\ r.turn = q.turn /\ r.at = q.at
          /\ r.tries = q.tries + 1
      BY <1>1, <2>2, TriedAgain DEF RequestsUpTo
    <3>2. requests' = (requests \ {q}) \cup {r}
      BY <2>2 DEF Becomes
    <3> HIDE DEF r
    <3>3. StepsLeft(r) \in 0..(StepsLeft(q) - 1)
      BY <1>1, <2>1, <2>2, <3>1 DEF StepsLeft, RequestsUpTo
    <3> QED
      BY <1>1, <1>2, <2>1, <3>1, <3>2, <3>3
  <2> QED
    BY <1>1, <1>4, <1>6, <2>1, <2>2 DEF ModelFails, Replies
<1>7. CASE Handle(q)
  <2>1. PICK s \in 1..(minted + 1) :
          /\ Resolve(q.device, q.conv, s)
          /\ IF q.text = "blank" THEN Answer(q, "badRequest")
             ELSE Becomes(q, [q EXCEPT !.at = "model", !.session = s, !.conv = NoName])
          /\ current' = IF Awaited(q) /\ (q.conv # NoName \/ current[q.device] # NoSession)
                        THEN [current EXCEPT ![q.device] = s] ELSE current
    BY <1>7, Zenon DEF Handle
  <2>2. minted' \in Nat /\ minted <= minted' /\ s \in 1..minted' /\ q.at = "sent"
    <3>1. /\ q.device \in Devices /\ q.conv \in ConversationIds /\ StoreOK
          /\ q.at = "sent" /\ now' = now
      BY <1>7 DEF Handle, ChatInv, ChatTypeOK
    <3> QED
      BY <2>1, <3>1, ResolveEffect
  <2>3. CASE ToModel(q, s)
    <3>1. q \in RequestsUpTo(minted')
      BY <1>1, <2>2 DEF RequestsUpTo
    <3>2. PICK r \in RequestsUpTo(minted') :
            /\ requests' = (requests \ {q}) \cup {r}
            /\ r.device = q.device /\ r.turn = q.turn /\ r.at = "model"
      BY <2>2, <2>3, <3>1, InModel
    <3>3. StepsLeft(r) \in 0..(StepsLeft(q) - 1)
      BY <1>1, <2>2, <3>2 DEF StepsLeft, RequestsUpTo
    <3> QED
      BY <1>2, <2>2, <3>2, <3>3
  <2>4. CASE q.text = "blank"
    BY <1>4, <2>1, <2>2, <2>4 DEF Replies
  <2>5. q.text # "blank" => ToModel(q, s)
    BY <2>1 DEF ToModel
  <2> QED
    BY <2>3, <2>4, <2>5
<1> QED
  BY <1>3, <1>5, <1>6, <1>7 DEF Serve

\* No handler makes more than MaxRetries + 3 steps, whatever became of its agent
\* (chat_completions, LlmClient.chat).
THEOREM RequestsAreBounded == ChatSpec => RequestsAdvance
<1> DEFINE Advances == \A p \in requests' \ requests :
                         \/ p.at = "sent" /\ p.turn = turn[p.device] + 1 /\ turn'[p.device] = p.turn
                         \/ \E q \in requests \ requests' :
                              /\ q.device = p.device /\ q.turn = p.turn
                              /\ StepsLeft(p) \in 0..(StepsLeft(q) - 1)
<1>1. ASSUME ChatInv, [ChatNext]_chatVars PROVE Advances
  <2>1. ASSUME NEW q \in requests, Serve(q) PROVE Advances
    BY <1>1, <2>1, ServeAdvances
  <2>2. ASSUME NEW d \in Devices, Ask(d) PROVE Advances
    <3>1. PICK text \in Texts :
            requests' = requests \cup
              {[device |-> d, turn |-> turn[d] + 1, conv |-> conv[d], text |-> text,
                at |-> "sent", tries |-> 0, session |-> NoSession, reply |-> "none"]}
      BY <2>2 DEF Ask
    <3>2. turn'[d] = turn[d] + 1
      BY <1>1, <2>2 DEF Ask, ChatInv, ChatTypeOK
    <3> QED
      BY <3>1, <3>2
  <2>3. ASSUME \/ \E d \in Devices : TimeOut(d) \/ ConnectionFails(d)
               \/ Tick \/ Stop \/ Boot
               \/ \E q \in requests : Drop(q)
               \/ UNCHANGED chatVars
        PROVE  requests' \subseteq requests
    BY <2>3 DEF TimeOut, ConnectionFails, Tick, Stop, Boot, Drop, chatVars
  <2> QED
    BY <1>1, <2>1, <2>2, <2>3 DEF ChatNext, Agent
<1>2. ChatInv /\ [ChatNext]_chatVars => [Advances]_chatVars
  BY <1>1
<1> QED
  BY <1>2, ChatInvHolds, PTL DEF ChatSpec, RequestsAdvance
=============================================================================
