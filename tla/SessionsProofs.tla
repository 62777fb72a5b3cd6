--------------------------- MODULE SessionsProofs ---------------------------
(***************************************************************************)
(* What holds of the session store for any devices, conversation ids, time *)
(* to live and maximum, and whichever way the clock moves.                 *)
(***************************************************************************)
EXTENDS Sessions, FiniteSetTheorems, TLAPS

(* Every session held belongs to the satellite of the device it was minted    *)
(* for.                                                                       *)
HeldIsBound ==
  \A i \in DOMAIN sessions : sessions[i].satellite = SatelliteOf[mintedBy[i]]

(* The session last returned was minted, and for a device of the identity of  *)
(* the one that asked.                                                        *)
ReturnedIsOwn ==
  result.session # NoSession =>
    /\ result.session \in 1..minted
    /\ SatelliteOf[mintedBy[result.session]] = SatelliteOf[result.device]

StoreInv == TypeOK /\ KeysResolve /\ HeldIsBound /\ ReturnedIsOwn

(* What a request finds left of the store by _expire: the store invariant     *)
(* holds of it too, as _forget drops a session and its keys together.         *)
LEMMA ExpiryKeepsStore ==
  ASSUME TypeOK, KeysResolve, HeldIsBound,
         NEW ss, ss = KeptSessions(sessions, Unexpired),
         NEW bc, bc = KeptKeys(byConversation, Unexpired)
  PROVE  /\ DOMAIN ss \subseteq DOMAIN sessions
         /\ \A i \in DOMAIN ss : ss[i] = sessions[i]
         /\ DOMAIN bc \subseteq DOMAIN byConversation
         /\ \A k \in DOMAIN bc : bc[k] = byConversation[k] /\ bc[k] \in DOMAIN ss
         /\ \A k \in DOMAIN bc : ss[bc[k]].satellite = k[1]
<1>1. DOMAIN ss = DOMAIN sessions \cap Unexpired /\ \A i \in DOMAIN ss : ss[i] = sessions[i]
  BY DEF KeptSessions, Restrict
<1>2. /\ DOMAIN bc = {k \in DOMAIN byConversation : byConversation[k] \in Unexpired}
      /\ \A k \in DOMAIN bc : bc[k] = byConversation[k]
  BY DEF KeptKeys, Restrict
<1>3. \A k \in DOMAIN bc : bc[k] \in DOMAIN ss /\ ss[bc[k]].satellite = k[1]
  BY <1>1, <1>2 DEF KeysResolve
<1> QED
  BY <1>1, <1>2, <1>3

(* A lookup that finds a session refreshes it where it is: the store keeps    *)
(* its shape and the session stays bound to its satellite.                    *)
LEMMA RefreshKeepsStore ==
  ASSUME TypeOK, KeysResolve, HeldIsBound,
         NEW ss, ss = KeptSessions(sessions, Unexpired),
         NEW bc, bc = KeptKeys(byConversation, Unexpired),
         NEW r \in DOMAIN ss, Refresh(ss, bc, r), now' = now
  PROVE  /\ TypeOK' /\ KeysResolve' /\ HeldIsBound'
         /\ r \in 1..minted' /\ mintedBy' = mintedBy
<1>1. /\ DOMAIN ss \subseteq DOMAIN sessions
      /\ \A i \in DOMAIN ss : ss[i] = sessions[i]
      /\ DOMAIN bc \subseteq DOMAIN byConversation
      /\ \A k \in DOMAIN bc : bc[k] = byConversation[k] /\ bc[k] \in DOMAIN ss
      /\ \A k \in DOMAIN bc : ss[bc[k]].satellite = k[1]
  BY ExpiryKeepsStore
<1>2. /\ sessions' = [ss EXCEPT ![r].seen = now] /\ byConversation' = bc
      /\ minted' = minted /\ mintedBy' = mintedBy
  BY DEF Refresh
<1>3. \A i \in DOMAIN ss : ss[i] \in [satellite : Identities, seen : Nat]
  BY <1>1 DEF TypeOK
<1>4. ss = [i \in DOMAIN ss |-> ss[i]]
  BY DEF KeptSessions, Restrict
<1>5. DOMAIN sessions' = DOMAIN ss
  BY <1>2, <1>4
<1>6. \A i \in DOMAIN ss : /\ sessions'[i].satellite = ss[i].satellite
                           /\ sessions'[i] \in [satellite : Identities, seen : Nat]
  BY <1>2, <1>3, <1>4 DEF TypeOK
<1>7. TypeOK'
  BY <1>1, <1>2, <1>5, <1>6 DEF TypeOK
<1>8. KeysResolve'
  BY <1>1, <1>2, <1>5, <1>6 DEF KeysResolve
<1>9. HeldIsBound'
  BY <1>1, <1>2, <1>5, <1>6 DEF HeldIsBound
<1> QED
  BY <1>1, <1>2, <1>7, <1>8, <1>9 DEF TypeOK

(* A minted session is new, is bound to the satellite that asked, and takes   *)
(* over the key; what is then evicted goes with its keys.                     *)
LEMMA MintKeepsStore ==
  ASSUME TypeOK, KeysResolve, HeldIsBound,
         NEW ss, ss = KeptSessions(sessions, Unexpired),
         NEW bc, bc = KeptKeys(byConversation, Unexpired),
         NEW d \in Devices, NEW conv \in ConversationIds,
         Mint(ss, bc, SatelliteOf[d], conv, d), now' = now
  PROVE  /\ TypeOK' /\ KeysResolve' /\ HeldIsBound'
         /\ minted' = minted + 1 /\ mintedBy'[minted + 1] = d
<1> DEFINE sat == SatelliteOf[d]
           new == minted + 1
           all == [i \in DOMAIN ss \cup {new} |->
                     IF i = new THEN [satellite |-> sat, seen |-> now] ELSE ss[i]]
           key == IF conv = NoName THEN {} ELSE {<<sat, conv>>}
           keys == [k \in DOMAIN bc \cup key |-> IF k \in key THEN new ELSE bc[k]]
           keep == Survivors(all)
<1>1. /\ DOMAIN ss \subseteq DOMAIN sessions
      /\ \A i \in DOMAIN ss : ss[i] = sessions[i]
      /\ DOMAIN bc \subseteq DOMAIN byConversation
      /\ \A k \in DOMAIN bc : bc[k] = byConversation[k] /\ bc[k] \in DOMAIN ss
      /\ \A k \in DOMAIN bc : ss[bc[k]].satellite = k[1]
  BY ExpiryKeepsStore
<1>2. /\ sessions' = KeptSessions(all, keep) /\ byConversation' = KeptKeys(keys, keep)
      /\ minted' = new
      /\ mintedBy' = [i \in 1..new |-> IF i = new THEN d ELSE mintedBy[i]]
  BY DEF Mint
<1>3. /\ sat \in Identities /\ new \in Nat /\ new \notin DOMAIN ss
      /\ 1..minted \subseteq 1..new /\ new \in 1..new /\ new \notin 1..minted
  BY <1>1, SessionsAssumption DEF TypeOK
<1>4. /\ DOMAIN sessions' = (DOMAIN ss \cup {new}) \cap keep
      /\ \A i \in DOMAIN sessions' : sessions'[i] = all[i]
  <2> HIDE DEF keep
  <2> QED  BY <1>2 DEF KeptSessions, Restrict
<1>5. /\ DOMAIN byConversation' = {k \in DOMAIN bc \cup key : keys[k] \in keep}
      /\ \A k \in DOMAIN byConversation' : byConversation'[k] = keys[k]
  <2> HIDE DEF keep, key
  <2> QED  BY <1>2 DEF KeptKeys, Restrict
<1> HIDE DEF keep
<1>6. \A i \in DOMAIN ss : all[i] = sessions[i] /\ i \in 1..minted
  BY <1>1, <1>3 DEF TypeOK
<1>7. all[new] = [satellite |-> sat, seen |-> now]
  OBVIOUS
<1>8. \A k \in key : k = <<sat, conv>> /\ k[1] = sat /\ keys[k] = new
                     /\ k \in Identities \X (Names \cup Nat)
  BY <1>3 DEF ConversationIds, TypeOK
<1>9. \A k \in DOMAIN bc \ key : keys[k] = bc[k]
  OBVIOUS
<1> HIDE DEF all, keys, key, new, sat
<1>10. mintedBy' \in [1..minted' -> Devices]
  BY <1>2, <1>3 DEF TypeOK, new
<1>11. /\ DOMAIN sessions' \subseteq 1..minted'
       /\ \A i \in DOMAIN sessions' : sessions'[i] \in [satellite : Identities, seen : Nat]
  BY <1>1, <1>2, <1>3, <1>4, <1>6, <1>7 DEF TypeOK
<1>12. \A k \in DOMAIN byConversation' : \/ k \in key /\ byConversation'[k] = new
                                         \/ k \in DOMAIN bc /\ byConversation'[k] = bc[k]
  BY <1>5, <1>8, <1>9
<1>13. \A k \in DOMAIN byConversation' : byConversation'[k] \in keep
  BY <1>5
<1>14. /\ DOMAIN byConversation' \subseteq Identities \X (Names \cup Nat)
       /\ \A k \in DOMAIN byConversation' : byConversation'[k] \in 1..minted'
  BY <1>1, <1>2, <1>3, <1>6, <1>8, <1>12 DEF TypeOK
<1>15. TypeOK'
  BY <1>2, <1>3, <1>10, <1>11, <1>14 DEF TypeOK
<1>16. KeysResolve'
  <2> SUFFICES ASSUME NEW k \in DOMAIN byConversation'
               PROVE  /\ byConversation'[k] \in DOMAIN sessions'
                      /\ sessions'[byConversation'[k]].satellite = k[1]
    BY DEF KeysResolve
  <2>1. CASE k \in key /\ byConversation'[k] = new
    BY <2>1, <1>4, <1>7, <1>8, <1>13
  <2>2. CASE k \in DOMAIN bc /\ byConversation'[k] = bc[k]
    BY <2>2, <1>1, <1>4, <1>6, <1>13
  <2> QED
    BY <2>1, <2>2, <1>12
<1>17. HeldIsBound'
  <2> SUFFICES ASSUME NEW i \in DOMAIN sessions'
               PROVE  sessions'[i].satellite = SatelliteOf[mintedBy'[i]]
    BY DEF HeldIsBound
  <2>1. CASE i = new
    BY <2>1, <1>2, <1>3, <1>4, <1>7 DEF sat
  <2>2. CASE i \in DOMAIN ss /\ i # new
    BY <2>2, <1>1, <1>2, <1>3, <1>4, <1>6 DEF HeldIsBound
  <2> QED
    BY <2>1, <2>2, <1>4
<1> QED
  BY <1>2, <1>3, <1>15, <1>16, <1>17 DEF new

(* resolve_identity keeps the invariant, whichever of its three ways it ends. *)
LEMMA RequestKeepsInv ==
  ASSUME StoreInv, NEW d \in Devices, NEW conv \in ConversationIds, Request(d, conv)
  PROVE  StoreInv'
<1> DEFINE sat == SatelliteOf[d]
           ss == KeptSessions(sessions, Unexpired)
           bc == KeptKeys(byConversation, Unexpired)
<1>1. PICK r \in 1..(minted + 1) :
        /\ Resolve(d, conv, r)
        /\ result' = [device |-> d, session |-> r]
        /\ now' = now
  BY DEF Request
<1>2. CASE /\ r \in DOMAIN ss /\ ss[r].satellite = sat
           /\ Refresh(ss, bc, r)
  <2>1. /\ TypeOK' /\ KeysResolve' /\ HeldIsBound'
        /\ r \in 1..minted' /\ mintedBy' = mintedBy
    <3> HIDE DEF ss, bc
    <3> QED  BY <1>1, <1>2, RefreshKeepsStore DEF StoreInv, ss, bc
  <2>2. SatelliteOf[mintedBy[r]] = SatelliteOf[d]
    BY <1>2 DEF StoreInv, HeldIsBound, KeptSessions, Restrict
  <2> QED
    BY <1>1, <2>1, <2>2 DEF StoreInv, ReturnedIsOwn
<1>3. CASE r = minted + 1 /\ Mint(ss, bc, sat, conv, d)
  <2>1. /\ TypeOK' /\ KeysResolve' /\ HeldIsBound'
        /\ minted' = minted + 1 /\ mintedBy'[minted + 1] = d
    <3> HIDE DEF ss, bc
    <3> QED  BY <1>1, <1>3, MintKeepsStore DEF StoreInv, ss, bc
  <2>2. r \in 1..minted' /\ mintedBy'[r] = d
    BY <1>1, <1>3, <2>1
  <2> QED
    BY <1>1, <2>1, <2>2 DEF StoreInv, ReturnedIsOwn
<1> QED
  BY <1>1, <1>2, <1>3 DEF Resolve, ByKey, BySession

LEMMA StoreInvHolds == Spec => []StoreInv
<1>1. Init => StoreInv
  BY DEF Init, StoreInv, TypeOK, KeysResolve, HeldIsBound, ReturnedIsOwn, NoSession
<1>2. StoreInv /\ [Next]_sessionVars => StoreInv'
  <2> SUFFICES ASSUME StoreInv, [Next]_sessionVars
               PROVE  StoreInv'
    OBVIOUS
  <2>1. CASE Clock
    <3>1. now' \in Nat /\ UNCHANGED <<sessions, byConversation, minted, mintedBy, result>>
      BY <2>1, SessionsAssumption DEF Clock
    <3> QED
      BY <3>1 DEF StoreInv, TypeOK, KeysResolve, HeldIsBound, ReturnedIsOwn
  <2>2. CASE \E d \in Devices, conv \in ConversationIds : Request(d, conv)
    BY <2>2, RequestKeepsInv
  <2>3. CASE UNCHANGED sessionVars
    BY <2>3 DEF sessionVars, StoreInv, TypeOK, KeysResolve, HeldIsBound, ReturnedIsOwn
  <2> QED
    BY <2>1, <2>2, <2>3 DEF Next
<1> QED
  BY <1>1, <1>2, PTL DEF Spec

(* Every conversation key of the store leads to a session it holds, of the    *)
(* key's own satellite: _forget never leaves a key behind.                    *)
THEOREM KeysAlwaysResolve == Spec => []KeysResolve
<1>1. StoreInv => KeysResolve
  BY DEF StoreInv
<1> QED
  BY <1>1, StoreInvHolds, PTL

(* No caller is ever given a session of another identity, whatever            *)
(* conversation id it sends (the docstring of SessionStore.resolve).          *)
THEOREM SessionsAreOwn == Spec => []ResultIsOwn
<1>1. StoreInv => ResultIsOwn
  BY DEF StoreInv, ReturnedIsOwn, ResultIsOwn
<1> QED
  BY <1>1, StoreInvHolds, PTL

(* The session store is type-correct in every reachable state.                *)
THEOREM SessionsTypeCorrect == Spec => []TypeOK
<1>1. StoreInv => TypeOK
  BY DEF StoreInv
<1> QED
  BY <1>1, StoreInvHolds, PTL

-----------------------------------------------------------------------------
(* The size of the store, and what an eviction spares.                     *)

(* _evict_oldest keeps Max sessions at most: each of them has fewer than Max   *)
(* younger ones, and no two have the same number of them.                      *)
LEMMA SurvivorsAreFew ==
  ASSUME NEW ss, IsFiniteSet(DOMAIN ss),
         \A i \in DOMAIN ss : i \in Int /\ ss[i].seen \in Int
  PROVE  IsFiniteSet(Survivors(ss)) /\ Cardinality(Survivors(ss)) <= Max
<1> DEFINE Younger(i) == {j \in DOMAIN ss : Before(ss, i, j)}
           places == 0..(Max - 1)
           place == [i \in Survivors(ss) |-> Cardinality(Younger(i))]
<1>1. Max \in Nat \ {0}
  BY SessionsAssumption
<1>2. IsFiniteSet(Survivors(ss)) /\ Survivors(ss) \subseteq DOMAIN ss
  BY FS_Subset DEF Survivors
<1>3. IsFiniteSet(places) /\ Cardinality(places) = Max
  BY <1>1, FS_Interval
<1>4. ASSUME NEW i \in DOMAIN ss PROVE IsFiniteSet(Younger(i)) /\ Cardinality(Younger(i)) \in Nat
  BY FS_Subset, FS_CardinalityType
<1>5. place \in [Survivors(ss) -> places]
  <2>1. ASSUME NEW i \in Survivors(ss) PROVE Cardinality(Younger(i)) \in places
    <3>1. Cardinality(Younger(i)) < Max /\ i \in DOMAIN ss
      BY DEF Survivors
    <3> QED
      BY <1>1, <1>4, <3>1
  <2> QED
    BY <2>1
\* Of two sessions the older has more that are younger.
<1>6. ASSUME NEW i \in Survivors(ss), NEW j \in Survivors(ss), Before(ss, i, j)
      PROVE  place[i] # place[j]
  <2>1. Younger(j) \subseteq Younger(i) /\ j \in Younger(i) /\ j \notin Younger(j)
    BY <1>2, <1>6 DEF Before
  <2>2. Cardinality(Younger(i)) # Cardinality(Younger(j))
    BY <1>2, <1>4, <2>1, FS_Subset
  <2> QED
    BY <2>2
<1>7. ASSUME NEW i \in Survivors(ss), NEW j \in Survivors(ss), i # j
      PROVE  Before(ss, i, j) \/ Before(ss, j, i)
  BY <1>2, <1>7 DEF Before
<1>8. \A i, j \in Survivors(ss) : i # j => place[i] # place[j]
  BY <1>6, <1>7
<1> HIDE DEF place, places
<1>9. ~(Cardinality(places) < Cardinality(Survivors(ss)))
  BY <1>2, <1>3, <1>5, <1>8, FS_PigeonHole
<1> QED
  BY <1>1, <1>2, <1>3, <1>9, FS_CardinalityType

(* The session just minted is the youngest: the eviction keeps it.             *)
LEMMA MintedSurvives ==
  ASSUME NEW ss, NEW new \in DOMAIN ss, new \in Int, ss[new].seen = now, now \in Int,
         \A i \in DOMAIN ss \ {new} : i \in Int /\ i < new /\ ss[i].seen \in Int /\ ss[i].seen <= now
  PROVE  new \in Survivors(ss)
<1>1. {j \in DOMAIN ss : Before(ss, new, j)} = {}
  BY DEF Before
<1>2. 0 < Max
  BY SessionsAssumption
<1> QED
  BY <1>1, <1>2, FS_EmptySet DEF Survivors

(* No session was seen in the future, while the clock goes forward.            *)
SeenByNow == ~Backwards => \A i \in DOMAIN sessions : sessions[i].seen <= now

Held == ~Backwards => ResultIsHeld

HeldInv == BoundedStore /\ SeenByNow /\ Held

LEMMA RequestKeepsHeld ==
  ASSUME StoreInv, HeldInv, NEW d \in Devices, NEW conv \in ConversationIds, Request(d, conv)
  PROVE  HeldInv'
<1> DEFINE sat == SatelliteOf[d]
           ss == KeptSessions(sessions, Unexpired)
           bc == KeptKeys(byConversation, Unexpired)
<1>1. PICK r \in 1..(minted + 1) :
        /\ Resolve(d, conv, r)
        /\ result' = [device |-> d, session |-> r]
        /\ now' = now
  BY DEF Request
<1>2. /\ minted \in Nat /\ now \in Nat /\ Max \in Nat
      /\ DOMAIN sessions \subseteq 1..minted
      /\ \A i \in DOMAIN sessions : sessions[i] \in [satellite : Identities, seen : Nat]
  BY SessionsAssumption DEF StoreInv, TypeOK
<1>3. /\ DOMAIN ss \subseteq DOMAIN sessions
      /\ \A i \in DOMAIN ss : ss[i] = sessions[i]
      /\ ss = [i \in DOMAIN ss |-> ss[i]]
  BY DEF KeptSessions, Restrict
<1>4. IsFiniteSet(1..minted) /\ IsFiniteSet(DOMAIN sessions) /\ IsFiniteSet(DOMAIN ss)
  <2> HIDE DEF ss
  <2>1. IsFiniteSet(1..minted)
    BY <1>2, FS_Interval
  <2>2. IsFiniteSet(DOMAIN sessions)
    BY <1>2, <2>1, FS_Subset
  <2> QED
    BY <1>3, <2>1, <2>2, FS_Subset
<1> HIDE DEF ss, bc
<1>5. CASE r \in DOMAIN ss /\ Refresh(ss, bc, r)
  <2>1. /\ sessions' = [ss EXCEPT ![r].seen = now]
    BY <1>5 DEF Refresh
  <2>2. DOMAIN sessions' = DOMAIN ss
    BY <1>3, <2>1
  <2>3. \A i \in DOMAIN ss : sessions'[i].seen = IF i = r THEN now ELSE sessions[i].seen
    BY <1>2, <1>3, <1>5, <2>1
  <2>4. SeenByNow'
    BY <1>1, <1>2, <1>3, <2>2, <2>3 DEF HeldInv, SeenByNow
  <2>5. BoundedStore'
    <3>1. Cardinality(DOMAIN ss) <= Cardinality(DOMAIN sessions)
      BY <1>3, <1>4, FS_Subset
    <3>2. Cardinality(DOMAIN ss) \in Nat /\ Cardinality(DOMAIN sessions) \in Nat
      BY <1>4, FS_CardinalityType
    <3> QED
      BY <1>2, <2>2, <3>1, <3>2 DEF HeldInv, BoundedStore
  <2>6. Held'
    BY <1>1, <1>5, <2>2 DEF Held, ResultIsHeld
  <2> QED
    BY <2>4, <2>5, <2>6 DEF HeldInv
<1>6. CASE r = minted + 1 /\ Mint(ss, bc, sat, conv, d)
  <2> DEFINE new == minted + 1
             all == [i \in DOMAIN ss \cup {new} |->
                       IF i = new THEN [satellite |-> sat, seen |-> now] ELSE ss[i]]
  <2>1. sessions' = KeptSessions(all, Survivors(all))
    BY <1>6 DEF Mint
  <2>2. /\ new \in DOMAIN all /\ all[new].seen = now /\ new \in Int
        /\ \A i \in DOMAIN all \ {new} : i \in DOMAIN ss /\ all[i] = sessions[i]
        /\ DOMAIN all = DOMAIN ss \cup {new}
    BY <1>2, <1>3
  <2>3. IsFiniteSet(DOMAIN all)
    BY <1>4, FS_AddElement
  <2> HIDE DEF all, new
  <2>4. \A i \in DOMAIN all \ {new} :
          i \in Int /\ i < new /\ all[i].seen \in Int /\ (~Backwards => all[i].seen <= now)
    BY <1>2, <1>3, <2>2 DEF HeldInv, SeenByNow, new
  <2>5. IsFiniteSet(Survivors(all)) /\ Cardinality(Survivors(all)) <= Max
    BY <1>2, <2>2, <2>3, <2>4, SurvivorsAreFew
  <2>6. ~Backwards => new \in Survivors(all)
    BY <1>2, <2>2, <2>4, MintedSurvives
  <2>7. DOMAIN sessions' = Survivors(all) /\ \A i \in DOMAIN sessions' : sessions'[i] = all[i]
    BY <2>1 DEF KeptSessions, Restrict, Survivors
  <2>8. Survivors(all) \subseteq DOMAIN all
    BY DEF Survivors
  <2>9. SeenByNow'
    BY <1>1, <1>2, <2>2, <2>4, <2>7, <2>8 DEF SeenByNow
  <2>10. Held'
    BY <1>1, <1>6, <2>6, <2>7 DEF Held, ResultIsHeld, new
  <2> QED
    BY <2>5, <2>7, <2>9, <2>10 DEF HeldInv, BoundedStore
<1> QED
  BY <1>1, <1>5, <1>6 DEF Resolve, ByKey, BySession, ss, bc

LEMMA HeldInvHolds == Spec => []HeldInv
<1>1. Init => HeldInv
  <2> SUFFICES ASSUME Init PROVE HeldInv
    OBVIOUS
  <2>1. DOMAIN sessions = {} /\ result.session = NoSession
    BY DEF Init
  <2>2. Cardinality(DOMAIN sessions) <= Max
    BY <2>1, FS_EmptySet, SessionsAssumption
  <2> QED
    BY <2>1, <2>2 DEF HeldInv, BoundedStore, SeenByNow, Held, ResultIsHeld
<1>2. StoreInv /\ HeldInv /\ [Next]_sessionVars => HeldInv'
  <2> SUFFICES ASSUME StoreInv, HeldInv, [Next]_sessionVars PROVE HeldInv'
    OBVIOUS
  <2>1. CASE Clock
    <3>1. /\ ~Backwards => now' = now + 1
          /\ UNCHANGED <<sessions, result>>
      BY <2>1 DEF Clock
    <3>2. now \in Nat /\ \A i \in DOMAIN sessions : sessions[i].seen \in Nat
      BY DEF StoreInv, TypeOK
    <3> QED
      BY <3>1, <3>2 DEF HeldInv, BoundedStore, SeenByNow, Held, ResultIsHeld
  <2>2. CASE \E d \in Devices, conv \in ConversationIds : Request(d, conv)
    BY <2>2, RequestKeepsHeld
  <2>3. CASE UNCHANGED sessionVars
    BY <2>3 DEF sessionVars, HeldInv, BoundedStore, SeenByNow, Held, ResultIsHeld
  <2> QED
    BY <2>1, <2>2, <2>3 DEF Next
<1> QED
  BY <1>1, <1>2, StoreInvHolds, PTL DEF Spec

(* The store never holds more than max_sessions, whoever asks and whichever    *)
(* way the clock moves (_evict_oldest).                                        *)
THEOREM StoreIsBounded == Spec => []BoundedStore
<1>1. HeldInv => BoundedStore
  BY DEF HeldInv
<1> QED
  BY <1>1, HeldInvHolds, PTL

(* While the clock goes forward, resolve never evicts the session it returns,  *)
(* however many sessions were used at the same instant.                        *)
THEOREM ReturnedIsHeld == ~Backwards => (Spec => []ResultIsHeld)
<1> SUFFICES ASSUME ~Backwards PROVE Spec => []ResultIsHeld
  OBVIOUS
<1>1. HeldInv => ResultIsHeld
  BY DEF HeldInv, Held
<1> QED
  BY <1>1, HeldInvHolds, PTL

-----------------------------------------------------------------------------
(* What an eviction takes.                                                  *)

(* A session that _evict_oldest takes had Max younger ones, and none that it   *)
(* leaves was used before it.                                                  *)
LEMMA EvictedIsOldest ==
  ASSUME NEW ss, IsFiniteSet(DOMAIN ss),
         \A i \in DOMAIN ss : i \in Int /\ ss[i].seen \in Int,
         NEW e \in DOMAIN ss \ Survivors(ss)
  PROVE  /\ Cardinality(DOMAIN ss \ {e}) >= Max
         /\ \A k \in Survivors(ss) : ss[e].seen <= ss[k].seen
<1> DEFINE Younger(i) == {j \in DOMAIN ss : Before(ss, i, j)}
<1>1. Max \in Nat
  BY SessionsAssumption
<1>2. ASSUME NEW i \in DOMAIN ss
      PROVE  /\ IsFiniteSet(Younger(i)) /\ Cardinality(Younger(i)) \in Nat
             /\ i \in Survivors(ss) <=> Cardinality(Younger(i)) < Max
  <2>1. IsFiniteSet(Younger(i)) /\ Cardinality(Younger(i)) \in Nat
    BY FS_Subset, FS_CardinalityType
  <2> QED
    BY <2>1 DEF Survivors
<1>3. Cardinality(Younger(e)) \in Nat /\ Cardinality(Younger(e)) >= Max
  <2>1. e \in DOMAIN ss /\ e \notin Survivors(ss)
    OBVIOUS
  <2> HIDE DEF Younger
  <2>2. /\ Cardinality(Younger(e)) \in Nat
        /\ e \in Survivors(ss) <=> Cardinality(Younger(e)) < Max
    BY <1>2, <2>1
  <2> QED
    BY <1>1, <2>1, <2>2
<1>4. Cardinality(DOMAIN ss \ {e}) >= Max
  <2>1. IsFiniteSet(DOMAIN ss \ {e}) /\ Cardinality(DOMAIN ss \ {e}) \in Nat
    BY FS_RemoveElement, FS_CardinalityType
  <2>2. Younger(e) \subseteq DOMAIN ss \ {e}
    BY DEF Before
  <2>3. Cardinality(Younger(e)) <= Cardinality(DOMAIN ss \ {e})
    BY <2>1, <2>2, FS_Subset
  <2> HIDE DEF Younger
  <2> QED
    BY <1>1, <1>3, <2>1, <2>3
<1>5. ASSUME NEW k \in Survivors(ss), ss[k].seen < ss[e].seen PROVE FALSE
  <2>1. /\ k \in DOMAIN ss /\ IsFiniteSet(Younger(k))
        /\ Cardinality(Younger(k)) \in Nat /\ Cardinality(Younger(k)) < Max
    <3>1. k \in DOMAIN ss
      BY DEF Survivors
    <3> HIDE DEF Younger
    <3> QED
      BY <1>2, <3>1
  <2>2. Younger(e) \subseteq Younger(k)
    BY <1>5, <2>1 DEF Before
  <2>3. Cardinality(Younger(e)) <= Cardinality(Younger(k))
    BY <2>1, <2>2, FS_Subset
  <2> HIDE DEF Younger
  <2> QED
    BY <1>1, <1>3, <2>1, <2>3
<1>6. \A k \in Survivors(ss) : k \in DOMAIN ss
  BY DEF Survivors
<1> QED
  BY <1>4, <1>5, <1>6

(* So resolve evicts from a full store only, and what was used longest ago.    *)
LEMMA EvictionStep ==
  ASSUME StoreInv, [Next]_sessionVars, NEW e \in Unexpired \ DOMAIN sessions'
  PROVE  /\ Cardinality(Unexpired) >= Max
         /\ \A k \in DOMAIN sessions' : sessions[e].seen <= sessions'[k].seen
<1>1. PICK d \in Devices, conv \in ConversationIds : Request(d, conv)
  BY DEF Next, Clock, sessionVars, Unexpired
<1> DEFINE sat == SatelliteOf[d]
           ss == KeptSessions(sessions, Unexpired)
           bc == KeptKeys(byConversation, Unexpired)
           new == minted + 1
           all == [i \in DOMAIN ss \cup {new} |->
                     IF i = new THEN [satellite |-> sat, seen |-> now] ELSE ss[i]]
<1>2. /\ DOMAIN ss = Unexpired /\ \A i \in DOMAIN ss : ss[i] = sessions[i]
      /\ Unexpired \subseteq DOMAIN sessions
  BY DEF KeptSessions, Restrict, Unexpired
<1>3. /\ minted \in Nat /\ now \in Nat /\ DOMAIN sessions \subseteq 1..minted
      /\ \A i \in DOMAIN sessions : sessions[i].seen \in Nat
  BY DEF StoreInv, TypeOK
<1>4. IsFiniteSet(Unexpired)
  <2>1. IsFiniteSet(1..minted)
    BY <1>3, FS_Interval
  <2> QED
    BY <1>2, <1>3, <2>1, FS_Subset
<1>5. sessions' = KeptSessions(all, Survivors(all))
  <2>1. ASSUME NEW r, Refresh(ss, bc, r) PROVE FALSE
    <3>1. DOMAIN sessions' = DOMAIN ss
      BY <2>1 DEF Refresh, KeptSessions, Restrict
    <3> QED
      BY <1>2, <3>1
  <2> HIDE DEF ss, bc
  <2>2. Mint(ss, bc, sat, conv, d)
    BY <1>1, <2>1 DEF Request, Resolve, ss, bc
  <2> QED
    BY <2>2 DEF Mint
<1> HIDE DEF ss
<1>6. /\ DOMAIN all = Unexpired \cup {new} /\ e \in DOMAIN all /\ new \notin Unexpired
      /\ all[new].seen = now /\ \A i \in Unexpired : all[i] = sessions[i]
  BY <1>2, <1>3
<1> HIDE DEF all, new
<1>7. DOMAIN sessions' = Survivors(all) /\ \A k \in DOMAIN sessions' : sessions'[k] = all[k]
  BY <1>5 DEF KeptSessions, Restrict, Survivors
<1>8. IsFiniteSet(DOMAIN all) /\ \A i \in DOMAIN all : i \in Int /\ all[i].seen \in Int
  <2>1. IsFiniteSet(DOMAIN all)
    BY <1>4, <1>6, FS_AddElement
  <2> QED
    BY <1>2, <1>3, <1>6, <2>1 DEF new
<1>9. /\ Cardinality(DOMAIN all \ {e}) >= Max
      /\ \A k \in Survivors(all) : all[e].seen <= all[k].seen
  <2>1. e \in DOMAIN all \ Survivors(all)
    BY <1>6, <1>7
  <2> QED
    BY <1>8, <2>1, EvictedIsOldest
<1>10. Cardinality(DOMAIN all \ {e}) = Cardinality(Unexpired)
  <2>1. DOMAIN all \ {e} = (Unexpired \ {e}) \cup {new} /\ e \in Unexpired
        /\ new \notin Unexpired \ {e}
    BY <1>6
  <2>2. IsFiniteSet(Unexpired \ {e}) /\ Cardinality(Unexpired \ {e}) = Cardinality(Unexpired) - 1
    BY <1>4, <2>1, FS_RemoveElement
  <2>3. Cardinality((Unexpired \ {e}) \cup {new}) = Cardinality(Unexpired \ {e}) + 1
    BY <2>1, <2>2, FS_AddElement
  <2>4. Cardinality(Unexpired) \in Nat
    BY <1>4, FS_CardinalityType
  <2>5. Cardinality(DOMAIN all \ {e}) = Cardinality((Unexpired \ {e}) \cup {new})
    BY <2>1
  <2>6. PICK n \in Nat : n = Cardinality(Unexpired)
    BY <2>4
  <2>7. Cardinality(DOMAIN all \ {e}) = (n - 1) + 1
    BY <2>2, <2>3, <2>5, <2>6
  <2> QED
    BY <2>6, <2>7
<1> QED
  BY <1>6, <1>7, <1>9, <1>10

(* Only a full store evicts, and what goes was used no later than anything     *)
(* that stays, whichever way the clock moved before (_evict_oldest).           *)
THEOREM EvictionsAreFair == Spec => EvictsLeastRecent
<1>1. StoreInv /\ [Next]_sessionVars =>
        [\A e \in Unexpired \ DOMAIN sessions' :
           /\ Cardinality(Unexpired) >= Max
           /\ \A k \in DOMAIN sessions' : sessions[e].seen <= sessions'[k].seen]_sessionVars
  BY EvictionStep
<1> QED
  BY <1>1, StoreInvHolds, PTL DEF Spec, EvictsLeastRecent

-----------------------------------------------------------------------------
(* The store, as far as a conversation goes.                               *)

\* A request of satellite sat with conversation id c is served in session s, if it is held.
Leads(sat, c, s) ==
  /\ c # NoName
  /\ \/ <<sat, c>> \in DOMAIN byConversation /\ byConversation[<<sat, c>>] = s
     \/ <<sat, c>> \notin DOMAIN byConversation /\ c = s

\* A key never stands in the way of a session id that its satellite may use.
KeysApart ==
  \A k \in DOMAIN byConversation :
    /\ k[2] \in Names \cup (1..minted)
    /\ ~(k[2] \in DOMAIN sessions /\ sessions[k[2]].satellite = k[1])

StoreOK == TypeOK /\ KeysResolve /\ HeldIsBound /\ KeysApart

\* Session i was minted for a device of d's identity.
Own(i, d) == SatelliteOf[mintedBy[i]] = SatelliteOf[d]

\* What resolve does to the store, the sessions minted, and a conversation of session s.
LEMMA ResolveEffect ==
  ASSUME StoreOK, NEW d \in Devices, NEW c \in ConversationIds,
         NEW r \in 1..(minted + 1), Resolve(d, c, r), now' = now
  PROVE  /\ StoreOK'
         /\ minted' \in Nat /\ minted <= minted' /\ \A i \in 1..minted : mintedBy'[i] = mintedBy[i]
         /\ r \in 1..minted' /\ Own(r, d)'
         /\ c # NoName /\ r \in DOMAIN sessions' => Leads(SatelliteOf[d], c, r)'
         /\ \A e \in Devices, b \in ConversationIds, s \in 1..minted :
              Own(s, e) /\ (s \in DOMAIN sessions => Leads(SatelliteOf[e], b, s))
                => (s \in DOMAIN sessions' => Leads(SatelliteOf[e], b, s)')
         /\ \A s \in Unexpired : Own(s, d) /\ Leads(SatelliteOf[d], c, s) => r = s
<1> DEFINE sat == SatelliteOf[d]
           ss == KeptSessions(sessions, Unexpired)
           bc == KeptKeys(byConversation, Unexpired)
           found == IF c = NoName THEN {} ELSE ByKey(ss, bc, sat, c)
           claimed == IF c = NoName THEN {} ELSE BySession(ss, sat, c)
<1>1. /\ DOMAIN ss = Unexpired /\ DOMAIN ss \subseteq DOMAIN sessions
      /\ \A i \in DOMAIN ss : ss[i] = sessions[i]
      /\ DOMAIN bc = {k \in DOMAIN byConversation : byConversation[k] \in Unexpired}
      /\ \A k \in DOMAIN bc : bc[k] = byConversation[k] /\ bc[k] \in DOMAIN ss
      /\ \A k \in DOMAIN bc : ss[bc[k]].satellite = k[1]
  <2>1. DOMAIN ss = Unexpired /\ Unexpired \subseteq DOMAIN sessions
    BY DEF KeptSessions, Restrict, Unexpired
  <2>2. DOMAIN bc = {k \in DOMAIN byConversation : byConversation[k] \in Unexpired}
    BY DEF KeptKeys, Restrict
  <2> HIDE DEF ss, bc
  <2> QED
    BY <2>1, <2>2, ExpiryKeepsStore DEF StoreOK, ss, bc
<1>2. /\ minted \in Nat /\ DOMAIN sessions \subseteq 1..minted
      /\ mintedBy \in [1..minted -> Devices]
      /\ \A i \in DOMAIN sessions : sessions[i].satellite = SatelliteOf[mintedBy[i]]
  BY DEF StoreOK, TypeOK, HeldIsBound
<1> HIDE DEF ss, bc, sat
<1>3. found = {i \in DOMAIN ss : c # NoName /\ ss[i].satellite = sat
                                  /\ <<sat, c>> \in DOMAIN bc /\ bc[<<sat, c>>] = i}
  BY DEF ByKey
<1>4. claimed = {i \in DOMAIN ss : c # NoName /\ i = c /\ ss[i].satellite = sat}
  BY DEF BySession
<1>5. found = {} /\ c # NoName => <<sat, c>> \notin DOMAIN bc
  <2>1. <<sat, c>>[1] = sat
    OBVIOUS
  <2> QED
    BY <1>1, <1>3, <2>1
<1> HIDE DEF found, claimed
<1>6. \A s \in Unexpired : Own(s, d) /\ Leads(sat, c, s) =>
        s \in found \/ (<<sat, c>> \notin DOMAIN bc /\ s \in claimed)
  BY <1>1, <1>2, <1>3, <1>4 DEF Leads, Own, sat
<1>7. CASE r \in DOMAIN ss /\ Refresh(ss, bc, r)
           /\ (r \in found \/ (found = {} /\ r \in claimed))
  <2>1. /\ TypeOK' /\ KeysResolve' /\ HeldIsBound'
        /\ minted' = minted /\ mintedBy' = mintedBy /\ byConversation' = bc
    BY <1>7, RefreshKeepsStore DEF StoreOK, ss, bc, Refresh
  <2>2. /\ DOMAIN sessions' = DOMAIN ss
        /\ \A i \in DOMAIN sessions' : sessions'[i].satellite = sessions[i].satellite
    <3>1. DOMAIN sessions' = DOMAIN ss
      BY <1>7 DEF Refresh, ss, KeptSessions, Restrict
    <3> QED
      BY <1>1, <1>2, <2>1, <3>1 DEF HeldIsBound
  <2>3. StoreOK'
    BY <1>1, <2>1, <2>2 DEF StoreOK, KeysApart
  <2>4. r \in 1..minted' /\ Own(r, d)'
    BY <1>1, <1>2, <1>3, <1>4, <1>7, <2>1 DEF Own, sat
  <2>5. c # NoName /\ r \in DOMAIN sessions' => Leads(sat, c, r)'
    BY <1>3, <1>4, <1>5, <1>7, <2>1 DEF Leads, sat
  <2>6. ASSUME NEW e \in Devices, NEW b \in ConversationIds, NEW s \in DOMAIN sessions',
               Leads(SatelliteOf[e], b, s)
        PROVE  Leads(SatelliteOf[e], b, s)'
    BY <1>1, <2>1, <2>2, <2>6 DEF Leads
  <2>7. ASSUME NEW s \in Unexpired, Own(s, d), Leads(sat, c, s) PROVE r = s
    BY <1>3, <1>4, <1>6, <1>7, <2>7
  <2> QED
    BY <1>1, <1>2, <2>1, <2>2, <2>3, <2>4, <2>5, <2>6, <2>7 DEF sat
<1>8. CASE /\ found = {} /\ claimed = {} /\ r = minted + 1
           /\ Mint(ss, bc, sat, c, d)
  <2> DEFINE all == [i \in DOMAIN ss \cup {r} |->
                       IF i = r THEN [satellite |-> sat, seen |-> now] ELSE ss[i]]
             key == IF c = NoName THEN {} ELSE {<<sat, c>>}
             keys == [k \in DOMAIN bc \cup key |-> IF k \in key THEN r ELSE bc[k]]
             keep == Survivors(all)
  <2>1. /\ TypeOK' /\ KeysResolve' /\ HeldIsBound'
        /\ minted' = minted + 1 /\ mintedBy'[minted + 1] = d
    BY <1>8, MintKeepsStore DEF StoreOK, ss, bc, sat
  <2>2. /\ sessions' = KeptSessions(all, keep) /\ byConversation' = KeptKeys(keys, keep)
        /\ mintedBy' = [i \in 1..r |-> IF i = r THEN d ELSE mintedBy[i]]
    BY <1>8 DEF Mint
  <2>3. /\ DOMAIN sessions' = (DOMAIN ss \cup {r}) \cap keep
        /\ DOMAIN byConversation' = {k \in DOMAIN bc \cup key : keys[k] \in keep}
        /\ \A k \in DOMAIN byConversation' : byConversation'[k] = keys[k]
    <3> HIDE DEF keep, key
    <3> QED  BY <2>2 DEF KeptSessions, KeptKeys, Restrict
  <2> HIDE DEF keep
  <2>4. \A i \in 1..minted : mintedBy'[i] = mintedBy[i]
    BY <1>2, <1>8, <2>2
  <2>5. /\ \A k \in key : keys[k] = r /\ k = <<sat, c>> /\ k[1] = sat /\ k[2] = c /\ c # NoName
        /\ \A k \in DOMAIN bc \ key : keys[k] = bc[k]
        /\ c # NoName => <<sat, c>> \in key
    OBVIOUS
  <2> HIDE DEF keys, key, all
  <2>6. r \notin DOMAIN ss /\ r \in Nat /\ r \in 1..minted' /\ Own(r, d)'
        /\ \A i \in 1..minted : i \in 1..minted' /\ i # r
    BY <1>1, <1>2, <1>8, <2>1 DEF Own
  <2>7. \A i \in DOMAIN sessions' : i # r => i \in DOMAIN ss /\ sessions'[i].satellite = sessions[i].satellite
    BY <1>1, <1>2, <2>1, <2>3, <2>4 DEF HeldIsBound
  <2>8. ~(c \in DOMAIN ss /\ c # NoName /\ ss[c].satellite = sat)
    BY <1>4, <1>8
  <2>9. c # NoName => c \in Names \cup (1..minted) /\ c # r
    BY <1>2, <1>8, <2>6, SessionsAssumption DEF ConversationIds
  <2>10. KeysApart'
    <3> SUFFICES ASSUME NEW k \in DOMAIN byConversation'
                 PROVE  /\ k[2] \in Names \cup (1..minted')
                        /\ ~(k[2] \in DOMAIN sessions' /\ sessions'[k[2]].satellite = k[1])
      BY DEF KeysApart
    <3>1. CASE k \in key
      BY <1>1, <2>5, <2>6, <2>7, <2>8, <2>9, <3>1
    <3>2. CASE k \notin key
      <4>1. k \in DOMAIN byConversation
        BY <1>1, <2>3, <3>2
      <4>2. k[2] \in Names \cup (1..minted) /\ k[2] # r
        BY <2>6, <4>1, SessionsAssumption DEF StoreOK, KeysApart
      <4> QED
        BY <1>1, <2>6, <2>7, <4>1, <4>2 DEF StoreOK, KeysApart
    <3> QED
      BY <3>1, <3>2
  <2>11. c # NoName /\ r \in DOMAIN sessions' => Leads(sat, c, r)'
    BY <2>3, <2>5 DEF Leads, sat
  <2>12. ASSUME NEW e \in Devices, NEW b \in ConversationIds, NEW s \in 1..minted,
                s \in DOMAIN sessions', Own(s, e), Leads(SatelliteOf[e], b, s)
         PROVE  Leads(SatelliteOf[e], b, s)'
    <3> DEFINE k == <<SatelliteOf[e], b>>
    <3>1. s \in DOMAIN ss /\ s \in keep /\ ss[s].satellite = SatelliteOf[e]
      BY <1>1, <1>2, <2>3, <2>6, <2>12 DEF Own
    <3>2. CASE k \in DOMAIN byConversation /\ byConversation[k] = s
      <4>1. k \in DOMAIN bc /\ bc[k] = s
        BY <1>1, <3>1, <3>2
      <4>2. k \notin key
        BY <1>5, <1>8, <2>5, <4>1
      <4> QED
        BY <2>3, <2>5, <2>12, <3>1, <4>1, <4>2 DEF Leads
    <3>3. CASE k \notin DOMAIN byConversation /\ b = s
      <4>1. k \notin key
        BY <2>5, <2>8, <2>12, <3>1, <3>3 DEF Leads
      <4> QED
        BY <1>1, <2>3, <2>12, <3>3, <4>1 DEF Leads
    <3> QED
      BY <2>12, <3>2, <3>3 DEF Leads
  <2>13. \A s \in Unexpired : ~(Own(s, d) /\ Leads(sat, c, s))
    BY <1>6, <1>8
  <2>14. StoreOK'
    BY <2>1, <2>10 DEF StoreOK
  <2>15. \A s \in DOMAIN sessions : s \in 1..minted
    BY <1>2
  <2>16. \A s \in 1..minted : s \in DOMAIN sessions' => s \in DOMAIN sessions
    BY <1>1, <2>6, <2>7
  <2> QED
    BY <1>2, <1>8, <2>1, <2>4, <2>6, <2>11, <2>12, <2>13, <2>14, <2>16 DEF sat
<1> QED
  <2>1. \/ r \in found /\ Refresh(ss, bc, r)
        \/ found = {} /\ r \in claimed /\ Refresh(ss, bc, r)
        \/ found = {} /\ claimed = {} /\ r = minted + 1 /\ Mint(ss, bc, sat, c, d)
    BY DEF Resolve, found, claimed, ss, bc, sat
  <2>2. found \subseteq DOMAIN ss /\ claimed \subseteq DOMAIN ss
    BY <1>3, <1>4
  <2> QED
    BY <1>7, <1>8, <2>1, <2>2

-----------------------------------------------------------------------------
(* Conversations continue.                                                 *)

(* What an answer that was given to a device under a conversation id is worth, *)
(* while the clock goes forward: its session is bound to the device's          *)
(* satellite, the id still leads to it, and it is held unless it expired since *)
(* or the store was full.                                                      *)
AnswerHolds(d, c, s, at) ==
  /\ s \in 1..minted /\ Own(s, d)
  /\ at \in Nat /\ at <= now
  /\ s \in DOMAIN sessions => sessions[s].seen >= at
  /\ c # NoName /\ s \in DOMAIN sessions => Leads(SatelliteOf[d], c, s)
  /\ minted <= Max /\ now - at <= Ttl => s \in DOMAIN sessions

ContinuesInv ==
  /\ KeysApart /\ HeldInv
  /\ DOMAIN lastOf \subseteq Devices \X ConversationIds
  /\ \A d \in Devices, c \in ConversationIds : <<d, c>> \in DOMAIN lastOf =>
       AnswerHolds(d, c, lastOf[<<d, c>>].session, lastOf[<<d, c>>].at)

(* What resolve does to the sessions that stay; without a mint none goes.      *)
LEMMA WhatStays ==
  ASSUME StoreInv, NEW d \in Devices, NEW c \in ConversationIds,
         NEW r \in 1..(minted + 1), Resolve(d, c, r)
  PROVE  /\ r \in DOMAIN sessions' => sessions'[r].seen = now
         /\ \A i \in DOMAIN sessions' : i # r =>
              i \in DOMAIN sessions /\ sessions'[i].seen = sessions[i].seen
         /\ r # minted + 1 => Unexpired \subseteq DOMAIN sessions'
         /\ minted' = IF r = minted + 1 THEN r ELSE minted
<1> DEFINE sat == SatelliteOf[d]
           ss == KeptSessions(sessions, Unexpired)
           bc == KeptKeys(byConversation, Unexpired)
<1>1. DOMAIN ss = Unexpired /\ \A i \in DOMAIN ss : i \in DOMAIN sessions /\ ss[i] = sessions[i]
  BY DEF KeptSessions, Restrict, Unexpired
<1>2. minted + 1 \notin DOMAIN sessions
  BY DEF StoreInv, TypeOK
<1> HIDE DEF ss, bc
<1>3. CASE r \in DOMAIN ss /\ Refresh(ss, bc, r)
  <2>1. sessions' = [ss EXCEPT ![r].seen = now] /\ minted' = minted
    BY <1>3 DEF Refresh
  <2> QED
    BY <1>1, <1>2, <1>3, <2>1
<1>4. CASE r = minted + 1 /\ Mint(ss, bc, sat, c, d)
  <2> DEFINE all == [i \in DOMAIN ss \cup {r} |->
                       IF i = r THEN [satellite |-> sat, seen |-> now] ELSE ss[i]]
  <2>1. sessions' = KeptSessions(all, Survivors(all)) /\ minted' = r
    BY <1>4 DEF Mint
  <2>2. \A i \in DOMAIN sessions' : i \in DOMAIN all /\ sessions'[i] = all[i]
    BY <2>1 DEF KeptSessions, Restrict
  <2>3. DOMAIN all = DOMAIN ss \cup {r} /\ all[r] = [satellite |-> sat, seen |-> now]
    OBVIOUS
  <2>4. \A i \in DOMAIN all : i # r => i \in DOMAIN ss /\ all[i] = ss[i]
    OBVIOUS
  <2> HIDE DEF all
  <2>5. r \in DOMAIN sessions' => sessions'[r].seen = now
    BY <2>2, <2>3
  <2>6. ASSUME NEW i \in DOMAIN sessions', i # r
        PROVE  i \in DOMAIN sessions /\ sessions'[i].seen = sessions[i].seen
    <3>1. i \in DOMAIN ss /\ sessions'[i] = ss[i]
      BY <2>2, <2>4, <2>6
    <3> QED
      BY <1>1, <3>1
  <2> QED
    BY <1>4, <2>1, <2>5, <2>6
<1> QED
  BY <1>3, <1>4 DEF Resolve, ByKey, BySession, ss, bc

(* An answer of before is worth as much after another request.                 *)
LEMMA AnswerKept ==
  ASSUME ~Backwards, StoreInv, ContinuesInv, [Next]_sessionVars,
         NEW d \in Devices, NEW c \in ConversationIds, NEW r \in 1..(minted + 1),
         Resolve(d, c, r), now' = now, r \in DOMAIN sessions',
         NEW e \in Devices, NEW b \in ConversationIds, NEW s, NEW at,
         AnswerHolds(e, b, s, at)
  PROVE  AnswerHolds(e, b, s, at)'
<1>1. StoreOK
  BY DEF StoreInv, StoreOK, ContinuesInv
<1>2. /\ minted \in Nat /\ minted' \in Nat /\ minted <= minted'
      /\ \A i \in 1..minted : mintedBy'[i] = mintedBy[i]
      /\ \A f \in Devices, g \in ConversationIds, i \in 1..minted :
           Own(i, f) /\ (i \in DOMAIN sessions => Leads(SatelliteOf[f], g, i))
             => (i \in DOMAIN sessions' => Leads(SatelliteOf[f], g, i)')
  BY <1>1, ResolveEffect DEF StoreInv, TypeOK
<1>3. /\ s \in 1..minted /\ s \in 1..minted' /\ Own(s, e) /\ Own(s, e)' /\ at \in Nat /\ at <= now
  BY <1>2 DEF AnswerHolds, Own
<1>4. b # NoName /\ s \in DOMAIN sessions' => Leads(SatelliteOf[e], b, s)'
  BY <1>2, <1>3 DEF AnswerHolds
<1>5. now \in Nat /\ \A i \in DOMAIN sessions : sessions[i].seen \in Nat
  BY DEF StoreInv, TypeOK
<1>6. s \in DOMAIN sessions' => sessions'[s].seen >= at
  BY <1>3, <1>5, WhatStays DEF AnswerHolds
<1>7. ASSUME minted' <= Max, now - at <= Ttl PROVE s \in DOMAIN sessions'
  <2>1. Max \in Nat /\ Ttl \in Nat
    BY SessionsAssumption
  <2>2. s \in DOMAIN sessions /\ sessions[s].seen >= at
    BY <1>2, <1>7, <2>1 DEF AnswerHolds
  <2>3. s \in Unexpired
    BY <1>3, <1>5, <1>7, <2>1, <2>2 DEF Unexpired, Expired
  <2>4. ASSUME s \notin DOMAIN sessions' PROVE FALSE
    <3>1. r = minted + 1 /\ minted' = minted + 1
      BY <2>3, <2>4, WhatStays
    <3>2. Cardinality(Unexpired) >= Max
      BY <2>3, <2>4, EvictionStep
    <3>3. Unexpired \subseteq 1..minted
      BY DEF Unexpired, StoreInv, TypeOK
    <3>4. IsFiniteSet(1..minted) /\ Cardinality(1..minted) = minted
      <4>1. /\ IsFiniteSet(1..minted)
            /\ Cardinality(1..minted) = IF 1 > minted THEN 0 ELSE minted - 1 + 1
        BY <1>2, 1 \in Int, minted \in Int, FS_Interval, Zenon
      <4> QED
        BY <1>2, <4>1
    <3>5. Cardinality(Unexpired) <= minted /\ Cardinality(Unexpired) \in Nat
      BY <3>3, <3>4, FS_Subset, FS_CardinalityType
    <3> QED
      BY <1>2, <1>7, <2>1, <3>1, <3>2, <3>5
  <2> QED
    BY <2>4
<1>8. now' - at <= Ttl => now - at <= Ttl
  OBVIOUS
<1> QED
  BY <1>3, <1>4, <1>6, <1>7, <1>8 DEF AnswerHolds

LEMMA ContinuesStep ==
  ASSUME ~Backwards, StoreInv, StoreInv', ContinuesInv, [Next]_sessionVars
  PROVE  ContinuesInv'
<1>1. CASE Clock
  <2>1. /\ now' = now + 1 /\ now \in Nat
        /\ UNCHANGED <<sessions, byConversation, minted, mintedBy, result, lastOf>>
    BY <1>1 DEF Clock, StoreInv, TypeOK
  <2>2. \A i \in DOMAIN sessions : sessions[i].seen \in Nat
    BY DEF StoreInv, TypeOK
  <2>3. HeldInv'
    BY <2>1, <2>2 DEF ContinuesInv, HeldInv, BoundedStore, SeenByNow, Held, ResultIsHeld
  <2>4. ASSUME NEW d \in Devices, NEW c \in ConversationIds, NEW s, NEW at,
               AnswerHolds(d, c, s, at)
        PROVE  AnswerHolds(d, c, s, at)'
    <3>1. at \in Nat /\ at <= now' /\ (now' - at <= Ttl => now - at <= Ttl)
      BY <2>1, <2>4, SessionsAssumption DEF AnswerHolds
    <3> QED
      BY <2>1, <2>4, <3>1 DEF AnswerHolds, Own, Leads
  <2> QED
    BY <2>1, <2>3, <2>4 DEF ContinuesInv, KeysApart, ConversationIds
<1>2. ASSUME NEW d \in Devices, NEW c \in ConversationIds, Request(d, c) PROVE ContinuesInv'
  <2>1. PICK r \in 1..(minted + 1) :
          /\ Resolve(d, c, r) /\ now' = now
          /\ result' = [device |-> d, session |-> r]
          /\ lastOf' = [k \in DOMAIN lastOf \cup {<<d, c>>} |->
               IF k = <<d, c>> THEN [session |-> r, at |-> now] ELSE lastOf[k]]
    BY <1>2 DEF Request
  <2>2. HeldInv'
    BY <1>2, RequestKeepsHeld DEF ContinuesInv
  <2>3. r \in DOMAIN sessions'
    BY <2>1, <2>2 DEF HeldInv, Held, ResultIsHeld, NoSession, StoreInv, TypeOK
  <2>4. StoreOK
    BY DEF StoreInv, StoreOK, ContinuesInv
  <2>5. /\ StoreOK' /\ minted \in Nat /\ minted' \in Nat /\ minted <= minted'
        /\ r \in 1..minted' /\ Own(r, d)' /\ (c # NoName => Leads(SatelliteOf[d], c, r)')
    BY <2>1, <2>3, <2>4, ResolveEffect DEF StoreInv, TypeOK
  <2>6. AnswerHolds(d, c, r, now)'
    BY <2>1, <2>3, <2>5, WhatStays DEF AnswerHolds, StoreInv, TypeOK
  <2>7. ConversationIds \subseteq ConversationIds'
    BY <2>5 DEF ConversationIds
  <2>8. DOMAIN lastOf' = DOMAIN lastOf \cup {<<d, c>>}
        /\ lastOf'[<<d, c>>] = [session |-> r, at |-> now]
        /\ \A k \in DOMAIN lastOf : k # <<d, c>> => lastOf'[k] = lastOf[k]
    BY <2>1
  <2>9. ASSUME NEW e \in Devices, NEW b \in ConversationIds', <<e, b>> \in DOMAIN lastOf'
        PROVE  AnswerHolds(e, b, lastOf[<<e, b>>].session, lastOf[<<e, b>>].at)'
    <3>1. CASE e = d /\ b = c
      BY <2>1, <2>6, <2>8, <3>1 DEF AnswerHolds
    <3>2. CASE <<e, b>> # <<d, c>>
      <4>1. <<e, b>> \in DOMAIN lastOf /\ b \in ConversationIds
        BY <2>8, <2>9, <3>2 DEF ContinuesInv
      <4>2. AnswerHolds(e, b, lastOf[<<e, b>>].session, lastOf[<<e, b>>].at)
        BY <4>1 DEF ContinuesInv
      <4>3. PICK s, at : s = lastOf[<<e, b>>].session /\ at = lastOf[<<e, b>>].at
        OBVIOUS
      <4>4. AnswerHolds(e, b, s, at)'
        BY <2>1, <2>3, <4>1, <4>2, <4>3, AnswerKept
      <4> QED
        BY <2>8, <3>2, <4>1, <4>3, <4>4 DEF AnswerHolds
    <3> QED
      BY <3>1, <3>2
  <2>10. DOMAIN lastOf' \subseteq Devices \X ConversationIds'
    BY <2>7, <2>8 DEF ContinuesInv
  <2> QED
    BY <2>2, <2>5, <2>9, <2>10 DEF ContinuesInv, StoreOK
<1>3. CASE UNCHANGED sessionVars
  BY <1>3 DEF sessionVars, ContinuesInv, KeysApart, HeldInv, BoundedStore, SeenByNow, Held,
     ResultIsHeld, ConversationIds, AnswerHolds, Own, Leads
<1> QED
  BY <1>1, <1>2, <1>3 DEF Next

(* A conversation continues, for any number of callers, ids and sessions:      *)
(* within the TTL of its last turn the same caller with the same conversation  *)
(* id gets the same session, unless the store was ever full, and a caller that *)
(* sends back a session it may use gets that session (resolve).                *)
THEOREM ConversationsContinue == ~Backwards => (Spec => ConversationContinues)
<1> SUFFICES ASSUME ~Backwards PROVE Spec => ConversationContinues
  OBVIOUS
<1>1. Init => ContinuesInv
  <2> SUFFICES ASSUME Init PROVE ContinuesInv
    OBVIOUS
  <2>1. /\ DOMAIN sessions = {} /\ DOMAIN byConversation = {} /\ DOMAIN lastOf = {}
        /\ result.session = NoSession
    BY DEF Init
  <2>2. Cardinality(DOMAIN sessions) <= Max
    BY <2>1, FS_EmptySet, SessionsAssumption
  <2> QED
    BY <2>1, <2>2 DEF ContinuesInv, KeysApart, HeldInv, BoundedStore, SeenByNow, Held,
       ResultIsHeld
<1>2. StoreInv /\ StoreInv' /\ ContinuesInv /\ [Next]_sessionVars => ContinuesInv'
  BY ContinuesStep
<1>3. ASSUME StoreInv, ContinuesInv, NEW d \in Devices,
             NEW conv \in ConversationIds \ {NoName}, Request(d, conv)
      PROVE  /\ /\ <<d, conv>> \in DOMAIN lastOf
                /\ now - lastOf[<<d, conv>>].at <= Ttl
                /\ minted <= Max \/ lastOf[<<d, conv>>].session \in DOMAIN sessions
                => result'.session = lastOf[<<d, conv>>].session
             /\ conv \in Unexpired /\ sessions[conv].satellite = SatelliteOf[d]
                => result'.session = conv
  <2>1. PICK r \in 1..(minted + 1) :
          Resolve(d, conv, r) /\ now' = now /\ result'.session = r
    BY <1>3 DEF Request
  <2>2. StoreOK
    BY <1>3 DEF StoreInv, StoreOK, ContinuesInv
  <2>3. \A s \in Unexpired : Own(s, d) /\ Leads(SatelliteOf[d], conv, s) => r = s
    BY <2>1, <2>2, ResolveEffect
  <2>4. ASSUME <<d, conv>> \in DOMAIN lastOf, now - lastOf[<<d, conv>>].at <= Ttl,
               minted <= Max \/ lastOf[<<d, conv>>].session \in DOMAIN sessions
        PROVE  r = lastOf[<<d, conv>>].session
    <3>1. PICK s, at : s = lastOf[<<d, conv>>].session /\ at = lastOf[<<d, conv>>].at
      OBVIOUS
    <3>2. AnswerHolds(d, conv, s, at)
      BY <1>3, <2>4, <3>1 DEF ContinuesInv
    <3>3. s \in DOMAIN sessions
      BY <2>4, <3>1, <3>2 DEF AnswerHolds
    <3>4. sessions[s].seen >= at /\ sessions[s].seen \in Nat /\ now \in Nat /\ at \in Nat
      BY <1>3, <3>2, <3>3 DEF AnswerHolds, StoreInv, TypeOK
    <3>5. s \in Unexpired
      BY <2>4, <3>1, <3>3, <3>4, SessionsAssumption DEF Unexpired, Expired
    <3> QED
      BY <2>3, <3>1, <3>2, <3>3, <3>5 DEF AnswerHolds
  <2>5. ASSUME conv \in Unexpired, sessions[conv].satellite = SatelliteOf[d]
        PROVE  r = conv
    <3>1. conv \in DOMAIN sessions /\ Own(conv, d)
      BY <1>3, <2>5 DEF Unexpired, StoreInv, HeldIsBound, Own
    <3>2. <<SatelliteOf[d], conv>> \notin DOMAIN byConversation
      BY <2>2, <2>5, <3>1 DEF StoreOK, KeysApart
    <3> QED
      BY <2>3, <2>5, <3>1, <3>2 DEF Leads
  <2> QED
    BY <2>1, <2>4, <2>5
<1>4. StoreInv /\ ContinuesInv =>
        [\A d \in Devices, conv \in ConversationIds \ {NoName} : Request(d, conv) =>
           /\ /\ <<d, conv>> \in DOMAIN lastOf
              /\ now - lastOf[<<d, conv>>].at <= Ttl
              /\ minted <= Max \/ lastOf[<<d, conv>>].session \in DOMAIN sessions
              => result'.session = lastOf[<<d, conv>>].session
           /\ conv \in Unexpired /\ sessions[conv].satellite = SatelliteOf[d]
              => result'.session = conv]_sessionVars
  BY <1>3
<1> QED
  BY <1>1, <1>2, <1>4, StoreInvHolds, PTL DEF Spec, ConversationContinues

-----------------------------------------------------------------------------
(* The store implements ConversationStore.                                 *)

\* A lookup that finds a session goes on with it, and takes no alias from any.
LEMMA RefreshContinues ==
  ASSUME TypeOK, KeysResolve, HeldIsBound,
         NEW ss, ss = KeptSessions(sessions, Unexpired),
         NEW bc, bc = KeptKeys(byConversation, Unexpired),
         NEW d \in Devices, NEW conv \in ConversationIds \ {NoName}, NEW r \in DOMAIN ss,
         r \in ByKey(ss, bc, SatelliteOf[d], conv) \/ r \in BySession(ss, SatelliteOf[d], conv),
         Refresh(ss, bc, r), result' = [device |-> d, session |-> r]
  PROVE  Conversations!Continue(SatelliteOf[d], conv, r, DOMAIN ss)
<1> DEFINE sat == SatelliteOf[d]
<1>1. /\ DOMAIN ss \subseteq DOMAIN sessions
      /\ \A i \in DOMAIN ss : ss[i] = sessions[i]
      /\ DOMAIN bc \subseteq DOMAIN byConversation
      /\ \A k \in DOMAIN bc : bc[k] = byConversation[k] /\ bc[k] \in DOMAIN ss
  BY ExpiryKeepsStore
<1>2. \A k \in DOMAIN byConversation : byConversation[k] \in DOMAIN ss => k \in DOMAIN bc
  BY DEF KeptKeys, KeptSessions, Restrict
<1>3. ss = [i \in DOMAIN ss |-> ss[i]]
  BY DEF KeptSessions, Restrict
<1>4. /\ DOMAIN sessions' = DOMAIN ss
      /\ \A i \in DOMAIN ss : sessions'[i].satellite = sessions[i].satellite
      /\ byConversation' = bc /\ minted' = minted
  <2>1. /\ sessions' = [ss EXCEPT ![r].seen = now] /\ byConversation' = bc
        /\ minted' = minted
    BY DEF Refresh
  <2>2. \A i \in DOMAIN ss : ss[i] \in [satellite : Identities, seen : Nat]
    BY <1>1 DEF TypeOK
  <2> QED
    BY <1>1, <1>3, <2>1, <2>2
<1>5. \A i \in DOMAIN ss : Aliases(i)' = Aliases(i)
  BY <1>1, <1>2, <1>4 DEF Aliases
<1>6. /\ DOMAIN HeldSessions' = DOMAIN ss
      /\ \A i \in DOMAIN ss : HeldSessions'[i] = HeldSessions[i]
  BY <1>1, <1>4, <1>5 DEF HeldSessions
<1>7. HeldSessions' = [i \in DOMAIN ss |-> HeldSessions[i]]
  <2>1. HeldSessions' = [i \in DOMAIN ss |-> HeldSessions'[i]]
    BY <1>4 DEF HeldSessions
  <2> QED
    BY <1>6, <2>1
<1>8. r \in Conversations!Found(HeldSessions, sat, conv)
  <2>1. r \in DOMAIN sessions /\ sessions[r].satellite = sat
    BY <1>1 DEF ByKey, BySession
  <2>2. conv = r \/ conv \in Aliases(r)
    <3>1. CASE r \in ByKey(ss, bc, sat, conv)
      <4>1. <<sat, conv>> \in DOMAIN byConversation /\ byConversation[<<sat, conv>>] = r
        BY <1>1, <3>1 DEF ByKey
      <4> QED
        BY <4>1 DEF Aliases
    <3>2. CASE r \in BySession(ss, sat, conv)
      BY <3>2 DEF BySession
    <3> QED
      BY <3>1, <3>2
  <2> QED
    BY <2>1, <2>2 DEF Conversations!Found, HeldSessions
<1>9. LastAnswer' = [satellite |-> sat, session |-> r]
  <2>1. r # NoSession
    BY <1>1 DEF TypeOK, NoSession
  <2> QED
    BY <2>1 DEF LastAnswer
<1> QED
  BY <1>4, <1>7, <1>8, <1>9 DEF Conversations!Continue

\* A minted session has the id it was asked for under as its only alias, and no other
\* session had that alias.
LEMMA MintBegins ==
  ASSUME TypeOK, KeysResolve, HeldIsBound,
         NEW ss, ss = KeptSessions(sessions, Unexpired),
         NEW bc, bc = KeptKeys(byConversation, Unexpired),
         NEW d \in Devices, NEW conv \in ConversationIds,
         \/ conv = NoName
         \/ ByKey(ss, bc, SatelliteOf[d], conv) = {} /\ BySession(ss, SatelliteOf[d], conv) = {},
         Mint(ss, bc, SatelliteOf[d], conv, d),
         result' = [device |-> d, session |-> minted + 1]
  PROVE  \E keep \in SUBSET DOMAIN HeldSessions :
           Conversations!Begin(SatelliteOf[d], conv, keep)
<1> DEFINE sat == SatelliteOf[d]
           new == minted + 1
           all == [i \in DOMAIN ss \cup {new} |->
                     IF i = new THEN [satellite |-> sat, seen |-> now] ELSE ss[i]]
           key == IF conv = NoName THEN {} ELSE {<<sat, conv>>}
           keys == [k \in DOMAIN bc \cup key |-> IF k \in key THEN new ELSE bc[k]]
           keep == Survivors(all)
           old == DOMAIN sessions' \ {new}
           stays == DOMAIN sessions' \cap {new}
           session == [satellite |-> sat, aliases |-> {conv} \ {NoName}]
<1>1. /\ DOMAIN ss \subseteq DOMAIN sessions
      /\ \A i \in DOMAIN ss : ss[i] = sessions[i]
      /\ DOMAIN bc \subseteq DOMAIN byConversation
      /\ \A k \in DOMAIN bc : bc[k] = byConversation[k] /\ bc[k] \in DOMAIN ss
      /\ \A k \in DOMAIN bc : ss[bc[k]].satellite = k[1]
  BY ExpiryKeepsStore
<1>2. \A k \in DOMAIN byConversation : byConversation[k] \in DOMAIN ss => k \in DOMAIN bc
  BY DEF KeptKeys, KeptSessions, Restrict
<1>3. minted \in Nat /\ new \notin DOMAIN sessions /\ minted' = new
  BY DEF TypeOK, Mint
<1>4. /\ DOMAIN sessions' = (DOMAIN ss \cup {new}) \cap keep
      /\ \A i \in DOMAIN sessions' : sessions'[i] = all[i]
  <2>1. sessions' = KeptSessions(all, keep)
    BY DEF Mint
  <2> HIDE DEF keep
  <2> QED  BY <2>1 DEF KeptSessions, Restrict
<1>5. /\ DOMAIN byConversation' = {k \in DOMAIN bc \cup key : keys[k] \in keep}
      /\ \A k \in DOMAIN byConversation' : byConversation'[k] = keys[k]
  <2>1. byConversation' = KeptKeys(keys, keep)
    BY DEF Mint
  <2> HIDE DEF keep, key
  <2> QED  BY <2>1 DEF KeptKeys, Restrict
<1> HIDE DEF keep
\* The key was free: what it led to would have been found.
<1>6. key \cap DOMAIN bc = {}
  <2>1. ASSUME conv # NoName, <<sat, conv>> \in DOMAIN bc PROVE FALSE
    <3>1. bc[<<sat, conv>>] \in ByKey(ss, bc, sat, conv)
      BY <1>1, <2>1 DEF ByKey
    <3> QED
      BY <2>1, <3>1
  <2> QED
    BY <2>1
<1>7. /\ \A k \in DOMAIN byConversation' : /\ byConversation'[k] \in keep
                                           /\ \/ k \in DOMAIN bc /\ byConversation'[k] = bc[k]
                                              \/ k \in key /\ byConversation'[k] = new
      /\ \A k \in DOMAIN bc : bc[k] \in keep =>
           (k \in DOMAIN byConversation' /\ byConversation'[k] = bc[k])
      /\ new \in keep => \A k \in key : k \in DOMAIN byConversation' /\ byConversation'[k] = new
  <2>1. \A k \in key : keys[k] = new
    OBVIOUS
  <2>2. \A k \in DOMAIN bc : keys[k] = bc[k]
    BY <1>6
  <2> HIDE DEF keys, key, new
  <2>3. \A k \in DOMAIN byConversation' :
          /\ byConversation'[k] = keys[k] /\ keys[k] \in keep
          /\ k \in DOMAIN bc \/ k \in key
    BY <1>5
  <2>4. \A k \in DOMAIN bc \cup key : keys[k] \in keep =>
          (k \in DOMAIN byConversation' /\ byConversation'[k] = keys[k])
    BY <1>5
  <2> QED
    BY <2>1, <2>2, <2>3, <2>4
<1>8. \A i \in old : i \in DOMAIN ss /\ i \in keep /\ i # new /\ sessions'[i] = sessions[i]
  BY <1>1, <1>4
<1> HIDE DEF keys
<1>9. ASSUME NEW i \in old PROVE Aliases(i)' = Aliases(i)
  <2>1. \A k : (k \in DOMAIN byConversation' /\ byConversation'[k] = i)
                 <=> (k \in DOMAIN byConversation /\ byConversation[k] = i)
    <3> HIDE DEF old, key, new
    <3> QED
      BY <1>1, <1>2, <1>7, <1>8
  <2> HIDE DEF old
  <2> QED
    BY <2>1 DEF Aliases
<1>10. ASSUME NEW n, n = new, n \in keep PROVE Aliases(n)' = {conv} \ {NoName}
  <2>1. \A k \in DOMAIN bc : bc[k] # new
    BY <1>1, <1>3
  <2>2. \A k : (k \in DOMAIN byConversation' /\ byConversation'[k] = new) <=> k \in key
    <3> HIDE DEF key, new
    <3> QED
      BY <1>7, <1>10, <2>1
  <2>3. Aliases(n)' = {k[2] : k \in key}
    <3>1. {k \in DOMAIN byConversation' : byConversation'[k] = n} = key
      <4> HIDE DEF key, new
      <4> QED  BY <1>10, <2>2
    <3> HIDE DEF key, new
    <3> QED  BY <3>1 DEF Aliases
  <2>4. CASE conv = NoName
    BY <2>3, <2>4
  <2>5. CASE conv # NoName
    BY <2>3, <2>5
  <2> QED
    BY <2>4, <2>5
<1>11. \A i \in old \cup stays :
         HeldSessions'[i] = IF i = new THEN session ELSE HeldSessions[i]
  <2>1. ASSUME NEW i \in old PROVE HeldSessions'[i] = HeldSessions[i] /\ i # new
    BY <1>1, <1>8, <1>9, <2>1 DEF HeldSessions
  <2>2. ASSUME NEW n \in stays PROVE HeldSessions'[n] = session /\ n = new
    <3>1. all[new] = [satellite |-> sat, seen |-> now]
      OBVIOUS
    <3>2. n = new /\ n \in DOMAIN sessions'
      BY <2>2
    <3> HIDE DEF all, new, sat, stays
    <3>3. sessions'[n].satellite = sat /\ n \in keep
      BY <1>4, <3>1, <3>2
    <3>4. Aliases(n)' = {conv} \ {NoName}
      BY <1>10, <3>2, <3>3
    <3> QED
      BY <3>2, <3>3, <3>4 DEF HeldSessions
  <2> HIDE DEF old, stays, session, new
  <2> QED
    BY <2>1, <2>2
<1>12. HeldSessions' = [i \in old \cup stays |-> IF i = new THEN session ELSE HeldSessions[i]]
  <2>1. HeldSessions' = [i \in old \cup stays |-> HeldSessions'[i]]
    <3>1. DOMAIN sessions' = old \cup stays
      OBVIOUS
    <3> HIDE DEF old, stays
    <3> QED  BY <3>1 DEF HeldSessions
  <2> HIDE DEF old, stays, session, new
  <2> QED
    BY <1>11, <2>1
<1>13. conv = NoName \/ Conversations!Found(HeldSessions, sat, conv) \cap old = {}
  <2> SUFFICES ASSUME conv # NoName, NEW i \in old,
                      i \in Conversations!Found(HeldSessions, sat, conv)
               PROVE  FALSE
    OBVIOUS
  <2>1. i \in DOMAIN ss /\ ss[i].satellite = sat /\ (conv = i \/ conv \in Aliases(i))
    BY <1>1, <1>8 DEF Conversations!Found, HeldSessions
  <2>2. CASE conv = i
    BY <2>1, <2>2 DEF BySession
  <2>3. CASE conv \in Aliases(i)
    <3>1. PICK k \in DOMAIN byConversation : byConversation[k] = i /\ k[2] = conv
      BY <2>3 DEF Aliases
    <3>2. k \in DOMAIN bc /\ bc[k] = i /\ k[1] = sat
      BY <1>1, <1>2, <2>1, <3>1
    <3>3. k = <<k[1], k[2]>>
      BY DEF TypeOK
    <3>4. i \in ByKey(ss, bc, sat, conv)
      BY <2>1, <3>1, <3>2, <3>3 DEF ByKey
    <3> QED
      BY <3>4
  <2> QED
    BY <2>1, <2>2, <2>3
<1>14. LastAnswer' = [satellite |-> sat, session |-> new]
  BY <1>3 DEF LastAnswer, NoSession
<1>15. old \in SUBSET DOMAIN HeldSessions /\ stays \in SUBSET {new}
  BY <1>1, <1>8 DEF HeldSessions
<1> HIDE DEF old, stays
<1>16. Conversations!Begin(sat, conv, old)
  BY <1>3, <1>12, <1>13, <1>14, <1>15 DEF Conversations!Begin
<1> QED
  BY <1>15, <1>16

LEMMA RequestIsConversation ==
  ASSUME StoreInv, NEW d \in Devices, NEW conv \in ConversationIds, Request(d, conv)
  PROVE  Conversations!Next
<1> DEFINE sat == SatelliteOf[d]
           ss == KeptSessions(sessions, Unexpired)
           bc == KeptKeys(byConversation, Unexpired)
<1>1. PICK r \in 1..(minted + 1) : Resolve(d, conv, r) /\ result' = [device |-> d, session |-> r]
  BY DEF Request
<1>2. sat \in Identities /\ conv \in Conversations!ConversationIds
  BY SessionsAssumption DEF ConversationIds, Conversations!ConversationIds
<1>3. DOMAIN ss \in SUBSET DOMAIN HeldSessions
  BY DEF HeldSessions, KeptSessions, Restrict
<1> HIDE DEF ss, bc
<1>4. CASE /\ conv # NoName /\ Refresh(ss, bc, r)
           /\ r \in ByKey(ss, bc, sat, conv) \/ r \in BySession(ss, sat, conv)
  <2>1. r \in DOMAIN ss
    BY <1>4 DEF ByKey, BySession
  <2>2. Conversations!Continue(sat, conv, r, DOMAIN ss)
    BY <1>1, <1>4, <2>1, RefreshContinues DEF StoreInv, ss, bc
  <2> QED
    BY <1>2, <1>3, <2>1, <2>2 DEF Conversations!Next
<1>5. CASE /\ r = minted + 1 /\ Mint(ss, bc, sat, conv, d)
           /\ \/ conv = NoName
              \/ ByKey(ss, bc, sat, conv) = {} /\ BySession(ss, sat, conv) = {}
  <2>1. \E keep \in SUBSET DOMAIN HeldSessions : Conversations!Begin(sat, conv, keep)
    BY <1>1, <1>5, MintBegins DEF StoreInv, ss, bc
  <2> QED
    BY <1>2, <2>1 DEF Conversations!Next
<1> QED
  BY <1>1, <1>4, <1>5 DEF Resolve, ss, bc

(* For any callers, clock and capacity, the session store does what a store of *)
(* sessions with aliases of their own does: a key or a session id finds only a *)
(* session of the caller's own identity, and else a new one is minted          *)
(* (resolve, _forget).                                                         *)
THEOREM StoreImplementsConversations == Spec => ImplementsConversations
<1>1. Init => Conversations!Init
  BY DEF Init, Conversations!Init, HeldSessions, LastAnswer, NoSession
<1>2. StoreInv /\ [Next]_sessionVars => [Conversations!Next]_(Conversations!storeVars)
  <2> SUFFICES ASSUME StoreInv, [Next]_sessionVars
               PROVE  [Conversations!Next]_(Conversations!storeVars)
    OBVIOUS
  <2>1. CASE \E d \in Devices, conv \in ConversationIds : Request(d, conv)
    BY <2>1, RequestIsConversation
  <2>2. CASE Clock \/ UNCHANGED sessionVars
    BY <2>2 DEF Clock, sessionVars, Conversations!storeVars, HeldSessions, Aliases, LastAnswer
  <2> QED
    BY <2>1, <2>2 DEF Next
<1> QED
  BY <1>1, <1>2, StoreInvHolds, PTL
     DEF Spec, ImplementsConversations, Conversations!Spec
=============================================================================
