---------------------------- MODULE ScoringProofs ---------------------------
(***************************************************************************)
(* Proofs about the scoring of a candidate, for any schemas, cases and     *)
(* replies, any number of streams and however long they take.              *)
(***************************************************************************)
EXTENDS Scoring, FiniteSetTheorems, TLAPS

-----------------------------------------------------------------------------
(* Types, and what the steps of the latency case leave alone.              *)

StreamTypes ==
  [at : {"unsent", "open", "ended", "failed"}, started : Nat,
   ttft : Nat \cup {None}, total : Nat \cup {None},
   tokens : Nat \cup {None}, cut : BOOLEAN, reasons : BOOLEAN]

LEMMA Sizes == /\ Warm \in Nat \ {0} /\ Concurrent \in Nat /\ MaxTime \in Nat
               /\ Tokens \subseteq Nat /\ Cuts \subseteq BOOLEAN
BY ScoringAssumption

LEMMA SomeStreams == Streams # {} /\ 0..Warm \subseteq Streams /\ Together \subseteq Streams
BY Sizes DEF Streams, Together

\* Marks are counted one by one, from Nat to Nat.
LEMMA CountedMarks ==
  ASSUME tally \in [Cases -> [Marks -> Nat]], NEW kind \in Cases, NEW marks,
         tally' = Counted(kind, marks)
  PROVE  /\ tally' \in [Cases -> [Marks -> Nat]]
         /\ \A c \in Cases : c # kind => tally'[c] = tally[c]
         /\ \A mark \in Marks :
              tally'[kind][mark] = tally[kind][mark] + (IF mark \in marks THEN 1 ELSE 0)
<1>1. tally[kind] \in [Marks -> Nat]
  OBVIOUS
<1>2. [mark \in Marks |-> tally[kind][mark] + (IF mark \in marks THEN 1 ELSE 0)]
        \in [Marks -> Nat]
  BY <1>1
<1> QED
  BY <1>2 DEF Counted

LEMMA EndedAreFew == IsFiniteSet(Ended) /\ Cardinality(Ended) \in Nat
<1>1. IsFiniteSet(Streams)
  BY FS_Interval, Sizes DEF Streams
<1> QED
  BY <1>1, FS_Subset, FS_CardinalityType DEF Ended

LEMMA FlaggedAreFew == ASSUME NEW field PROVE Flagged(field) \in Nat
BY EndedAreFew, FS_Subset, FS_CardinalityType DEF Flagged

-----------------------------------------------------------------------------
(* The streams of the latency case.                                        *)

\* What is known of one stream: it began in the case, its first token came after that, and
\* what it took is over.
StreamOK(s) ==
  /\ stream[s].started <= clock
  /\ stream[s].ttft # None => stream[s].started + stream[s].ttft <= clock
  /\ stream[s].at = "ended" =>
       /\ stream[s].total \in Nat
       /\ stream[s].started + stream[s].total <= clock
       /\ stream[s].ttft # None => stream[s].ttft <= stream[s].total

\* A stream is opened when those of cold and warm before it are over, and after them.
InTurn(r, s) ==
  /\ Over(r)
  /\ stream[r].at = "ended" => stream[r].started + stream[r].total <= stream[s].started

LatencyInv ==
  /\ stream \in [Streams -> StreamTypes]
  /\ clock \in 0..MaxTime
  /\ \A s \in Streams : StreamOK(s)
  /\ \A r \in 0..Warm, s \in Streams : r < s /\ stream[s].at # "unsent" => InTurn(r, s)
  /\ \A r, s \in Together : stream[r].at = "unsent" => stream[s].at = "unsent"

\* One stream goes on in its time; it was opened before, and is not opened again.
LEMMA OneGoesOn ==
  ASSUME LatencyInv, NEW s \in Streams, stream[s].at = "open", NEW new \in StreamTypes,
         new.started = stream[s].started, new.at # "unsent",
         stream' = [stream EXCEPT ![s] = new], clock' = clock,
         StreamOK(s)'
  PROVE  LatencyInv'
<1>1. /\ stream' \in [Streams -> StreamTypes] /\ stream'[s] = new
      /\ \A r \in Streams : r # s => stream'[r] = stream[r]
  BY DEF LatencyInv
<1>2. \A r \in Streams : StreamOK(r)'
  BY <1>1 DEF LatencyInv, StreamOK
<1>3. ASSUME NEW r \in 0..Warm, NEW t \in Streams, r < t, stream'[t].at # "unsent"
      PROVE  InTurn(r, t)'
  <2>1. stream[t].at # "unsent" /\ stream'[t].started = stream[t].started
    BY <1>1, <1>3
  <2>2. InTurn(r, t) /\ r \in Streams
    BY <1>3, <2>1, SomeStreams DEF LatencyInv
  <2>3. r # s
    BY <2>2 DEF InTurn, Over
  <2> QED
    BY <1>1, <2>1, <2>2, <2>3 DEF InTurn, Over
<1>4. \A r, t \in Together : stream'[r].at = "unsent" => stream'[t].at = "unsent"
  BY <1>1, SomeStreams DEF LatencyInv
<1> QED
  BY <1>1, <1>2, <1>3, <1>4 DEF LatencyInv

LEMMA StreamKeeps ==
  ASSUME LatencyInv, NEW s \in Streams, StreamStep(s)
  PROVE  LatencyInv'
<1>1. /\ stream[s] \in StreamTypes /\ clock \in Nat /\ StreamOK(s)
      /\ stream \in [Streams -> StreamTypes]
  BY Sizes DEF LatencyInv
<1>2. stream[s].started \in Nat /\ clock - stream[s].started \in Nat
  BY <1>1 DEF StreamTypes, StreamOK
<1>3. ASSUME NEW reasons \in BOOLEAN, Content(s, reasons) PROVE LatencyInv'
  <2> DEFINE new == [stream[s] EXCEPT
                       !.ttft = IF @ = None THEN clock - stream[s].started ELSE @,
                       !.reasons = @ \/ reasons]
  <2>1. stream' = [stream EXCEPT ![s] = new] /\ clock' = clock /\ stream[s].at = "open"
    BY <1>1, <1>3 DEF Content
  <2>2. new \in StreamTypes /\ new.started = stream[s].started /\ new.at = "open"
    BY <1>1, <1>2, <2>1 DEF StreamTypes
  <2>3. new.ttft # None => new.started + new.ttft <= clock
    BY <1>1, <2>1 DEF StreamTypes, StreamOK
  <2>4. stream'[s] = new
    BY <1>1, <2>1
  <2> HIDE DEF new
  <2>5. StreamOK(s)'
    BY <1>1, <2>1, <2>2, <2>3, <2>4 DEF StreamOK
  <2> QED
    BY <2>1, <2>2, <2>5, OneGoesOn
<1>4. CASE ReasoningField(s)
  BY <1>4 DEF ReasoningField, LatencyInv, StreamOK, InTurn, Over
<1>5. ASSUME NEW cut \in BOOLEAN, Finishes(s, cut) PROVE LatencyInv'
  <2> DEFINE new == [stream[s] EXCEPT !.cut = cut]
  <2>1. /\ stream' = [stream EXCEPT ![s] = new] /\ clock' = clock /\ stream[s].at = "open"
        /\ new \in StreamTypes /\ new.started = stream[s].started /\ new.at = "open"
        /\ new.ttft = stream[s].ttft
    BY <1>1, <1>5 DEF Finishes, StreamTypes
  <2>2. stream'[s] = new
    BY <1>1, <2>1
  <2> HIDE DEF new
  <2>3. StreamOK(s)'
    BY <1>1, <2>1, <2>2 DEF StreamOK
  <2> QED
    BY <2>1, <2>3, OneGoesOn
<1>6. ASSUME NEW n \in Nat, Usage(s, n) PROVE LatencyInv'
  <2> DEFINE new == [stream[s] EXCEPT !.tokens = n]
  <2>1. /\ stream' = [stream EXCEPT ![s] = new] /\ clock' = clock /\ stream[s].at = "open"
        /\ new \in StreamTypes /\ new.started = stream[s].started /\ new.at = "open"
        /\ new.ttft = stream[s].ttft
    BY <1>1, <1>6, Sizes DEF Usage, StreamTypes
  <2>2. stream'[s] = new
    BY <1>1, <2>1
  <2> HIDE DEF new
  <2>3. StreamOK(s)'
    BY <1>1, <2>1, <2>2 DEF StreamOK
  <2> QED
    BY <2>1, <2>3, OneGoesOn
<1>7. CASE StreamEnds(s)
  <2> DEFINE new == [stream[s] EXCEPT !.at = "ended", !.total = clock - stream[s].started]
  <2>1. stream' = [stream EXCEPT ![s] = new] /\ clock' = clock /\ stream[s].at = "open"
    BY <1>1, <1>7 DEF StreamEnds
  <2>2. /\ new \in StreamTypes /\ new.started = stream[s].started /\ new.at = "ended"
        /\ new.ttft = stream[s].ttft /\ new.total = clock - stream[s].started
    BY <1>1, <1>2, <2>1 DEF StreamTypes
  <2>3. stream'[s] = new
    BY <1>1, <2>1
  <2> HIDE DEF new
  <2>4. StreamOK(s)'
    BY <1>1, <2>1, <2>2, <2>3 DEF StreamOK, StreamTypes
  <2> QED
    BY <2>1, <2>2, <2>4, OneGoesOn
<1>8. CASE StreamFails(s)
  <2> DEFINE new == [stream[s] EXCEPT !.at = "failed"]
  <2>1. /\ stream' = [stream EXCEPT ![s] = new] /\ clock' = clock /\ stream[s].at = "open"
        /\ new \in StreamTypes /\ new.started = stream[s].started /\ new.at = "failed"
        /\ new.ttft = stream[s].ttft
    BY <1>1, <1>8 DEF StreamFails, StreamTypes
  <2>2. stream'[s] = new
    BY <1>1, <2>1
  <2> HIDE DEF new
  <2>3. StreamOK(s)'
    BY <1>1, <2>1, <2>2 DEF StreamOK
  <2> QED
    BY <2>1, <2>3, OneGoesOn
<1> QED
  BY <1>3, <1>4, <1>5, <1>6, <1>7, <1>8, Sizes DEF StreamStep

\* Streams are opened when those before them are over.
LEMMA OpenKeeps ==
  ASSUME LatencyInv, NEW new \in SUBSET Streams,
         \A s \in new : stream[s].at = "unsent",
         \A s \in new, r \in 0..Warm : r < s => Over(r),
         stream' = [s \in Streams |-> IF s \in new THEN Opened(s) ELSE stream[s]],
         clock' = clock, new \cap Together \in {{}, Together}
  PROVE  LatencyInv'
<1>1. /\ clock \in Nat /\ stream \in [Streams -> StreamTypes]
      /\ \A s \in Streams : StreamOK(s)
  BY Sizes DEF LatencyInv
<1>2. \A s \in Streams : /\ Opened(s) \in StreamTypes /\ Opened(s).started = clock
                          /\ Opened(s).at = "open" /\ Opened(s).ttft = None
  BY <1>1 DEF Opened, Unsent, StreamTypes
<1>3. /\ stream' \in [Streams -> StreamTypes]
      /\ \A s \in new : stream'[s] = Opened(s)
      /\ \A s \in Streams \ new : stream'[s] = stream[s]
  BY <1>1, <1>2
<1>4. ASSUME NEW s \in Streams PROVE StreamOK(s)'
  BY <1>1, <1>2, <1>3 DEF StreamOK
<1>5. ASSUME NEW r \in 0..Warm, NEW s \in Streams, r < s, stream'[s].at # "unsent"
      PROVE  InTurn(r, s)'
  <2>1. r \in Streams
    BY SomeStreams
  <2>2. Over(r)
    BY <1>3, <1>5 DEF LatencyInv, InTurn
  <2>3. r \notin new /\ stream'[r] = stream[r]
    BY <1>3, <2>1, <2>2 DEF Over
  <2>4. CASE s \in new
    BY <1>1, <1>2, <1>3, <2>1, <2>2, <2>3, <2>4 DEF InTurn, Over, StreamOK
  <2>5. CASE s \notin new
    BY <1>3, <1>5, <2>3, <2>5 DEF InTurn, Over, LatencyInv
  <2> QED
    BY <2>4, <2>5
<1>6. ASSUME NEW r \in Together, NEW s \in Together, stream'[r].at = "unsent"
      PROVE  stream'[s].at = "unsent"
  <2>1. r \notin new
    BY <1>2, <1>3, <1>6, SomeStreams
  <2> QED
    BY <1>3, <1>6, <2>1, SomeStreams DEF LatencyInv
<1> QED
  BY <1>1, <1>3, <1>4, <1>5, <1>6 DEF LatencyInv

LEMMA LatencyKeeps ==
  ASSUME LatencyInv, [Next]_scoringVars
  PROVE  LatencyInv'
<1>1. /\ clock \in Nat /\ MaxTime \in Nat /\ Warm \in Nat /\ Concurrent \in Nat
      /\ stream \in [Streams -> StreamTypes]
  BY Sizes DEF LatencyInv
<1>2. CASE OpenNext
  <2>1. PICK s \in 0..Warm : /\ stream[s].at = "unsent" /\ clock' = clock
                             /\ \A r \in 0..(s - 1) : Over(r)
                             /\ stream' = [stream EXCEPT ![s] = Opened(s)]
    BY <1>2 DEF OpenNext
  <2>2. /\ {s} \in SUBSET Streams /\ {s} \cap Together = {}
        /\ \A r \in 0..Warm : r < s => r \in 0..(s - 1)
    BY <1>1, SomeStreams DEF Together
  <2>3. stream' = [t \in Streams |-> IF t \in {s} THEN Opened(t) ELSE stream[t]]
    BY <1>1, <2>1
  <2> QED
    BY <2>1, <2>2, <2>3, OpenKeeps
<1>3. CASE OpenTogether
  <2>1. /\ \A s \in Together : stream[s].at = "unsent"
        /\ \A r \in 0..Warm : Over(r)
        /\ stream' = [s \in Streams |-> IF s \in Together THEN Opened(s) ELSE stream[s]]
        /\ clock' = clock
    BY <1>3 DEF OpenTogether, LatencyInv
  <2> QED
    BY <2>1, SomeStreams, OpenKeeps
<1>4. CASE LatencyDone
  <2>1. stream' = [s \in Streams |-> Unsent] /\ clock' = 0
    BY <1>4 DEF LatencyDone
  <2>2. Unsent \in StreamTypes /\ Unsent.at = "unsent" /\ Unsent.started = 0 /\ Unsent.ttft = None
    BY DEF Unsent, StreamTypes
  <2>3. /\ stream' \in [Streams -> StreamTypes] /\ clock' \in 0..MaxTime
        /\ \A s \in Streams : stream'[s] = Unsent
    BY <1>1, <2>1, <2>2
  <2>4. \A s \in Streams : StreamOK(s)'
    BY <2>1, <2>2, <2>3 DEF StreamOK
  <2> QED
    BY <2>2, <2>3, <2>4, SomeStreams DEF LatencyInv
<1>5. CASE Tick
  <2>1. clock' = clock + 1 /\ stream' = stream /\ clock < MaxTime
    BY <1>5 DEF Tick
  <2>2. \A s \in Streams : StreamOK(s)'
    BY <1>1, <2>1 DEF LatencyInv, StreamOK, StreamTypes
  <2> QED
    BY <1>1, <2>1, <2>2 DEF LatencyInv, InTurn, Over
<1>6. CASE UNCHANGED <<stream, clock>>
  BY <1>6 DEF LatencyInv, StreamOK, InTurn, Over
<1>7. ASSUME NEW s \in Streams, StreamStep(s) PROVE LatencyInv'
  BY <1>7, StreamKeeps
<1>8. ASSUME NEW reply, Replied(reply) PROVE UNCHANGED <<stream, clock>>
  BY <1>8 DEF Replied
<1>9. RequestFails \/ ReplyRaises \/ Finished \/ UNCHANGED scoringVars
        => UNCHANGED <<stream, clock>>
  BY DEF RequestFails, ReplyRaises, Finished, scoringVars
<1> QED
  BY <1>2, <1>3, <1>4, <1>5, <1>6, <1>7, <1>8, <1>9 DEF Next

LEMMA LatencyInit == Init => LatencyInv
<1> SUFFICES ASSUME Init PROVE LatencyInv
  OBVIOUS
<1>1. stream = [s \in Streams |-> Unsent] /\ clock = 0
  BY DEF Init
<1>2. Unsent \in StreamTypes /\ Unsent.at = "unsent" /\ Unsent.started = 0 /\ Unsent.ttft = None
  BY DEF Unsent, StreamTypes
<1>3. \A s \in Streams : stream[s] = Unsent
  BY <1>1
<1>4. \A s \in Streams : StreamOK(s)
  BY <1>1, <1>2, <1>3 DEF StreamOK
<1> QED
  BY <1>1, <1>2, <1>3, <1>4, SomeStreams, Sizes DEF LatencyInv

\* The times the report prints of a stream are its own, and no second is counted for two
\* streams that ran one after the other (_stream, latency.run).
THEOREM TimesStayOwn == Spec => []TimesAreOwn
<1>1. LatencyInv => TimesAreOwn
  <2> SUFFICES ASSUME LatencyInv PROVE TimesAreOwn
    OBVIOUS
  <2>1. ASSUME NEW s \in Ended
        PROVE  /\ stream[s].ttft = None \/ stream[s].ttft <= stream[s].total
               /\ Rate(stream[s]) = None \/ Rate(stream[s]).time > 0
               /\ stream[s].started + stream[s].total <= clock
    <3>1. /\ stream[s] \in StreamTypes /\ StreamOK(s) /\ stream[s].at = "ended"
      BY <2>1 DEF LatencyInv, Ended
    <3>2. stream[s].ttft # None => stream[s].ttft \in Nat
      BY <3>1 DEF StreamTypes
    <3>3. ASSUME Rate(stream[s]) # None PROVE Rate(stream[s]).time > 0
      <4>1. /\ stream[s].ttft # None /\ ~(stream[s].total <= stream[s].ttft)
            /\ Rate(stream[s]).time = stream[s].total - stream[s].ttft
        BY <3>3 DEF Rate
      <4> QED
        BY <3>1, <3>2, <4>1 DEF StreamOK
    <3> QED
      BY <3>1, <3>3 DEF StreamOK
  <2>2. ASSUME NEW r \in Ended \cap 0..Warm, NEW s \in Streams, r < s,
               stream[s].at # "unsent"
        PROVE  stream[r].started + stream[r].total <= stream[s].started
    BY <2>2 DEF LatencyInv, InTurn, Ended
  <2> QED
    BY <2>1, <2>2 DEF TimesAreOwn
<1> QED
  BY <1>1, LatencyInit, LatencyKeeps, PTL DEF Spec

-----------------------------------------------------------------------------
(* The counters.                                                           *)

\* What a step does to the counters: nothing, the sums of the latency case, or one more
\* record of a quality case.
LEMMA TallyFrame ==
  ASSUME [Next]_scoringVars
  PROVE  \/ tally' = tally
         \/ LatencyDone
         \/ RequestFails
         \/ \E reply : Replied(reply)
<1>1. OpenNext \/ OpenTogether \/ Tick \/ ReplyRaises \/ Finished \/ UNCHANGED scoringVars
        => tally' = tally
  BY DEF OpenNext, OpenTogether, Tick, ReplyRaises, Finished, scoringVars
<1>2. ASSUME NEW s \in Streams, StreamStep(s) PROVE tally' = tally
  BY <1>2 DEF StreamStep, Content, ReasoningField, Finishes, Usage, StreamEnds, StreamFails
<1> QED
  BY <1>1, <1>2 DEF Next

\* A record adds one to each of its marks, whatever it is of.
LEMMA CountedRecord ==
  ASSUME tally \in [Cases -> [Marks -> Nat]]
  PROVE  /\ RequestFails =>
              stage \in DOMAIN CaseList /\ tally' = Counted(stage, {"case"})
         /\ \A reply : Replied(reply) =>
              LET case == CaseList[stage][asked + 1] IN
              /\ stage \in DOMAIN CaseList /\ reply \in Replies[stage]
              /\ ~Unforeseen(stage, reply)
              /\ tally' = Counted(stage, {"case"} \cup MarksOf(stage, case, reply)
                                         \cup ReplyMarks(reply))
BY DEF RequestFails, Replied, Quality, CaseList

\* The sums of the latency case take the place of its three counters.
LEMMA LatencySums ==
  ASSUME tally \in [Cases -> [Marks -> Nat]], LatencyDone
  PROVE  /\ tally' \in [Cases -> [Marks -> Nat]]
         /\ \A c \in Cases \ {"latency"} : tally'[c] = tally[c]
         /\ tally'["latency"]["reasoning"] = Flagged("reasons")
         /\ \A mark \in Marks \ {"case", "reasoning", "truncated"} :
              tally'["latency"][mark] = tally["latency"][mark]
<1>1. Cardinality(Ended) \in Nat /\ Flagged("reasons") \in Nat /\ Flagged("cut") \in Nat
  BY EndedAreFew, FlaggedAreFew
<1> DEFINE old == tally["latency"]
           sums == [[[old EXCEPT !["case"] = Cardinality(Ended)]
                           EXCEPT !["reasoning"] = Flagged("reasons")]
                           EXCEPT !["truncated"] = Flagged("cut")]
<1>2. old \in [Marks -> Nat] /\ {"case", "reasoning", "truncated"} \subseteq Marks
  BY DEF Cases, Marks
<1>3. /\ sums \in [Marks -> Nat]
      /\ sums["reasoning"] = Flagged("reasons")
      /\ \A mark \in Marks \ {"case", "reasoning", "truncated"} : sums[mark] = old[mark]
  BY <1>1, <1>2
<1>4. tally' = [tally EXCEPT !["latency"] = sums]
  BY <1>2 DEF LatencyDone, Cases
<1> HIDE DEF sums
<1> QED
  BY <1>3, <1>4 DEF Cases

LEMMA TallyTypes ==
  ASSUME tally \in [Cases -> [Marks -> Nat]], [Next]_scoringVars
  PROVE  tally' \in [Cases -> [Marks -> Nat]]
<1>1. CASE LatencyDone
  BY <1>1, LatencySums
<1>2. DOMAIN CaseList \subseteq Cases
  BY DEF CaseList, Cases
<1>3. CASE RequestFails
  BY <1>2, <1>3, CountedRecord, CountedMarks
<1>4. ASSUME NEW reply, Replied(reply) PROVE tally' \in [Cases -> [Marks -> Nat]]
  BY <1>2, <1>4, CountedRecord, CountedMarks
<1> QED
  BY <1>1, <1>3, <1>4, TallyFrame

\* Where the scoring goes on after a request.
LEMMA AskedNext ==
  ASSUME Quality, asked \in Nat, AskNext
  PROVE  /\ asked' \in Nat
         /\ \/ stage' = stage /\ asked' = asked + 1 /\ asked' < Len(CaseList[stage])
            \/ /\ stage' = Following[stage] /\ asked' = 0
               /\ ~(asked + 1 < Len(CaseList[stage]))
BY DEF AskNext

LEMMA StageTypes ==
  ASSUME stage \in Cases \cup {"scored", "error"}, asked \in Nat, [Next]_scoringVars
  PROVE  stage' \in Cases \cup {"scored", "error"} /\ asked' \in Nat
<1>1. Quality => stage \in DOMAIN Following /\ Following[stage] \in Cases \cup {"scored", "error"}
  BY DEF Quality, Following, Cases
<1>2. Quality /\ AskNext => stage' \in Cases \cup {"scored", "error"} /\ asked' \in Nat
  BY <1>1, AskedNext
<1>3. OpenNext \/ OpenTogether \/ Tick \/ Finished \/ UNCHANGED scoringVars
        => stage' = stage /\ asked' = asked
  BY DEF OpenNext, OpenTogether, Tick, Finished, scoringVars
<1>4. LatencyDone \/ ReplyRaises => stage' \in Cases \cup {"scored", "error"} /\ asked' = asked
  BY DEF LatencyDone, ReplyRaises, Cases
<1>5. ASSUME NEW s \in Streams, StreamStep(s) PROVE stage' \in {stage, "error"} /\ asked' = asked
  BY <1>5 DEF StreamStep, Content, ReasoningField, Finishes, Usage, StreamEnds, StreamFails
<1>6. RequestFails => Quality /\ AskNext
  BY DEF RequestFails
<1>7. ASSUME NEW reply, Replied(reply) PROVE Quality /\ AskNext
  BY <1>7 DEF Replied
<1> QED
  BY <1>2, <1>3, <1>4, <1>5, <1>6, <1>7 DEF Next

\* Who reasons in a step, and where that is recorded.
LEMMA ReasonedFrame ==
  ASSUME [Next]_scoringVars
  PROVE  \/ reasoned' = reasoned
         \/ reasoned' = reasoned \cup {<<"stream", "field">>}
         \/ \E s \in Streams : StreamEnds(s) /\ reasoned' = reasoned \cup {<<"stream", "content">>}
                              /\ stream[s].reasons
         \/ \E reply \in ToolReplies \cup GroundingReplies \cup ClassifierReplies :
              /\ Replied(reply) /\ reply.reasons # "no"
              /\ reasoned' = reasoned \cup {<<"reply", reply.reasons>>}
<1>1. OpenNext \/ OpenTogether \/ LatencyDone \/ Tick \/ RequestFails \/ ReplyRaises \/ Finished
        \/ UNCHANGED scoringVars => reasoned' = reasoned
  BY DEF OpenNext, OpenTogether, LatencyDone, Tick, RequestFails, ReplyRaises, Finished, scoringVars
<1>2. ASSUME NEW s \in Streams, StreamStep(s)
      PROVE  \/ reasoned' = reasoned
             \/ reasoned' = reasoned \cup {<<"stream", "field">>}
             \/ StreamEnds(s) /\ reasoned' = reasoned \cup {<<"stream", "content">>}
                              /\ stream[s].reasons
  BY <1>2 DEF StreamStep, Content, ReasoningField, Finishes, Usage, StreamEnds, StreamFails
<1>3. ASSUME NEW reply, Replied(reply)
      PROVE  \/ reasoned' = reasoned
             \/ reply.reasons # "no" /\ reasoned' = reasoned \cup {<<"reply", reply.reasons>>}
  BY <1>3 DEF Replied
<1> QED
  BY <1>1, <1>2, <1>3 DEF Next

LEMMA ReasonedTypes ==
  ASSUME reasoned \subseteq {"stream", "reply"} \X {"content", "field"}, [Next]_scoringVars
  PROVE  reasoned' \subseteq {"stream", "reply"} \X {"content", "field"}
<1>1. ASSUME NEW reply \in ToolReplies \cup GroundingReplies \cup ClassifierReplies,
             reply.reasons # "no"
      PROVE  <<"reply", reply.reasons>> \in {"stream", "reply"} \X {"content", "field"}
  BY <1>1, ScoringAssumption
<1> QED
  BY <1>1, ReasonedFrame

\* Every operation leaves values of the types of the module (evals/cases/*.py).
THEOREM ScoringTypeCorrect == Spec => []ScoringTypeOK
<1> DEFINE Types == /\ stage \in Cases \cup {"scored", "error"} /\ asked \in Nat
                    /\ tally \in [Cases -> [Marks -> Nat]]
                    /\ reasoned \subseteq {"stream", "reply"} \X {"content", "field"}
<1>1. Init => Types
  BY DEF Init, Cases
<1>2. Types /\ [Next]_scoringVars => Types'
  BY TallyTypes, StageTypes, ReasonedTypes
<1>3. Types /\ LatencyInv => ScoringTypeOK
  BY DEF LatencyInv, ScoringTypeOK, StreamTypes
<1> HIDE DEF Types
<1> QED
  BY <1>1, <1>2, <1>3, LatencyInit, LatencyKeeps, PTL DEF Spec

-----------------------------------------------------------------------------
(* What the score of a tool case says of the call.                         *)

\* The messages about the parameters of a set: none exactly if there is no such parameter.
Named(message, S) == {<<message, k>> : k \in S}

LEMMA NamedTell == \A message, S : Named(message, S) = {} <=> S = {}
BY DEF Named

\* The loop over the arguments and the one over the required parameters together find
\* something exactly if the arguments are not what the schema allows.
LEMMA ProblemsTell ==
  ASSUME NEW name, NEW args,
         \A k \in DOMAIN args : /\ args[k] = <<args[k][1], args[k][2]>>
                                /\ args[k][1] = "integer" => args[k][2] \in Int
  PROVE  Problems(name, args) = {} <=> Conforms(name, args)
<1>1. CASE name \notin DOMAIN Schemas
  BY <1>1 DEF Problems, Conforms
<1>2. CASE name \in DOMAIN Schemas
  <2> DEFINE spec == Schemas[name].properties
  <2>1. \A k \in DOMAIN spec : /\ spec[k].integer \in BOOLEAN
                               /\ spec[k].integer => spec[k].minimum \in Int /\ spec[k].maximum \in Int
    BY <1>2, ScoringAssumption
  <2>2. ASSUME NEW k \in DOMAIN args \cap DOMAIN spec
        PROVE  Allows(spec[k], args[k]) <=>
                 /\ ~(spec[k].enum # {} /\ args[k] \notin spec[k].enum)
                 /\ spec[k].integer => /\ args[k][1] = "integer"
                                       /\ ~(args[k][2] < spec[k].minimum)
                                       /\ ~(args[k][2] > spec[k].maximum)
    <3>1. spec[k].integer =>
            (args[k] \in {<<"integer", n>> : n \in spec[k].minimum..spec[k].maximum} <=>
               /\ args[k][1] = "integer"
               /\ ~(args[k][2] < spec[k].minimum) /\ ~(args[k][2] > spec[k].maximum))
      BY <2>1
    <3> QED
      BY <3>1 DEF Allows
  <2>3. ArgProblems(spec, args) = {} <=>
          /\ DOMAIN args \subseteq DOMAIN spec
          /\ \A k \in DOMAIN args \cap DOMAIN spec :
               /\ ~(spec[k].enum # {} /\ args[k] \notin spec[k].enum)
               /\ spec[k].integer => /\ args[k][1] = "integer"
                                     /\ ~(args[k][2] < spec[k].minimum)
                                     /\ ~(args[k][2] > spec[k].maximum)
    <3> HIDE DEF spec
    <3> DEFINE known == DOMAIN args \cap DOMAIN spec
               number == {k \in known : spec[k].integer /\ args[k][1] = "integer"}
               unknown == DOMAIN args \ DOMAIN spec
               astray == {j \in known : spec[j].enum # {} /\ args[j] \notin spec[j].enum}
               untyped == {j \in known : spec[j].integer} \ number
               low == {j \in number : args[j][2] < spec[j].minimum}
               high == {j \in number : args[j][2] > spec[j].maximum}
    <3>1. ArgProblems(spec, args) =
            Named("invented parameter", unknown) \cup Named("outside enum", astray)
            \cup Named("not an integer", untyped) \cup Named("below minimum", low)
            \cup Named("above maximum", high)
      BY Zenon DEF ArgProblems, Named
    <3>2. unknown = {} <=> DOMAIN args \subseteq DOMAIN spec
      OBVIOUS
    <3>3. astray = {} <=> \A k \in known : ~(spec[k].enum # {} /\ args[k] \notin spec[k].enum)
      BY Zenon
    <3>4. untyped = {} <=> \A k \in known : spec[k].integer => args[k][1] = "integer"
      BY Zenon
    <3>5. low = {} <=> \A k \in number : ~(args[k][2] < spec[k].minimum)
      BY Zenon
    <3>6. high = {} <=> \A k \in number : ~(args[k][2] > spec[k].maximum)
      BY Zenon
    <3>7. ArgProblems(spec, args) = {} <=>
            unknown = {} /\ astray = {} /\ untyped = {} /\ low = {} /\ high = {}
      <4>1. ArgProblems(spec, args) = {} <=>
              /\ Named("invented parameter", unknown) = {} /\ Named("outside enum", astray) = {}
              /\ Named("not an integer", untyped) = {} /\ Named("below minimum", low) = {}
              /\ Named("above maximum", high) = {}
        <5> HIDE DEF unknown, astray, untyped, low, high
        <5> QED
          BY <3>1
      <4> QED
        BY <4>1, NamedTell, Zenon
    <3> HIDE DEF unknown, astray, untyped, low, high
    <3> QED
      BY <3>2, <3>3, <3>4, <3>5, <3>6, <3>7
  <2>4. Problems(name, args) = {} <=>
          ArgProblems(spec, args) = {} /\ Schemas[name].required \subseteq DOMAIN args
    <3> DEFINE missing == {<<"missing", k>> : k \in Schemas[name].required \ DOMAIN args}
    <3>1. Problems(name, args) = ArgProblems(spec, args) \cup missing
      BY <1>2 DEF Problems
    <3>2. missing = {} <=> Schemas[name].required \subseteq DOMAIN args
      OBVIOUS
    <3> HIDE DEF missing, spec
    <3> QED
      BY <3>1, <3>2
  <2> QED
    BY <1>2, <2>2, <2>3, <2>4 DEF Conforms
<1> QED
  BY <1>1, <1>2

\* What is read of a call is a map from parameters to values.
LEMMA ReadArgs ==
  ASSUME NEW reply \in ToolReplies, reply.call \notin {None, Odd}
  PROVE  LET args == ArgsOf(reply.call) IN
         /\ Problems(reply.call.name, args) = {} <=> Conforms(reply.call.name, args)
         /\ ~reply.call.parses => DOMAIN args = {}
<1>1. CASE reply.call.parses
  <2>1. ArgsOf(reply.call) = reply.call.args
    BY <1>1 DEF ArgsOf
  <2> QED
    BY <1>1, <2>1, ScoringAssumption, ProblemsTell
<1>2. CASE ~reply.call.parses
  <2>1. ArgsOf(reply.call) = <<>> /\ DOMAIN ArgsOf(reply.call) = {}
    BY <1>2 DEF ArgsOf
  <2> QED
    BY <2>1, ProblemsTell
<1> QED
  BY <1>1, <1>2

\* The score of a tool case is what the model did (tools.run, _violations).
THEOREM ScoresStayFaithful == Spec => []ScoresAreFaithful
<1>1. Init => ScoresAreFaithful
  BY DEF Init, NoReply, ScoresAreFaithful
<1>2. ASSUME ScoresAreFaithful, [Next]_scoringVars PROVE ScoresAreFaithful'
  <2>1. CASE last' = last
    BY <1>2, <2>1 DEF ScoresAreFaithful
  <2>2. CASE RequestFails
    BY <2>2 DEF RequestFails, NoReply, ScoresAreFaithful
  <2>3. ASSUME NEW reply, Replied(reply) PROVE ScoresAreFaithful'
    <3> SUFFICES ASSUME stage = "tools" PROVE ScoresAreFaithful'
      BY <2>3 DEF Replied, ScoresAreFaithful
    <3>1. PICK case : /\ reply \in ToolReplies /\ reply.call # Odd
                      /\ last' = [kind |-> "tools", case |-> case, reply |-> reply,
                                  marks |-> ToolMarks(case, reply)]
      BY <2>3 DEF Replied, Replies, MarksOf, Unforeseen
    <3> DEFINE call == reply.call
    <3>2. "ok" \in ToolMarks(case, reply) <=> AsAsked(case, call)
      <4>1. CASE call = None
        BY <4>1 DEF ToolMarks, If, AsAsked
      <4>2. CASE call # None
        BY <3>1, <4>2, ReadArgs DEF ToolMarks, If, CallIsRight, AsAsked
      <4> QED
        BY <4>1, <4>2
    <3>3. "violations" \in ToolMarks(case, reply) <=>
            call # None /\ ~Conforms(call.name, ArgsOf(call))
      BY <3>1, ReadArgs DEF ToolMarks, If
    <3> QED
      BY <3>1, <3>2, <3>3 DEF ScoresAreFaithful
  <2>4. OpenNext \/ OpenTogether \/ LatencyDone \/ Tick \/ ReplyRaises \/ Finished
          \/ UNCHANGED scoringVars => last' = last
    BY DEF OpenNext, OpenTogether, LatencyDone, Tick, ReplyRaises, Finished, scoringVars
  <2>5. ASSUME NEW s \in Streams, StreamStep(s) PROVE last' = last
    BY <2>5 DEF StreamStep, Content, ReasoningField, Finishes, Usage, StreamEnds, StreamFails
  <2> QED
    BY <1>2, <2>1, <2>2, <2>3, <2>4, <2>5 DEF Next
<1> QED
  BY <1>1, <1>2, PTL DEF Spec

-----------------------------------------------------------------------------
(* The counters belong together.                                           *)

\* Every tool of evals/data/tools.json has a parameter that a call must give.  (A call of a
\* tool without one, whose arguments cannot be parsed, would be right and "unparseable".)
EveryToolRequires == \A name \in DOMAIN Schemas : Schemas[name].required # {}

\* All marks of a record.
RecordMarks(kind, case, reply) == {"case"} \cup MarksOf(kind, case, reply) \cup ReplyMarks(reply)

\* No record is of a correct case and of one that failed.
LEMMA MarksApart ==
  ASSUME EveryToolRequires, NEW kind \in DOMAIN CaseList, NEW case,
         NEW reply \in Replies[kind], ~Unforeseen(kind, reply)
  PROVE  LET marks == RecordMarks(kind, case, reply) IN
         /\ "ok" \in marks => \A f \in Failures : f \notin marks
         /\ kind = "classifier" /\ "ok" \in marks => "valid" \in marks
<1> DEFINE marks == MarksOf(kind, case, reply)
<1>1. /\ \A mark \in Failures \cup {"ok", "valid"} :
           mark \in RecordMarks(kind, case, reply) <=> mark \in marks
  BY DEF RecordMarks, ReplyMarks, If, Failures
<1>2. CASE kind = "tools"
  <2>1. marks = ToolMarks(case, reply) /\ reply \in ToolReplies /\ reply.call # Odd
    BY <1>2 DEF MarksOf, Replies, Unforeseen
  <2>2. ASSUME "ok" \in ToolMarks(case, reply), NEW f \in Failures,
               f \in ToolMarks(case, reply)
        PROVE  FALSE
    <3> DEFINE call == reply.call
    <3>1. call # None /\ case.expects # None /\ CallIsRight(case, call)
      BY <2>2 DEF ToolMarks, If, Failures
    <3>2. Problems(call.name, ArgsOf(call)) = {}
      BY <3>1 DEF CallIsRight
    <3>3. f = "unparseable" /\ ~call.parses
      BY <2>2, <3>1, <3>2 DEF ToolMarks, If, Failures, Problems
    <3>4. Conforms(call.name, ArgsOf(call)) /\ DOMAIN ArgsOf(call) = {}
      BY <2>1, <3>1, <3>2, <3>3, ReadArgs
    <3> QED
      BY <3>4 DEF Conforms, EveryToolRequires
  <2> QED
    BY <1>1, <1>2, <2>1, <2>2
<1>3. CASE kind = "grounding"
  <2>1. marks = GroundingMarks(case, reply)
    BY <1>3 DEF MarksOf
  <2>2. CASE case.refusal
    <3> DEFINE refused == "refusal" \in reply.phrases
    <3>1. marks = If("ok", refused) \cup If("not refused", ~refused)
      BY <2>1, <2>2 DEF GroundingMarks
    <3> HIDE DEF marks, refused
    <3>2. \A f \in Failures : f \in marks => ~refused
      BY <3>1 DEF If, Failures
    <3>3. "ok" \in marks => refused
      BY <3>1 DEF If
    <3> QED
      BY <1>1, <1>3, <3>2, <3>3 DEF Failures
  <2>3. CASE ~case.refusal
    <3> DEFINE leaked == case.wrong \cap reply.phrases
               hit == IF case.any THEN case.wanted \cap reply.phrases # {}
                      ELSE case.wanted \subseteq reply.phrases
    <3>1. marks = If("ok", hit /\ leaked = {}) \cup If("wrong figure", leaked # {})
      BY <2>1, <2>3 DEF GroundingMarks
    <3> HIDE DEF marks, leaked, hit
    <3>2. \A f \in Failures : f \in marks => leaked # {}
      BY <3>1 DEF If, Failures
    <3>3. "ok" \in marks => leaked = {}
      BY <3>1 DEF If
    <3> QED
      BY <1>1, <1>3, <3>2, <3>3 DEF Failures
  <2> QED
    BY <2>2, <2>3
<1>4. CASE kind = "classifier"
  <2>1. marks = ClassifierMarks(case, reply)
    BY <1>4 DEF MarksOf
  <2>2. ("ok" \in marks => "valid" \in marks) /\ \A f \in Failures : f \notin marks
    BY <2>1 DEF ClassifierMarks, If, Failures
  <2> QED
    BY <1>1, <2>2
<1> QED
  BY <1>2, <1>3, <1>4 DEF CaseList

CountInv ==
  /\ \A c \in Cases, f \in Failures : tally[c]["ok"] + tally[c][f] <= tally[c]["case"]
  /\ tally["classifier"]["ok"] <= tally["classifier"]["valid"]
  /\ tally["latency"]["ok"] = 0 /\ \A f \in Failures : tally["latency"][f] = 0

\* A record that is of a case, not of a correct one and of one that failed, and valid if it
\* is a correct classification, keeps the counters in order.
LEMMA RecordKeeps ==
  ASSUME tally \in [Cases -> [Marks -> Nat]], CountInv,
         NEW kind \in DOMAIN CaseList, NEW marks, tally' = Counted(kind, marks),
         "case" \in marks, "ok" \in marks => \A f \in Failures : f \notin marks,
         kind = "classifier" /\ "ok" \in marks => "valid" \in marks
  PROVE  CountInv'
<1>1. kind \in Cases /\ kind # "latency" /\ Failures \subseteq Marks
  BY DEF CaseList, Cases, Failures, Marks
<1>2. /\ {"case", "ok", "valid"} \subseteq Marks /\ {"latency", "classifier"} \subseteq Cases
      /\ \A c \in Cases, mark \in Marks : tally[c][mark] \in Nat
  BY DEF Marks, Cases
<1>3. /\ \A c \in Cases : c # kind => tally'[c] = tally[c]
      /\ \A mark \in Marks :
           tally'[kind][mark] = tally[kind][mark] + (IF mark \in marks THEN 1 ELSE 0)
  BY <1>1, CountedMarks
<1>4. ASSUME NEW c \in Cases, NEW f \in Failures
      PROVE  tally'[c]["ok"] + tally'[c][f] <= tally'[c]["case"]
  <2>1. CASE c # kind
    BY <1>3, <2>1 DEF CountInv
  <2>2. CASE c = kind
    <3>1. tally[kind]["ok"] + tally[kind][f] <= tally[kind]["case"]
      BY <1>1 DEF CountInv
    <3>2. tally'[kind]["case"] = tally[kind]["case"] + 1
      BY <1>2, <1>3
    <3>3. /\ tally'[kind]["ok"] = tally[kind]["ok"] + (IF "ok" \in marks THEN 1 ELSE 0)
          /\ tally'[kind][f] = tally[kind][f] + (IF f \in marks THEN 1 ELSE 0)
      BY <1>1, <1>2, <1>3
    <3>4. /\ tally[kind]["ok"] \in Nat /\ tally[kind][f] \in Nat /\ tally[kind]["case"] \in Nat
      BY <1>1, <1>2
    <3> QED
      BY <2>2, <3>1, <3>2, <3>3, <3>4
  <2> QED
    BY <2>1, <2>2
<1>5. tally'["classifier"]["ok"] <= tally'["classifier"]["valid"]
  <2>1. CASE kind # "classifier"
    BY <1>2, <1>3, <2>1 DEF CountInv
  <2>2. CASE kind = "classifier"
    <3>1. /\ tally'[kind]["ok"] = tally[kind]["ok"] + (IF "ok" \in marks THEN 1 ELSE 0)
          /\ tally'[kind]["valid"] = tally[kind]["valid"] + (IF "valid" \in marks THEN 1 ELSE 0)
      BY <1>2, <1>3
    <3> QED
      BY <1>1, <1>2, <2>2, <3>1 DEF CountInv
  <2> QED
    BY <2>1, <2>2
<1>6. tally'["latency"] = tally["latency"]
  BY <1>1, <1>2, <1>3
<1> QED
  BY <1>4, <1>5, <1>6 DEF CountInv

LEMMA CountsKeep ==
  ASSUME EveryToolRequires, tally \in [Cases -> [Marks -> Nat]], CountInv, [Next]_scoringVars
  PROVE  CountInv'
<1>1. CASE tally' = tally
  BY <1>1 DEF CountInv
<1>2. CASE LatencyDone
  <2>1. /\ tally' \in [Cases -> [Marks -> Nat]]
        /\ \A c \in Cases \ {"latency"} : tally'[c] = tally[c]
        /\ \A mark \in Marks \ {"case", "reasoning", "truncated"} :
              tally'["latency"][mark] = tally["latency"][mark]
    BY <1>2, LatencySums
  <2>2. /\ "ok" \in Marks \ {"case", "reasoning", "truncated"}
        /\ Failures \subseteq Marks \ {"case", "reasoning", "truncated"}
        /\ "case" \in Marks /\ "latency" \in Cases /\ "classifier" \in Cases \ {"latency"}
    BY DEF Marks, Failures, Cases
  <2>3. tally'["latency"]["ok"] = 0 /\ \A f \in Failures : tally'["latency"][f] = 0
    BY <2>1, <2>2 DEF CountInv
  <2>4. tally'["latency"]["case"] \in Nat
    BY <2>1, <2>2
  <2>5. ASSUME NEW c \in Cases, NEW f \in Failures
        PROVE  tally'[c]["ok"] + tally'[c][f] <= tally'[c]["case"]
    <3>1. CASE c = "latency"
      BY <2>3, <2>4, <3>1
    <3>2. CASE c # "latency"
      BY <2>1, <3>2 DEF CountInv
    <3> QED
      BY <3>1, <3>2
  <2> QED
    BY <2>1, <2>2, <2>3, <2>5 DEF CountInv
<1>3. CASE RequestFails
  <2>1. "ok" \notin {"case"}
    OBVIOUS
  <2> QED
    BY <1>3, <2>1, CountedRecord, RecordKeeps
<1>4. ASSUME NEW reply, Replied(reply) PROVE CountInv'
  <2> DEFINE marks == RecordMarks(stage, CaseList[stage][asked + 1], reply)
  <2>1. /\ stage \in DOMAIN CaseList /\ reply \in Replies[stage]
        /\ ~Unforeseen(stage, reply) /\ tally' = Counted(stage, marks)
    BY <1>4, CountedRecord DEF RecordMarks
  <2>2. /\ "case" \in marks /\ ("ok" \in marks => \A f \in Failures : f \notin marks)
        /\ stage = "classifier" /\ "ok" \in marks => "valid" \in marks
    BY <2>1, MarksApart DEF RecordMarks
  <2> HIDE DEF marks
  <2> QED
    BY <2>1, <2>2, RecordKeeps
<1> QED
  BY <1>1, <1>2, <1>3, <1>4, TallyFrame

\* The requests made of every case so far, told by the stage.
Rank == [latency |-> 0, tools |-> 1, grounding |-> 2, classifier |-> 3, scored |-> 4]

Made(c) == IF stage = c THEN asked
           ELSE IF Rank[stage] < Rank[c] THEN 0 ELSE Len(CaseList[c])

ProgressInv ==
  /\ stage = "latency" => asked = 0
  /\ Quality => asked < Len(CaseList[stage])
  /\ stage # "error" => \A c \in DOMAIN CaseList : tally[c]["case"] = Made(c)

LEMMA ProgressKeeps ==
  ASSUME stage \in Cases \cup {"scored", "error"}, asked \in Nat,
         tally \in [Cases -> [Marks -> Nat]], ProgressInv, [Next]_scoringVars
  PROVE  ProgressInv'
<1> USE DEF ProgressInv
<1>1. /\ \A c \in DOMAIN CaseList : Len(CaseList[c]) \in Nat \ {0}
      /\ DOMAIN CaseList = {"tools", "grounding", "classifier"}
      /\ DOMAIN CaseList \subseteq Cases /\ "case" \in Marks
  <2>1. /\ Len(ToolCases) \in Nat \ {0} /\ Len(GroundingCases) \in Nat \ {0}
        /\ Len(ClassifierCases) \in Nat \ {0}
    BY ScoringAssumption
  <2>2. /\ DOMAIN CaseList = {"tools", "grounding", "classifier"}
        /\ CaseList["tools"] = ToolCases /\ CaseList["grounding"] = GroundingCases
        /\ CaseList["classifier"] = ClassifierCases
    BY DEF CaseList
  <2> QED
    BY <2>1, <2>2 DEF Cases, Marks
<1>2. ASSUME tally' = tally, stage' \in {stage, "error"}, asked' = asked
      PROVE  ProgressInv'
  BY <1>2 DEF Quality, Made
<1>3. CASE LatencyDone
  <2>1. /\ stage = "latency" /\ stage' = "tools" /\ asked' = 0 /\ asked = 0
        /\ \A c \in DOMAIN CaseList : tally'[c] = tally[c]
    BY <1>1, <1>3, LatencySums DEF LatencyDone
  <2> QED
    BY <1>1, <2>1 DEF Quality, Made, Rank
<1>4. ASSUME NEW kind \in DOMAIN CaseList, stage = kind, AskNext,
             NEW marks, "case" \in marks, tally' = Counted(kind, marks)
      PROVE  ProgressInv'
  <2>1. Quality /\ stage # "latency" /\ stage # "error"
    BY <1>1, <1>4 DEF Quality
  <2>2. /\ tally'[kind]["case"] = tally[kind]["case"] + 1
        /\ \A c \in DOMAIN CaseList : c # kind => tally'[c] = tally[c]
    BY <1>1, <1>4, CountedMarks
  <2>3. tally[kind]["case"] = asked /\ asked < Len(CaseList[kind])
    BY <1>4, <2>1 DEF Made
  <2>4. CASE stage' = stage /\ asked' = asked + 1 /\ asked' < Len(CaseList[kind])
    <3>1. ASSUME NEW c \in DOMAIN CaseList PROVE tally'[c]["case"] = Made(c)'
      <4>1. CASE c = kind
        BY <1>4, <2>2, <2>3, <2>4, <4>1 DEF Made
      <4>2. CASE c # kind
        BY <1>4, <2>1, <2>2, <2>4, <4>2 DEF Made
      <4> QED
        BY <4>1, <4>2
    <3> QED
      BY <1>4, <2>1, <2>4, <3>1 DEF Quality
  <2>5. CASE stage' = Following[kind] /\ asked' = 0 /\ ~(asked + 1 < Len(CaseList[kind]))
    <3>1. asked + 1 = Len(CaseList[kind])
      BY <1>1, <1>4, <2>3, <2>5
    <3>2. /\ Rank[stage'] = Rank[kind] + 1 /\ stage' \notin {"latency", "error", kind}
          /\ kind \in {"tools", "grounding", "classifier"}
      BY <1>1, <1>4, <2>5 DEF Following, Rank
    <3>3. ASSUME NEW c \in DOMAIN CaseList PROVE tally'[c]["case"] = Made(c)'
      <4>1. CASE c = kind
        BY <2>2, <2>3, <3>1, <3>2, <4>1 DEF Made, Rank
      <4>2. CASE c # kind
        <5>1. tally'[c]["case"] = Made(c)
          BY <1>4, <2>1, <2>2, <4>2
        <5>2. Made(c)' = Made(c)
          BY <1>1, <1>4, <2>5, <4>2 DEF Made, Rank, Following
        <5> QED
          BY <5>1, <5>2
      <4> QED
        BY <4>1, <4>2
    <3> QED
      BY <1>1, <2>5, <3>2, <3>3 DEF Quality
  <2> QED
    BY <1>4, <2>1, <2>4, <2>5, AskedNext
<1>5. OpenNext \/ OpenTogether \/ Tick \/ Finished \/ UNCHANGED scoringVars
        => UNCHANGED <<tally, stage, asked>>
  BY DEF OpenNext, OpenTogether, Tick, Finished, scoringVars
<1>6. ReplyRaises => UNCHANGED <<tally, asked>> /\ stage' = "error"
  BY DEF ReplyRaises
<1>7. ASSUME NEW s \in Streams, StreamStep(s)
      PROVE  UNCHANGED <<tally, asked>> /\ stage' \in {stage, "error"}
  BY <1>7 DEF StreamStep, Content, ReasoningField, Finishes, Usage, StreamEnds, StreamFails
<1>8. RequestFails => ProgressInv'
  <2> HIDE DEF ProgressInv
  <2> QED
    BY <1>1, <1>4 DEF RequestFails, Quality
<1>9. ASSUME NEW reply, Replied(reply) PROVE ProgressInv'
  <2> HIDE DEF ProgressInv
  <2>1. /\ stage \in DOMAIN CaseList /\ AskNext
        /\ tally' = Counted(stage, RecordMarks(stage, CaseList[stage][asked + 1], reply))
    BY <1>1, <1>9 DEF Replied, Quality, RecordMarks
  <2>2. "case" \in RecordMarks(stage, CaseList[stage][asked + 1], reply)
    BY DEF RecordMarks
  <2> QED
    BY <1>4, <2>1, <2>2
<1> HIDE DEF ProgressInv
<1> QED
  BY <1>2, <1>3, <1>5, <1>6, <1>7, <1>8, <1>9 DEF Next

\* The numbers of the report belong together, whatever the model replied and whatever
\* requests failed (common.py, report.total).
THEOREM TallyStaysTogether == EveryToolRequires => (Spec => []TallyAddsUp)
<1> SUFFICES ASSUME EveryToolRequires PROVE Spec => []TallyAddsUp
  OBVIOUS
<1> DEFINE Inv == ScoringTypeOK /\ CountInv /\ ProgressInv
<1>1. Init => CountInv /\ ProgressInv
  <2> SUFFICES ASSUME Init PROVE CountInv /\ ProgressInv
    OBVIOUS
  <2>1. \A c \in Cases, mark \in Marks : tally[c][mark] = 0
    BY DEF Init
  <2>2. /\ Failures \cup {"ok", "case", "valid"} \subseteq Marks
        /\ {"latency", "classifier"} \subseteq Cases /\ DOMAIN CaseList \subseteq Cases
    BY DEF Marks, Failures, Cases, CaseList
  <2>3. CountInv
    BY <2>1, <2>2 DEF CountInv
  <2>4. stage = "latency" /\ asked = 0
    BY DEF Init
  <2>5. \A c \in DOMAIN CaseList : Made(c) = 0
    BY <2>4 DEF Made, Rank, CaseList
  <2> QED
    BY <2>1, <2>2, <2>3, <2>4, <2>5 DEF ProgressInv, Quality
<1>2. ScoringTypeOK /\ CountInv /\ ProgressInv /\ [Next]_scoringVars => CountInv' /\ ProgressInv'
  BY CountsKeep, ProgressKeeps DEF ScoringTypeOK
<1>3. CountInv /\ ProgressInv => TallyAddsUp
  BY DEF CountInv, ProgressInv, TallyAddsUp, Made, Rank, CaseList
<1> QED
  BY <1>1, <1>2, <1>3, ScoringTypeCorrect, PTL DEF Spec

-----------------------------------------------------------------------------
(* Reasoning is shown.                                                     *)

\* Where what reasoned is found: replies in the counter of their case, streams among those
\* that will be summed or in the sum; after the latency case no stream is left.
ReasonInv ==
  /\ \A x : <<"reply", x>> \in reasoned =>
       \E c \in DOMAIN CaseList : tally[c]["reasoning"] > 0
  /\ <<"stream", "content">> \in reasoned /\ stage # "error" =>
       IF stage = "latency" THEN \E s \in Ended : stream[s].reasons
       ELSE tally["latency"]["reasoning"] > 0
  /\ stage \notin {"latency", "error"} => \A s \in Streams : stream[s].at = "unsent"

\* While the latency case runs a stream that ended stays as it is.
LEMMA EndedStay ==
  ASSUME LatencyInv, [Next]_scoringVars, stage = "latency", stage' = "latency",
         NEW s \in Ended
  PROVE  s \in Ended' /\ stream'[s] = stream[s]
<1>1. s \in Streams /\ stream[s].at = "ended" /\ stream \in [Streams -> StreamTypes]
  BY DEF Ended, LatencyInv
<1> SUFFICES stream'[s] = stream[s]
  BY <1>1 DEF Ended
<1>2. CASE OpenNext
  BY <1>1, <1>2 DEF OpenNext
<1>3. CASE OpenTogether
  BY <1>1, <1>3 DEF OpenTogether, LatencyInv
<1>4. ASSUME NEW t \in Streams, StreamStep(t) PROVE stream'[s] = stream[s]
  BY <1>1, <1>4 DEF StreamStep, Content, ReasoningField, Finishes, Usage, StreamEnds, StreamFails
<1>5. Tick \/ Finished \/ UNCHANGED scoringVars => stream' = stream
  BY DEF Tick, Finished, scoringVars
<1>6. /\ LatencyDone => stage' # "latency"
      /\ ~RequestFails /\ ~ReplyRaises /\ \A reply : ~Replied(reply)
  BY DEF LatencyDone, RequestFails, ReplyRaises, Replied, Quality
<1> QED
  BY <1>2, <1>3, <1>4, <1>5, <1>6 DEF Next

\* A reply that reasoned is counted, and no counter of a quality case goes back.
LEMMA ReplyShown ==
  ASSUME tally \in [Cases -> [Marks -> Nat]], ReasonInv, [Next]_scoringVars,
         NEW x, <<"reply", x>> \in reasoned'
  PROVE  \E c \in DOMAIN CaseList : tally'[c]["reasoning"] > 0
<1>1. /\ DOMAIN CaseList \subseteq Cases \ {"latency"} /\ "reasoning" \in Marks
      /\ \A c \in Cases : tally[c]["reasoning"] \in Nat
  BY DEF CaseList, Cases, Marks
<1>2. ASSUME NEW kind \in DOMAIN CaseList, NEW marks, tally' = Counted(kind, marks)
      PROVE  /\ \A c \in DOMAIN CaseList : tally[c]["reasoning"] > 0 => tally'[c]["reasoning"] > 0
             /\ "reasoning" \in marks => tally'[kind]["reasoning"] > 0
  <2>1. /\ \A c \in Cases : c # kind => tally'[c] = tally[c]
        /\ tally'[kind]["reasoning"] = tally[kind]["reasoning"]
                                         + (IF "reasoning" \in marks THEN 1 ELSE 0)
    BY <1>1, <1>2, CountedMarks
  <2>2. tally'[kind]["reasoning"] >= tally[kind]["reasoning"]
    BY <1>1, <2>1
  <2>3. "reasoning" \in marks => tally'[kind]["reasoning"] > 0
    BY <1>1, <2>1
  <2>4. ASSUME NEW c \in DOMAIN CaseList, tally[c]["reasoning"] > 0
        PROVE  tally'[c]["reasoning"] > 0
    <3>1. CASE c = kind
      <4>1. tally'[kind]["reasoning"] \in Nat
        BY <1>1, <2>1
      <4> QED
        BY <1>1, <2>2, <2>4, <3>1, <4>1
    <3>2. CASE c # kind
      BY <1>1, <2>1, <2>4, <3>2
    <3> QED
      BY <3>1, <3>2
  <2> QED
    BY <2>3, <2>4
<1>3. ASSUME NEW c \in DOMAIN CaseList, tally[c]["reasoning"] > 0
      PROVE  tally'[c]["reasoning"] > 0
  <2>1. CASE tally' = tally
    BY <1>3, <2>1
  <2>2. CASE LatencyDone
    <3>1. tally'[c] = tally[c]
      BY <1>1, <2>2, LatencySums
    <3> QED
      BY <1>3, <3>1
  <2>3. CASE RequestFails
    BY <1>2, <1>3, <2>3, CountedRecord
  <2>4. ASSUME NEW reply, Replied(reply) PROVE tally'[c]["reasoning"] > 0
    <3>1. PICK marks : stage \in DOMAIN CaseList /\ tally' = Counted(stage, marks)
      BY <2>4, CountedRecord
    <3> QED
      BY <1>2, <1>3, <3>1
  <2> QED
    BY <2>1, <2>2, <2>3, <2>4, TallyFrame
<1>4. CASE <<"reply", x>> \in reasoned
  BY <1>3, <1>4 DEF ReasonInv
<1>5. CASE <<"reply", x>> \notin reasoned
  <2>1. PICK reply : Replied(reply) /\ reply.reasons # "no"
    BY <1>5, ReasonedFrame
  <2>2. /\ stage \in DOMAIN CaseList
        /\ tally' = Counted(stage, RecordMarks(stage, CaseList[stage][asked + 1], reply))
    BY <2>1, CountedRecord DEF RecordMarks
  <2>3. "reasoning" \in RecordMarks(stage, CaseList[stage][asked + 1], reply)
    BY <2>1 DEF RecordMarks, ReplyMarks, If
  <2> QED
    BY <1>2, <2>2, <2>3
<1> QED
  BY <1>4, <1>5

\* A stream whose text reasoned is summed when the latency case is done.
LEMMA StreamShown ==
  ASSUME tally \in [Cases -> [Marks -> Nat]], LatencyInv, ReasonInv, [Next]_scoringVars,
         stage \in Cases \cup {"scored", "error"}, asked \in Nat,
         <<"stream", "content">> \in reasoned', stage' # "error"
  PROVE  IF stage' = "latency" THEN \E s \in Ended' : stream'[s].reasons
         ELSE tally'["latency"]["reasoning"] > 0
<1>1. /\ OpenNext \/ OpenTogether \/ Tick \/ Finished \/ UNCHANGED scoringVars => stage' = stage
      /\ LatencyDone => stage = "latency" /\ stage' = "tools"
      /\ RequestFails \/ ReplyRaises => Quality
      /\ \A reply : Replied(reply) => Quality
      /\ \A s \in Streams : StreamStep(s) => stream[s].at = "open" /\ stage' \in {stage, "error"}
  BY DEF OpenNext, OpenTogether, Tick, Finished, scoringVars, LatencyDone, RequestFails,
         ReplyRaises, Replied, StreamStep, Content, ReasoningField, Finishes, Usage, StreamEnds,
         StreamFails
<1>2. stage # "error"
  BY <1>1 DEF Next, Quality
<1>3. CASE stage = "latency" /\ stage' = "latency"
  <2>1. CASE <<"stream", "content">> \in reasoned
    <3>1. PICK s \in Ended : stream[s].reasons
      BY <1>3, <2>1 DEF ReasonInv
    <3> QED
      BY <1>3, <3>1, EndedStay
  <2>2. CASE <<"stream", "content">> \notin reasoned
    <3>1. PICK s \in Streams : StreamEnds(s) /\ stream[s].reasons
      BY <2>2, ReasonedFrame
    <3>2. s \in Ended' /\ stream'[s].reasons
      BY <3>1 DEF StreamEnds, Ended, LatencyInv
    <3> QED
      BY <1>3, <3>2
  <2> QED
    BY <2>1, <2>2
<1>4. CASE stage = "latency" /\ stage' # "latency"
  <2>1. LatencyDone
    BY <1>1, <1>4 DEF Next, Quality
  <2>2. PICK s \in Ended : stream[s].reasons
    BY <1>4, <2>1 DEF ReasonInv, LatencyDone
  <2>3. tally'["latency"]["reasoning"] = Flagged("reasons")
    BY <2>1, LatencySums
  <2>4. Flagged("reasons") > 0
    <3> DEFINE flagged == {t \in Ended : stream[t]["reasons"]}
    <3>1. IsFiniteSet(flagged) /\ flagged # {}
      BY <2>2, EndedAreFew, FS_Subset
    <3> HIDE DEF flagged
    <3>2. Cardinality(flagged) \in Nat /\ Cardinality(flagged) # 0
      BY <3>1, FS_CardinalityType, FS_EmptySet
    <3> QED
      BY <3>2 DEF Flagged, flagged
  <2> QED
    BY <1>4, <2>3, <2>4
<1>5. CASE stage # "latency"
  <2>1. \A s \in Streams : stream[s].at = "unsent"
    BY <1>2, <1>5 DEF ReasonInv
  <2>2. \A s \in Streams : ~StreamStep(s)
    BY <1>1, <2>1
  <2>3. <<"stream", "content">> \in reasoned
    <3>1. \A s \in Streams : ~StreamEnds(s)
      BY <2>1 DEF StreamEnds
    <3>2. \A x : <<"stream", "content">> # <<"reply", x>>
      OBVIOUS
    <3>3. <<"stream", "content">> # <<"stream", "field">>
      OBVIOUS
    <3> QED
      BY <3>1, <3>2, <3>3, ReasonedFrame
  <2>4. tally["latency"]["reasoning"] > 0
    BY <1>2, <1>5, <2>3 DEF ReasonInv
  <2>5. "latency" \in Cases /\ "latency" \notin DOMAIN CaseList /\ DOMAIN CaseList \subseteq Cases
    BY DEF Cases, CaseList
  <2>6. tally'["latency"] = tally["latency"]
    <3>1. CASE RequestFails
      BY <2>5, <3>1, CountedRecord, CountedMarks
    <3>2. ASSUME NEW reply, Replied(reply) PROVE tally'["latency"] = tally["latency"]
      <4>1. PICK marks : stage \in DOMAIN CaseList /\ tally' = Counted(stage, marks)
        BY <3>2, CountedRecord
      <4> QED
        BY <2>5, <4>1, CountedMarks
    <3>3. ~LatencyDone
      BY <1>1, <1>5
    <3> QED
      BY <3>1, <3>2, <3>3, TallyFrame
  <2>7. stage' # "latency"
    <3>1. Quality /\ AskNext => stage' # "latency"
      BY <1>5 DEF AskNext, Quality, Following
    <3>2. /\ RequestFails => Quality /\ AskNext
          /\ \A reply : Replied(reply) => Quality /\ AskNext
          /\ ReplyRaises => stage' = "error"
      BY DEF RequestFails, Replied, ReplyRaises
    <3> QED
      BY <1>1, <1>5, <2>2, <3>1, <3>2 DEF Next
  <2> QED
    BY <2>4, <2>6, <2>7
<1> QED
  BY <1>3, <1>4, <1>5

LEMMA UnsentStay ==
  ASSUME tally \in [Cases -> [Marks -> Nat]], LatencyInv, ReasonInv, [Next]_scoringVars,
         stage' \notin {"latency", "error"}
  PROVE  \A s \in Streams : stream'[s].at = "unsent"
<1>1. CASE stage = "latency"
  <2>1. LatencyDone
    BY <1>1 DEF Next, OpenNext, OpenTogether, Tick, Finished, scoringVars, RequestFails,
                ReplyRaises, Replied, Quality, StreamStep, Content, ReasoningField, Finishes,
                Usage, StreamEnds, StreamFails
  <2> QED
    BY <2>1 DEF LatencyDone, Unsent
<1>2. CASE stage # "latency"
  <2>1. OpenNext \/ OpenTogether \/ LatencyDone \/ Tick => stage = "latency"
    BY DEF OpenNext, OpenTogether, LatencyDone, Tick
  <2>2. RequestFails \/ ReplyRaises \/ Finished \/ UNCHANGED scoringVars \/ (\E reply : Replied(reply))
          => stream' = stream /\ (stage = "error" => stage' = "error")
    BY DEF RequestFails, ReplyRaises, Finished, scoringVars, Replied, Quality
  <2>3. ASSUME NEW s \in Streams, StreamStep(s)
        PROVE  stream[s].at = "open" /\ stage' \in {stage, "error"}
    BY <2>3 DEF StreamStep, Content, ReasoningField, Finishes, Usage, StreamEnds, StreamFails
  <2>4. stage # "error" => \A s \in Streams : stream[s].at = "unsent" 
    BY <1>2 DEF ReasonInv
  <2> QED
    BY <1>2, <2>1, <2>2, <2>3, <2>4 DEF Next
<1> QED
  BY <1>1, <1>2

\* Whoever is scored and reasoned, in a reply or in the text of a stream that is reported, is
\* shown to have reasoned in the total (common.py, reasoning_in; report.total).
THEOREM ReasoningIsShown == Spec => []ReasoningShows
<1>1. Init => ReasonInv
  BY DEF Init, ReasonInv
<1>2. ScoringTypeOK /\ LatencyInv /\ ReasonInv /\ [Next]_scoringVars => ReasonInv'
  <2> SUFFICES ASSUME ScoringTypeOK, LatencyInv, ReasonInv, [Next]_scoringVars
               PROVE  ReasonInv'
    OBVIOUS
  <2>1. \A x : <<"reply", x>> \in reasoned' =>
          \E c \in DOMAIN CaseList : tally'[c]["reasoning"] > 0
    BY ReplyShown DEF ScoringTypeOK
  <2>2. <<"stream", "content">> \in reasoned' /\ stage' # "error" =>
          IF stage' = "latency" THEN \E s \in Ended' : stream'[s].reasons
          ELSE tally'["latency"]["reasoning"] > 0
    BY StreamShown DEF ScoringTypeOK
  <2>3. stage' \notin {"latency", "error"} => \A s \in Streams : stream'[s].at = "unsent"
    BY UnsentStay DEF ScoringTypeOK
  <2> QED
    BY <2>1, <2>2, <2>3 DEF ReasonInv
<1>3. ScoringTypeOK /\ ReasonInv => ReasoningShows
  <2> SUFFICES ASSUME ScoringTypeOK, ReasonInv, stage = "scored",
                      reasoned \ {<<"stream", "field">>} # {}
               PROVE  Total("reasoning") > 0
    BY DEF ReasoningShows
  <2>1. \A c \in Cases : tally[c]["reasoning"] \in Nat
    BY DEF ScoringTypeOK, Marks
  <2>2. \E c \in Cases : tally[c]["reasoning"] > 0
    <3>1. PICK r \in reasoned : r # <<"stream", "field">>
      OBVIOUS
    <3>2. r = <<"stream", "content">> \/ \E x : r = <<"reply", x>>
      BY <3>1 DEF ScoringTypeOK
    <3>3. "latency" \in Cases /\ DOMAIN CaseList \subseteq Cases
      BY DEF Cases, CaseList
    <3> QED
      BY <3>1, <3>2, <3>3 DEF ReasonInv
  <2>3. Total("reasoning") = tally["latency"]["reasoning"] + tally["tools"]["reasoning"]
                             + tally["grounding"]["reasoning"] + tally["classifier"]["reasoning"]
    BY DEF Total
  <2> QED
    BY <2>1, <2>2, <2>3 DEF Cases
<1> QED
  BY <1>1, <1>2, <1>3, ScoringTypeCorrect, LatencyInit, LatencyKeeps, PTL DEF Spec
=============================================================================
