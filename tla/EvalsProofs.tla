----------------------------- MODULE EvalsProofs ----------------------------
(***************************************************************************)
(* Proofs about the evaluation run, for every matrix of candidates, every  *)
(* list of KV cache types and every way vLLM and docker compose behave.    *)
(***************************************************************************)
EXTENDS Evals, FiniteSetTheorems, TLAPS

-----------------------------------------------------------------------------
(* Matrix.expand: the pairs and their numbers.                             *)

Size == Len(listed) * Len(KvDtypes)

\* The candidate of the matrix that pair i comes from.
Origin(i) == ((i - 1) \div Len(KvDtypes)) + 1

LEMMA Quotient ==
  ASSUME NEW K \in Nat \ {0}, NEW a \in Nat, NEW k \in 0..(K - 1)
  PROVE  (a * K + k) \div K = a /\ (a * K + k) % K = k
OBVIOUS

LEMMA Rows ==
  ASSUME NEW K \in Nat \ {0}, NEW L \in Nat \ {0}, NEW i \in 1..(L * K)
  PROVE  (i - 1) \div K \in 0..(L - 1) /\ (i - 1) % K \in 0..(K - 1)
OBVIOUS

LEMMA Cells ==
  ASSUME NEW K \in Nat \ {0}, NEW L \in Nat \ {0}
  PROVE  L * K \in Nat \ {0} /\ \A l \in 1..L, k \in 1..K : (l - 1) * K + k \in 1..(L * K)
<1>1. L * K \in Nat \ {0}
  OBVIOUS
<1>2. ASSUME NEW l \in 1..L, NEW k \in 1..K PROVE (l - 1) * K + k \in 1..(L * K)
  OBVIOUS
<1> QED
  BY <1>1, <1>2

LEMMA Quotients ==
  ASSUME NEW K \in Nat \ {0}, NEW i \in Nat, NEW j \in Nat, i <= j
  PROVE  i \div K <= j \div K
OBVIOUS

LEMMA WithDtype ==
  ASSUME NEW c \in [repo : STRING, pinned : BOOLEAN, dtype : STRING], NEW dtype,
         NEW e, e = [c EXCEPT !.dtype = dtype]
  PROVE  e.repo = c.repo /\ e.pinned = c.pinned /\ e.dtype = dtype
OBVIOUS

\* The pairs are numbered from 1, and each keeps its candidate's repository and pin.
LEMMA Pairs ==
  ASSUME listed \in Matrices
  PROVE  /\ Size \in Nat \ {0} /\ Candidates = 1..Size
         /\ \A i \in Candidates :
              /\ Origin(i) \in 1..Len(listed)
              /\ Expanded[i].repo = listed[Origin(i)].repo
              /\ Expanded[i].pinned = listed[Origin(i)].pinned
              /\ Expanded[i].dtype = KvDtypes[((i - 1) % Len(KvDtypes)) + 1]
         /\ \A i \in 1..Len(listed) : listed[i].pinned \in BOOLEAN
<1>1. /\ Len(listed) \in Nat \ {0} /\ Len(KvDtypes) \in Nat \ {0}
      /\ \A i \in 1..Len(listed) : listed[i] \in [repo : STRING, pinned : BOOLEAN, dtype : STRING]
  <2> DEFINE candidate == [repo : STRING, pinned : BOOLEAN, dtype : STRING]
  <2>1. listed \in Seq(candidate) /\ Len(listed) > 0 /\ KvDtypes \in Seq(STRING) /\ Len(KvDtypes) > 0
    BY EvalsAssumption
  <2> HIDE DEF candidate
  <2>2. Len(listed) \in Nat \ {0} /\ Len(KvDtypes) \in Nat \ {0}
    BY <2>1
  <2>3. \A i \in 1..Len(listed) : listed[i] \in candidate
    BY <2>1
  <2> QED
    BY <2>2, <2>3 DEF candidate
<1>2. Size \in Nat \ {0}
  BY <1>1, Cells DEF Size
<1>3. Candidates = 1..Size
  BY DEF Candidates, Expanded, Size
<1>4. ASSUME NEW i \in Candidates
      PROVE  /\ Origin(i) \in 1..Len(listed)
             /\ Expanded[i] = [listed[Origin(i)] EXCEPT
                                 !.dtype = KvDtypes[((i - 1) % Len(KvDtypes)) + 1]]
  <2>1. (i - 1) \div Len(KvDtypes) \in 0..(Len(listed) - 1)
    BY <1>1, <1>3, Rows DEF Size
  <2>2. Origin(i) \in 1..Len(listed)
    BY <1>1, <2>1 DEF Origin
  <2>3. i \in 1..(Len(listed) * Len(KvDtypes))
    BY <1>3 DEF Size
  <2> QED
    BY <2>2, <2>3 DEF Expanded, Origin
<1>5. ASSUME NEW i \in Candidates
      PROVE  /\ Expanded[i].repo = listed[Origin(i)].repo
             /\ Expanded[i].pinned = listed[Origin(i)].pinned
             /\ Expanded[i].dtype = KvDtypes[((i - 1) % Len(KvDtypes)) + 1]
  <2> DEFINE of == listed[Origin(i)]
             dtype == KvDtypes[((i - 1) % Len(KvDtypes)) + 1]
  <2>1. of \in [repo : STRING, pinned : BOOLEAN, dtype : STRING]
    BY <1>1, <1>4
  <2>2. Expanded[i] = [of EXCEPT !.dtype = dtype]
    BY <1>4
  <2> HIDE DEF of, dtype
  <2>3. Expanded[i].repo = of.repo /\ Expanded[i].pinned = of.pinned /\ Expanded[i].dtype = dtype
    BY <2>1, <2>2, WithDtype
  <2> QED
    BY <2>3 DEF of, dtype
<1> QED
  BY <1>1, <1>2, <1>3, <1>4, <1>5

-----------------------------------------------------------------------------
(* check_pins.                                                             *)

\* A set of pairs has a first one.
LEMMA HasFirst ==
  ASSUME NEW n \in Nat, NEW T \in SUBSET (1..n), T # {}
  PROVE  \E m \in T : \A k \in T : m <= k
<1> SUFFICES ASSUME \A m \in T : \E k \in T : k < m PROVE FALSE
  OBVIOUS
<1> DEFINE Below(m) == {k \in T : k < m}
           rank == [m \in T |-> Cardinality(Below(m))]
           ranks == 1..(Cardinality(T) - 1)
<1>1. IsFiniteSet(T) /\ Cardinality(T) \in Nat
  <2>1. IsFiniteSet(1..n)
    BY FS_Interval
  <2> QED
    BY <2>1, FS_Subset, FS_CardinalityType
<1>2. IsFiniteSet(ranks) /\ Cardinality(ranks) < Cardinality(T)
  <2>1. Cardinality(T) # 0
    BY <1>1, FS_EmptySet
  <2> DEFINE c == Cardinality(T)
  <2>2. c \in Nat \ {0} /\ 1 \in Int /\ c - 1 \in Int
    BY <1>1, <2>1
  <2> HIDE DEF c
  <2>3. IsFiniteSet(1..(c - 1)) /\ Cardinality(1..(c - 1)) = IF 1 > c - 1 THEN 0 ELSE c - 1 - 1 + 1
    BY <2>2, FS_Interval
  <2>4. Cardinality(1..(c - 1)) < c
    BY <2>2, <2>3
  <2> QED
    BY <2>3, <2>4 DEF c
<1>3. ASSUME NEW m \in T PROVE IsFiniteSet(Below(m)) /\ Cardinality(Below(m)) \in ranks
  <2>1. IsFiniteSet(Below(m)) /\ Cardinality(Below(m)) <= Cardinality(T)
        /\ Cardinality(Below(m)) # Cardinality(T) /\ Cardinality(Below(m)) \in Nat
    <3>1. Below(m) \in SUBSET T /\ m \notin Below(m)
      OBVIOUS
    <3> QED
      BY <1>1, <3>1, FS_Subset, FS_CardinalityType
  <2>2. Cardinality(Below(m)) # 0
    BY <2>1, FS_EmptySet
  <2> QED
    BY <1>1, <2>1, <2>2
<1>4. rank \in [T -> ranks]
  BY <1>3
<1>5. ASSUME NEW x \in T, NEW y \in T, x < y PROVE rank[x] # rank[y]
  <2>0. \A k \in T : k \in Nat
    OBVIOUS
  <2>1. Below(x) \in SUBSET Below(y) /\ x \in Below(y) /\ x \notin Below(x)
    <3>1. \A k \in T : k < x => k < y
      BY <1>5, <2>0
    <3>2. x \in Below(y) /\ x \notin Below(x)
      BY <1>5, <2>0
    <3> QED
      BY <3>1, <3>2
  <2>2. Cardinality(Below(x)) # Cardinality(Below(y))
    BY <1>3, <2>1, FS_Subset
  <2> QED
    BY <2>2
<1>6. \A x, y \in T : x # y => rank[x] # rank[y]
  BY <1>5
<1> HIDE DEF rank, ranks
<1> QED
  BY <1>1, <1>2, <1>4, <1>6, FS_PigeonHole

\* check_pins looks at the first candidate of each repository: an unpinned one that it
\* lets through is not the first.
LEMMA PinsChecked ==
  ASSUME listed \in Matrices, Refused = {}, NEW i \in Candidates, ~Expanded[i].pinned
  PROVE  \E j \in 1..(i - 1) : Expanded[j].repo = Expanded[i].repo /\ Expanded[j].pinned
<1> DEFINE alike == {j \in 1..i : Expanded[j].repo = Expanded[i].repo}
<1>1. i \in Nat /\ i \in alike /\ alike \subseteq 1..i /\ \A j \in 1..i : j \in Candidates
  BY Pairs
<1>2. PICK f \in alike : \A k \in alike : f <= k
  BY <1>1, HasFirst
<1>3. f \in Candidates /\ Expanded[f].repo = Expanded[i].repo /\ f <= i /\ f \in Nat \ {0}
  BY <1>1, <1>2
<1>4. Expanded[f].pinned
  <2>1. \A j \in 1..(f - 1) : Expanded[j].repo # Expanded[f].repo
    <3> SUFFICES ASSUME NEW j \in 1..(f - 1), Expanded[j].repo = Expanded[i].repo PROVE FALSE
      BY <1>3
    <3>1. j \in alike /\ j < f
      BY <1>1, <1>3
    <3> QED
      BY <1>2, <1>3, <3>1
  <2> QED
    BY <1>3, <2>1 DEF Refused
<1>5. f # i
  BY <1>4
<1>6. f \in 1..(i - 1)
  BY <1>1, <1>3, <1>5
<1> QED
  BY <1>3, <1>4, <1>6

-----------------------------------------------------------------------------
(* The run.                                                                *)

Entries == [loaded : BOOLEAN, log : {Nobody} \cup Candidates, measured : BOOLEAN]

\* What run_one and main have done when they come to each step.
RunInv ==
  /\ listed \in Matrices
  /\ entry \in Entries
  /\ results \in Seq([of : Candidates, entry : Entries])
  /\ Len(results) = IF step \in {"save", "ended"} THEN Size ELSE cur - 1
  /\ \A i \in 1..Len(results) : results[i].of = i
  /\ step \in {"clear", "up", "wait", "models", "score", "drop"} => envFile = cur
  /\ step \in {"pins", "refused"} => downloaded = {}
  /\ step \notin {"pins", "refused"} => Refused = {}
  /\ downloaded \subseteq Candidates

\* Whose log is read, and what is left on the card, while docker compose works.
DockerInv ==
  ~unnoticed =>
    /\ step = "wait" => container = cur
    /\ step \in {"models", "score", "drop"} => entry.log = cur
    /\ \A i \in 1..Len(results) : results[i].entry.log = i
    /\ step \in {"save", "ended"} => state = "gone"

EvalsInv == TypeOK /\ RunInv /\ DockerInv

LEMMA InitKeeps == Init => EvalsInv
<1> SUFFICES ASSUME Init PROVE EvalsInv
  OBVIOUS
<1>1. listed \in Matrices
  BY DEF Init
<1>2. 1 \in Candidates
  BY <1>1, Pairs
<1> QED
  BY <1>1, <1>2 DEF Init, EvalsInv, TypeOK, RunInv, DockerInv, Entries, Nobody

\* What does not change listed changes neither the pairs nor what is refused.
LEMMA SameMatrix ==
  ASSUME UNCHANGED listed
  PROVE  UNCHANGED <<Expanded, Candidates, Size, Refused, Entries>>
BY DEF Expanded, Candidates, Size, Refused, Entries

LEMMA DropKeeps ==
  ASSUME EvalsInv, Drop
  PROVE  EvalsInv'
<1> USE SameMatrix DEF Nobody
<1> DEFINE new == [of |-> cur, entry |-> entry]
<1>0. listed \in Matrices /\ Size \in Nat \ {0} /\ Candidates = 1..Size /\ cur \in 1..Size
      /\ entry \in Entries /\ Len(results) = cur - 1
      /\ Len(Expanded) = Size
  BY Pairs DEF EvalsInv, RunInv, TypeOK, Drop, Expanded, Size
<1>1. /\ step = "drop" /\ ComposeDown /\ UNCHANGED <<listed, envFile, entry, downloaded>>
      /\ results' = Append(results, new)
      /\ \/ cur = Size /\ step' = "save" /\ cur' = cur
         \/ cur # Size /\ step' = "env" /\ cur' = cur + 1
  BY <1>0 DEF Drop, Record
<1>2. new \in [of : Candidates, entry : Entries]
  BY <1>0
<1>3. results \in Seq([of : Candidates, entry : Entries])
  BY DEF EvalsInv, RunInv
<1>4. /\ results' \in Seq([of : Candidates, entry : Entries])
      /\ Len(results') = cur
      /\ \A i \in 1..cur : results'[i] = IF i = cur THEN new ELSE results[i]
  <2> HIDE DEF new
  <2> QED
    BY <1>0, <1>1, <1>2, <1>3
<1>5. UNCHANGED <<Candidates, Size, Refused, Entries>>
  BY <1>1
<1>6. TypeOK'
  <2>1. state' \in {"gone", "loading", "serving", "exited"} /\ container' \in {Nobody} \cup Candidates
    BY <1>1 DEF EvalsInv, TypeOK, ComposeDown
  <2>2. cur' \in Candidates /\ (Len(results') < cur' \/ step' = "save")
    BY <1>0, <1>1, <1>4
  <2> QED
    BY <1>1, <1>5, <2>1, <2>2 DEF EvalsInv, TypeOK
<1>7. RunInv'
  <2>1. \A i \in 1..Len(results') : results'[i].of = i
    BY <1>0, <1>4 DEF EvalsInv, RunInv
  <2>2. Len(results') = IF step' \in {"save", "ended"} THEN Size ELSE cur' - 1
    BY <1>0, <1>1, <1>4
  <2> QED
    BY <1>0, <1>1, <1>4, <1>5, <2>1, <2>2 DEF EvalsInv, RunInv
<1>8. DockerInv'
  <2> SUFFICES ASSUME ~unnoticed' PROVE DockerInv!2'
    BY DEF DockerInv
  <2>1. ~unnoticed /\ state' = "gone"
    BY <1>1 DEF ComposeDown, EvalsInv
  <2>2. \A i \in 1..Len(results') : results'[i].entry.log = i
    BY <1>0, <1>1, <1>4, <2>1 DEF EvalsInv, DockerInv
  <2> QED
    BY <1>1, <2>1, <2>2
<1> QED
  BY <1>6, <1>7, <1>8 DEF EvalsInv

LEMMA StepKeeps ==
  ASSUME EvalsInv, [Next]_evalVars
  PROVE  EvalsInv'
<1> USE SameMatrix DEF Nobody
<1>1. CASE CheckPins
  BY <1>1 DEF CheckPins, docker, EvalsInv, TypeOK, RunInv, DockerInv
<1>2. CASE WriteEnv
  BY <1>2 DEF WriteEnv, docker, EvalsInv, TypeOK, RunInv, DockerInv
<1>3. CASE Clear
  BY <1>3 DEF Clear, ComposeDown, EvalsInv, TypeOK, RunInv, DockerInv
<1>4. CASE Up
  <2>1. TypeOK' /\ RunInv'
    BY <1>4 DEF Up, EvalsInv, TypeOK, RunInv
  <2>2. DockerInv'
    BY <1>4 DEF Up, EvalsInv, TypeOK, RunInv, DockerInv
  <2> QED
    BY <2>1, <2>2 DEF EvalsInv
<1>5. CASE Wait
  <2>1. PICK serving \in BOOLEAN, measured \in BOOLEAN :
          /\ entry' = [loaded |-> serving, log |-> container, measured |-> measured]
          /\ step' = IF serving THEN "models" ELSE "drop"
    BY <1>5 DEF Wait
  <2>2. step = "wait" /\ UNCHANGED <<listed, cur, envFile, results, downloaded, docker>>
    BY <1>5 DEF Wait
  <2> QED
    BY <2>1, <2>2 DEF docker, EvalsInv, TypeOK, RunInv, DockerInv, Entries
<1>6. CASE AskModels \/ Score
  BY <1>6 DEF AskModels, Score, docker, EvalsInv, TypeOK, RunInv, DockerInv
<1>7. CASE Drop
  BY <1>7, DropKeeps
<1>8. CASE Save
  BY <1>8 DEF Save, docker, EvalsInv, TypeOK, RunInv, DockerInv
<1>9. CASE Vllm
  BY <1>9 DEF Vllm, harness, EvalsInv, TypeOK, RunInv, DockerInv
<1>10. CASE UNCHANGED evalVars
  BY <1>10 DEF evalVars, harness, docker, EvalsInv, TypeOK, RunInv, DockerInv
<1> QED
  BY <1>1, <1>2, <1>3, <1>4, <1>5, <1>6, <1>7, <1>8, <1>9, <1>10 DEF Next, Harness, Ended

\* Type correctness, of the harness and of the container it drives.
THEOREM EvalsTypeCorrect == Spec => []TypeOK
<1>1. EvalsInv => TypeOK
  BY DEF EvalsInv
<1> QED
  BY <1>1, InitKeeps, StepKeeps, PTL DEF Spec

\* Whenever vLLM exits and whatever ran before, every number of a profile block is from
\* the log of the candidate's own container, as long as docker compose does what it is
\* told (run_one, profile_toml).
THEOREM NumbersStayOwn == Spec => []NumbersAreOwn
<1>1. EvalsInv => NumbersAreOwn
  BY DEF EvalsInv, RunInv, DockerInv, NumbersAreOwn, NumbersAlwaysOwn, Emitted
<1> QED
  BY <1>1, InitKeeps, StepKeeps, PTL DEF Spec

\* A run that recorded its results leaves nothing on the card, as long as docker compose
\* works (the end of run_one).
THEOREM CardIsReleased == Spec => []CardReleased
<1>1. EvalsInv => CardReleased
  BY DEF EvalsInv, DockerInv, CardReleased
<1> QED
  BY <1>1, InitKeeps, StepKeeps, PTL DEF Spec

\* A run that ended has recorded every pair of the matrix once and in order, those that
\* did not load too (Matrix.expand, main).
THEOREM PairsAreRecorded == Spec => []EveryPairRecorded
<1>1. EvalsInv => EveryPairRecorded
  <2> SUFFICES ASSUME EvalsInv, step = "ended" PROVE EveryPairRecorded!2
    BY DEF EveryPairRecorded
  <2>1. /\ listed \in Matrices /\ Len(results) = Size
        /\ \A i \in 1..Len(results) : results[i].of = i
    BY DEF EvalsInv, RunInv
  <2>2. ASSUME NEW l \in 1..Len(listed), NEW k \in 1..Len(KvDtypes)
        PROVE  LET i == (l - 1) * Len(KvDtypes) + k
               IN  /\ results[i].of = i
                   /\ Expanded[i].repo = listed[l].repo /\ Expanded[i].dtype = KvDtypes[k]
    <3> DEFINE K == Len(KvDtypes)
               i == (l - 1) * K + k
    <3>1. K \in Nat \ {0} /\ Len(listed) \in Nat \ {0} /\ l - 1 \in Nat /\ k - 1 \in 0..(K - 1)
      BY <2>1, EvalsAssumption
    <3>2. i \in 1..Size
      BY <3>1, Cells DEF Size
    <3>3. i - 1 = (l - 1) * K + (k - 1)
      BY <3>1
    <3> HIDE DEF K, i
    <3>4. (i - 1) \div K = l - 1 /\ (i - 1) % K = k - 1
      <4>1. /\ ((l - 1) * K + (k - 1)) \div K = l - 1
            /\ ((l - 1) * K + (k - 1)) % K = k - 1
        BY <3>1, Quotient
      <4> QED
        BY <3>3, <4>1
    <3>5. Origin(i) = l /\ ((i - 1) % K) + 1 = k
      BY <3>1, <3>4 DEF Origin, K
    <3>6. Expanded[i].repo = listed[l].repo /\ Expanded[i].dtype = KvDtypes[k]
      BY <2>1, <3>2, <3>5, Pairs DEF K
    <3> QED
      BY <2>1, <3>2, <3>6 DEF i, K
  <2> QED
    BY <2>1, <2>2 DEF Size
<1> QED
  BY <1>1, InitKeeps, StepKeeps, PTL DEF Spec

\* Whatever the matrix lists, and however often it lists a repository, a candidate that is
\* loaded without a pin stands behind a pinned one of its repository, which check_pins
\* looked at in its place (check_pins, main).
THEOREM UnpinnedStayBehind == Spec => []UnpinnedStandBehind
<1>1. EvalsInv => UnpinnedStandBehind
  <2> SUFFICES ASSUME EvalsInv, NEW i \in downloaded, ~Expanded[i].pinned
               PROVE  \E j \in 1..(i - 1) : Expanded[j].repo = Expanded[i].repo
                                            /\ Expanded[j].pinned
    BY DEF UnpinnedStandBehind
  <2>1. listed \in Matrices /\ Refused = {} /\ i \in Candidates
    BY DEF EvalsInv, RunInv
  <2> QED
    BY <2>1, PinsChecked
<1> QED
  BY <1>1, InitKeeps, StepKeeps, PTL DEF Spec

LEMMA Distance ==
  ASSUME NEW n \in Nat, NEW i \in 1..n, NEW j \in 1..n
  PROVE  /\ n - i \in Nat /\ n - j \in Nat
         /\ j = i => n - j = n - i
         /\ j = i + 1 => n - i = n - j + 1
OBVIOUS

\* The run makes at most eight steps for each pair and two more, for any matrix, whatever
\* vLLM and docker compose do meanwhile (main, run_one).
THEOREM RunIsBounded == Spec => RunAdvances
<1> DEFINE Advances == StepsLeft' \in 0..(StepsLeft - 1) \/ UNCHANGED harness
<1>1. ASSUME EvalsInv, EvalsInv', [Next]_evalVars PROVE Advances
  <2> DEFINE after == Size - cur
             next == Size - cur'
  <2>1. Size \in Nat /\ Size' = Size /\ cur \in 1..Size /\ cur' \in 1..Size
    <3>1. /\ listed' = listed /\ listed \in Matrices
          /\ cur \in Candidates /\ cur' \in Candidates'
      BY <1>1 DEF EvalsInv, RunInv, TypeOK, Next, Harness, Ended, Vllm, harness, evalVars, CheckPins,
                  WriteEnv, Clear, Up, Wait, AskModels, Score, Drop, Save
    <3> QED
      BY <3>1, Pairs, SameMatrix
  <2>2. /\ StepsLeft = after * 8 + CASE step = "pins" -> 9   [] step = "env" -> 8
                                      [] step = "clear" -> 7  [] step = "up" -> 6
                                      [] step = "wait" -> 5   [] step = "models" -> 4
                                      [] step = "score" -> 3  [] step = "drop" -> 2
                                      [] step = "save" -> 1   [] OTHER -> 0
        /\ StepsLeft' = next * 8 + CASE step' = "pins" -> 9   [] step' = "env" -> 8
                                        [] step' = "clear" -> 7  [] step' = "up" -> 6
                                        [] step' = "wait" -> 5   [] step' = "models" -> 4
                                        [] step' = "score" -> 3  [] step' = "drop" -> 2
                                        [] step' = "save" -> 1   [] OTHER -> 0
    BY <2>1 DEF StepsLeft, Size
  <2>3. after \in Nat /\ next \in Nat /\ (cur' = cur => next = after)
        /\ (cur' = cur + 1 => after = next + 1)
    BY <2>1, Distance
  <2> HIDE DEF after, next
  <2>4. CASE CheckPins \/ WriteEnv \/ Clear \/ Up \/ AskModels \/ Score \/ Save
    <3>1. /\ cur' = cur
          /\ \/ step = "pins" /\ step' \in {"env", "refused"}
             \/ step = "env" /\ step' = "clear"
             \/ step = "clear" /\ step' = "up"
             \/ step = "up" /\ step' = "wait"
             \/ step = "models" /\ step' \in {"score", "raised"}
             \/ step = "score" /\ step' = "drop"
             \/ step = "save" /\ step' = "ended"
      BY <2>4 DEF CheckPins, WriteEnv, Clear, Up, AskModels, Score, Save
    <3>2. next = after /\ after * 8 \in Nat
      BY <2>3, <3>1
    <3> QED
      BY <2>2, <3>1, <3>2
  <2>5. CASE Wait
    <3>1. step = "wait" /\ step' \in {"models", "drop"} /\ cur' = cur
      BY <2>5 DEF Wait
    <3> QED
      BY <2>2, <2>3, <3>1
  <2>6. CASE Drop
    <3>1. /\ step = "drop"
          /\ \/ step' = "save" /\ cur' = cur
             \/ step' = "env" /\ cur' = cur + 1
      BY <2>6 DEF Drop, Record
    <3> QED
      BY <2>2, <2>3, <3>1
  <2>7. CASE Vllm \/ UNCHANGED evalVars
    BY <2>7 DEF Vllm, evalVars
  <2> QED
    BY <1>1, <2>4, <2>5, <2>6, <2>7 DEF Next, Harness, Ended
<1>2. EvalsInv /\ EvalsInv' /\ [Next]_evalVars => [Advances]_evalVars
  BY <1>1
<1> QED
  BY <1>2, InitKeeps, StepKeeps, PTL DEF Spec, RunAdvances
=============================================================================
