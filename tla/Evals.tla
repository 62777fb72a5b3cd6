-------------------------------- MODULE Evals -------------------------------
(***************************************************************************)
(* The model evaluation of evals/: run.py drives one vLLM container        *)
(* through the matrix of candidates and the report says what each one      *)
(* measured, with a profile block for the configuration of FarmHub.        *)
(*                                                                         *)
(* The container starts, exits and stops answering on its own; docker      *)
(* compose is called without a look at its exit status.  Of a candidate    *)
(* the model keeps what the harness decides by (repository, whether its    *)
(* revision is a pin, the KV cache type); of the startup log whose it is   *)
(* and whether both memory numbers could be read; of the scores that they  *)
(* may be missing.                                                         *)
(***************************************************************************)
EXTENDS Integers, Sequences, FiniteSets

CONSTANTS
  Matrices,     \* what candidates.json may list: sequences of [repo, pinned, dtype]
  KvDtypes      \* the KV cache types asked for

ASSUME EvalsAssumption ==
  /\ \A m \in Matrices : Len(m) > 0 /\ m \in Seq([repo : STRING, pinned : BOOLEAN, dtype : STRING])
  /\ KvDtypes \in Seq(STRING) /\ Len(KvDtypes) > 0

VARIABLES
  listed,      \* the candidates of the matrix
  step,        \* the code that runs next; "ended", "refused" or "raised" in the end
  cur,         \* the candidate of run_one
  envFile,     \* the candidate deploy/vllm/.env was written for, or Nobody
  container,   \* whose container there is, or Nobody
  state,       \* of the container: "loading", "serving", "exited", or "gone"
  entry,       \* the entry of run_one: loaded, the candidate its log is of, measured
  results,     \* the candidates recorded, in order
  downloaded,  \* the candidates whose checkpoint vLLM was told to load (history)
  unnoticed    \* a call of docker compose has failed (history)

harness == <<listed, step, cur, envFile, entry, results, downloaded>>
docker == <<container, state, unnoticed>>
evalVars == <<harness, docker>>

Nobody == 0

-----------------------------------------------------------------------------
(* profile.py and check_pins.                                              *)

\* Bug: only the first KV cache type is measured.
Expanded_FirstDtype == [i \in 1..Len(listed) |-> [listed[i] EXCEPT !.dtype = KvDtypes[1]]]

\* Matrix.expand: one candidate per pair, whatever type the candidate itself names.
Expanded ==
  [i \in 1..(Len(listed) * Len(KvDtypes)) |->
     [listed[((i - 1) \div Len(KvDtypes)) + 1] EXCEPT
        !.dtype = KvDtypes[((i - 1) % Len(KvDtypes)) + 1]]]

Candidates == DOMAIN Expanded

\* Bug: what was refused is only printed.
Refused_Nobody == {}

\* check_pins: validate() of the first candidate of each repository.
Refused == {i \in Candidates : /\ ~Expanded[i].pinned
                               /\ \A j \in 1..(i - 1) : Expanded[j].repo # Expanded[i].repo}

CheckPins ==
  /\ step = "pins"
  /\ step' = IF Refused = {} THEN "env" ELSE "refused"
  /\ UNCHANGED <<listed, cur, envFile, entry, results, downloaded, docker>>

-----------------------------------------------------------------------------
(* run_one.                                                                *)

\* Bug: an .env that is there is kept.
WriteEnv_Kept ==
  /\ step = "env"
  /\ envFile' = IF envFile = Nobody THEN cur ELSE envFile
  /\ step' = "clear"
  /\ UNCHANGED <<listed, cur, entry, results, downloaded, docker>>

WriteEnv ==
  /\ step = "env"
  /\ envFile' = cur
  /\ step' = "clear"
  /\ UNCHANGED <<listed, cur, entry, results, downloaded, docker>>

\* docker compose down; its failure goes unnoticed.
ComposeDown == \/ container' = Nobody /\ state' = "gone" /\ UNCHANGED unnoticed
               \/ unnoticed' = TRUE /\ UNCHANGED <<container, state>>

Clear ==
  /\ step = "clear"
  /\ ComposeDown
  /\ step' = "up"
  /\ UNCHANGED <<listed, cur, envFile, entry, results, downloaded>>

\* docker compose up -d: a container for .env, unless there is one that runs.
Up ==
  /\ step = "up"
  /\ \/ /\ container' = envFile
        /\ state' = IF container = envFile /\ state = "serving" THEN state ELSE "loading"
        /\ downloaded' = downloaded \cup {envFile}
        /\ UNCHANGED unnoticed
     \/ unnoticed' = TRUE /\ UNCHANGED <<container, state, downloaded>>
  /\ step' = "wait"
  /\ UNCHANGED <<listed, cur, envFile, entry, results>>

\* wait_until_serving ends: /health answers, there is no container any more, or the
\* load timeout is over.  The log is captured and parsed either way.
Wait ==
  /\ step = "wait"
  /\ \E serving \in BOOLEAN, measured \in BOOLEAN :
       /\ serving => state = "serving"
       /\ measured => state # "gone"
       /\ entry' = [loaded |-> serving, log |-> container, measured |-> measured]
       /\ step' = IF serving THEN "models" ELSE "drop"
  /\ UNCHANGED <<listed, cur, envFile, results, downloaded, docker>>

\* served_models: an answer, or an exception that nothing in run_one or main catches.
AskModels ==
  /\ step = "models"
  /\ \/ state = "serving" /\ step' = "score"
     \/ step' = "raised"
  /\ UNCHANGED <<listed, cur, envFile, entry, results, downloaded, docker>>

\* score: its exceptions are recorded in the entry.
Score ==
  /\ step = "score"
  /\ step' = "drop"
  /\ UNCHANGED <<listed, cur, envFile, entry, results, downloaded, docker>>

\* Bug: main goes on past the last candidate.
Record_OneMore ==
  /\ results' = Append(results, [of |-> cur, entry |-> entry])
  /\ cur' = cur + 1
  /\ step' = IF cur > Len(Expanded) THEN "save" ELSE "env"

\* Bug: a candidate that did not load is tried again.
Record_TriesAgain ==
  IF ~entry.loaded THEN step' = "env" /\ UNCHANGED <<cur, results>>
  ELSE /\ results' = Append(results, [of |-> cur, entry |-> entry])
       /\ IF cur = Len(Expanded)
          THEN step' = "save" /\ UNCHANGED cur
          ELSE step' = "env" /\ cur' = cur + 1

\* main appends the entry and goes on to the next candidate.
Record ==
  /\ results' = Append(results, [of |-> cur, entry |-> entry])
  /\ IF cur = Len(Expanded)
     THEN step' = "save" /\ UNCHANGED cur
     ELSE step' = "env" /\ cur' = cur + 1

\* Bug: a candidate that did not load is not brought down.
Drop_OnlyLoaded ==
  /\ step = "drop"
  /\ IF entry.loaded THEN ComposeDown ELSE UNCHANGED docker
  /\ Record
  /\ UNCHANGED <<listed, envFile, entry, downloaded>>

\* The end of run_one, loaded or not: vLLM is brought down.
Drop ==
  /\ step = "drop"
  /\ ComposeDown
  /\ Record
  /\ UNCHANGED <<listed, envFile, entry, downloaded>>

\* report.save: the only time the results leave the process.
Save ==
  /\ step = "save"
  /\ step' = "ended"
  /\ UNCHANGED <<listed, cur, envFile, entry, results, downloaded, docker>>

\* vLLM: it loads or fails to, serves, and may exit at any time (restart: "no").
Vllm ==
  /\ \/ state = "loading" /\ state' = "serving"
     \/ state \in {"loading", "serving"} /\ state' = "exited"
  /\ UNCHANGED <<harness, container, unnoticed>>

-----------------------------------------------------------------------------

\* The operator's own vLLM may still run; it is nobody's of the matrix.
Init ==
  /\ listed \in Matrices
  /\ step = "pins"
  /\ cur = 1
  /\ envFile = Nobody
  /\ container = Nobody
  /\ state \in {"gone", "serving"}
  /\ entry = [loaded |-> FALSE, log |-> Nobody, measured |-> FALSE]
  /\ results = <<>>
  /\ downloaded = {}
  /\ unnoticed = FALSE

Harness == \/ CheckPins \/ WriteEnv \/ Clear \/ Up \/ Wait \/ AskModels \/ Score
           \/ Drop \/ Save

Ended == step \in {"ended", "refused", "raised"} /\ UNCHANGED evalVars

Next == Harness \/ Vllm \/ Ended

Spec == Init /\ [][Next]_evalVars

\* Every call of the harness has a timeout or ends by itself.
FairSpec == Spec /\ WF_evalVars(Harness)

\* profile_toml: the results that come with a profile block, loaded or not.
Emitted == {i \in 1..Len(results) : results[i].entry.measured}

-----------------------------------------------------------------------------
(* Properties.                                                             *)

TypeOK ==
  /\ step \in {"pins", "env", "clear", "up", "wait", "models", "score", "drop", "save",
               "ended", "refused", "raised"}
  /\ cur \in Candidates
  /\ envFile \in {Nobody} \cup Candidates
  /\ container \in {Nobody} \cup Candidates
  /\ state \in {"gone", "loading", "serving", "exited"}
  /\ Len(results) < cur \/ step \in {"save", "ended"}

\* A profile's numbers are "measured rather than estimated": those of every profile block
\* were read from the log of the candidate's own container (run_one, profile_toml).
NumbersAlwaysOwn == \A i \in Emitted : results[i].entry.log = results[i].of

\* It holds as long as docker compose does what it is told, whenever vLLM exits and
\* whatever container was there before.
NumbersAreOwn == ~unnoticed => NumbersAlwaysOwn

\* "A candidate that will not load is recorded as such and the run continues": a run that
\* ended has recorded every pair of the matrix once, in order.
EveryPairRecorded ==
  step = "ended" =>
    /\ Len(results) = Len(listed) * Len(KvDtypes)
    /\ \A l \in 1..Len(listed), k \in 1..Len(KvDtypes) :
         LET i == (l - 1) * Len(KvDtypes) + k
         IN  /\ results[i].of = i
             /\ Expanded[i].repo = listed[l].repo /\ Expanded[i].dtype = KvDtypes[k]

\* What check_pins lets be loaded without a pin stands behind a pinned candidate of its
\* repository, in matrices that list a repository twice too.
UnpinnedStandBehind ==
  \A i \in downloaded : ~Expanded[i].pinned =>
    \E j \in 1..(i - 1) : Expanded[j].repo = Expanded[i].repo /\ Expanded[j].pinned

\* "Never download anything for a candidate that is not properly pinned."  Not so of a
\* repository's second candidate: see MCEvalsPins.cfg.
OnlyPinnedDownloaded == \A i \in downloaded : Expanded[i].pinned

\* "Each candidate is a full cycle: ... bring it down": a run that recorded its results
\* leaves nothing on the card, as long as docker compose works.
CardReleased == step \in {"save", "ended"} /\ ~unnoticed => state = "gone"

\* The same of a run that ends in any way.
CardReleasedAlways ==
  step \in {"save", "ended", "raised"} /\ ~unnoticed => state = "gone"

\* "A candidate that already names a dtype other than the default is left alone: it was
\* pinned deliberately" (Matrix.expand).
DeliberateDtypeKept ==
  \A i \in downloaded :
    LET named == listed[((i - 1) \div Len(KvDtypes)) + 1].dtype
    IN  named # "auto" => Expanded[i].dtype = named

\* How many steps run.py has left at most: eight for each pair after the one at hand.
StepsLeft ==
  (Len(listed) * Len(KvDtypes) - cur) * 8 +
  CASE step = "pins" -> 9   [] step = "env" -> 8     [] step = "clear" -> 7
    [] step = "up" -> 6     [] step = "wait" -> 5    [] step = "models" -> 4
    [] step = "score" -> 3  [] step = "drop" -> 2    [] step = "save" -> 1
    [] OTHER -> 0

\* No step of the harness takes it back: it makes at most eight for a pair, and two more.
RunAdvances == [][StepsLeft' \in 0..(StepsLeft - 1) \/ UNCHANGED harness]_evalVars

\* The run ends, whatever vLLM does.
RunEnds == <>(step \in {"ended", "refused", "raised"})
=============================================================================
