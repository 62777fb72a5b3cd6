---------------------------- MODULE StartupProofs ---------------------------
(***************************************************************************)
(* What holds of every process that serves, whatever the layers, profiles  *)
(* and registry files are.                                                 *)
(***************************************************************************)
EXTENDS Startup, TLAPS

(* In exact arithmetic the first of the three budget checks of                *)
(* ModelProfile._check never decides: what leaves the auxiliary models their  *)
(* memory and fits vLLM's share fits the card.                                *)
THEOREM SumCheckIsRedundant ==
  ASSUME NEW p \in Profiles, LeavesAux(p), FitsShare(p)
  PROVE  FitsCard(p)
<1> DEFINE share == p.util * p.card
<1>1. /\ p.weights \in Int /\ p.kv \in Int /\ p.aux \in Int
      /\ p.card \in Int /\ p.util \in Int
  BY StartupAssumption
<1>2. share \in Int
  BY <1>1
<1>3. (100 - p.util) * p.card = 100 * p.card - share
  BY <1>1
<1>4. 100 * p.aux <= 100 * p.card - share
  BY <1>3 DEF LeavesAux
<1>5. 100 * (p.weights + p.kv) <= share
  BY DEF FitsShare
<1> HIDE DEF share
<1>6. p.weights + p.kv + p.aux <= p.card
  BY <1>1, <1>2, <1>4, <1>5
<1> QED
  BY <1>6 DEF FitsCard

(* What the checks of load_settings and load_satellites have established is   *)
(* still true at every later stage.                                           *)
StartupInv ==
  /\ stage \in {"token", "satellites", "announce", "serving"} =>
       (profile # NoProfile => Accepted(profile))
  /\ \A sat \in registered : SoundSatellite(sat)
  /\ OneDeviceEach(registered)

(* No process serves with a budget that exceeds the card or with an unsound   *)
(* satellite.                                                                 *)
THEOREM ServesSoundly == Spec => []NothingUnsoundServes
<1>1. Init => StartupInv
  BY DEF Init, StartupInv, OneDeviceEach
<1>2. StartupInv /\ [Next]_startupVars => StartupInv'
  <2> SUFFICES ASSUME StartupInv, [Next]_startupVars PROVE StartupInv'
    OBVIOUS
  <2> USE DEF StartupInv, inputs
  <2>1. CASE CheckEnv
    BY <2>1 DEF CheckEnv, Exit, Accepted, FitsCard, LeavesAux, FitsShare, OneDeviceEach
  <2>2. CASE Load
    BY <2>2 DEF Load, Exit, Valid, Accepted, FitsCard, LeavesAux, FitsShare, OneDeviceEach
  <2>3. CASE ResolveToken
    BY <2>3 DEF ResolveToken, Exit, Accepted, FitsCard, LeavesAux, FitsShare, OneDeviceEach
  <2>4. CASE LoadSatellites
    BY <2>4 DEF LoadSatellites, Exit, Accepted, FitsCard, LeavesAux, FitsShare, OneDeviceEach
  <2>5. CASE Announce
    BY <2>5 DEF Announce, Accepted, FitsCard, LeavesAux, FitsShare, OneDeviceEach
  <2>6. CASE UNCHANGED startupVars
    BY <2>6 DEF startupVars, Accepted, FitsCard, LeavesAux, FitsShare, OneDeviceEach
  <2> QED
    BY <2>1, <2>2, <2>3, <2>4, <2>5, <2>6 DEF Next
<1>3. StartupInv => NothingUnsoundServes
  BY DEF StartupInv, NothingUnsoundServes, Accepted, SoundSatellite
<1> QED
  BY <1>1, <1>2, <1>3, PTL DEF Spec

(* The value in force is that of the first layer that names the setting.      *)
LEMMA FirstThatSpeaks ==
  ASSUME NEW k \in Keys, NEW v, v # Defaults[k], v # Unset, Defaults[k] # Unset,
         Effective(k, Precedence(toml)) = v
  PROVE  \/ cli[k] = v
         \/ cli[k] = Unset /\ env[k] = v
         \/ cli[k] = Unset /\ env[k] = Unset /\ toml[k] = v
<1> DEFINE layers == Precedence(toml)
           named == {i \in DOMAIN layers : layers[i][k] # Unset}
           first == CHOOSE i \in named : \A j \in named : i <= j
<1>1. /\ DOMAIN layers = 1..4
      /\ layers[1] = cli /\ layers[2] = env /\ layers[3] = toml /\ layers[4] = Defaults
  BY DEF Precedence
<1>2. 4 \in named
  BY <1>1
<1>3. \E i \in named : \A j \in named : i <= j
  <2> HIDE DEF layers
  <2>1. named \subseteq 1..4 /\ named # {}
    BY <1>1, <1>2
  <2>2. CASE 1 \in named
    BY <2>1, <2>2
  <2>3. CASE 1 \notin named /\ 2 \in named
    BY <2>1, <2>3
  <2>4. CASE 1 \notin named /\ 2 \notin named /\ 3 \in named
    BY <2>1, <2>4
  <2>5. CASE 1 \notin named /\ 2 \notin named /\ 3 \notin named
    BY <2>1, <1>2, <2>5
  <2> QED
    BY <2>2, <2>3, <2>4, <2>5
<1>4. first \in named /\ \A j \in named : first <= j
  BY <1>3
<1>5. layers[first][k] = v
  BY <1>2 DEF Effective
<1> HIDE DEF layers, first
<1>6. first \in 1..3
  BY <1>1, <1>4, <1>5
<1>7. CASE first = 1
  BY <1>1, <1>5, <1>7
<1>8. CASE first = 2
  BY <1>1, <1>4, <1>5, <1>8
<1>9. CASE first = 3
  BY <1>1, <1>4, <1>5, <1>9
<1> QED
  BY <1>6, <1>7, <1>8, <1>9

(* Past load_settings the settings are what the layers say, and a process     *)
(* that serves has logged its warnings.                                       *)
SettingsInv ==
  /\ stage \in {"token", "satellites", "announce", "serving"} =>
       settings = [k \in Keys |-> Effective(k, Precedence(toml))]
  /\ stage = "serving" => warned = Warnings

(* Dry-run is off only where the highest layer that names it says off, and    *)
(* never without the warning.                                                 *)
THEOREM DryRunStaysOn ==
  ASSUME Unset \notin {"on", "off"}
  PROVE  Spec => []DryRunIsExplicit
<1>1. Init => SettingsInv
  BY DEF Init, SettingsInv
<1>2. SettingsInv /\ [Next]_startupVars => SettingsInv'
  <2> SUFFICES ASSUME SettingsInv, [Next]_startupVars PROVE SettingsInv'
    OBVIOUS
  <2> USE DEF SettingsInv, inputs, Precedence, Effective, Warnings
  <2>1. CASE CheckEnv
    BY <2>1 DEF CheckEnv, Exit
  <2>2. CASE Load
    BY <2>2 DEF Load, Exit
  <2>3. CASE ResolveToken
    <3>1. UNCHANGED <<inputs, settings>> /\ stage = "token" /\ stage' # "serving"
      BY <2>3 DEF ResolveToken, Exit
    <3> QED
      BY <3>1
  <2>4. CASE LoadSatellites
    BY <2>4 DEF LoadSatellites, Exit
  <2>5. CASE Announce
    BY <2>5 DEF Announce
  <2>6. CASE UNCHANGED startupVars
    BY <2>6 DEF startupVars
  <2> QED
    BY <2>1, <2>2, <2>3, <2>4, <2>5, <2>6 DEF Next
<1>3. SettingsInv => DryRunIsExplicit
  <2> SUFFICES ASSUME SettingsInv, stage = "serving", settings["dry_run"] = "off"
               PROVE  /\ \/ cli["dry_run"] = "off"
                         \/ cli["dry_run"] = Unset /\ env["dry_run"] = "off"
                         \/ /\ cli["dry_run"] = Unset /\ env["dry_run"] = Unset
                            /\ toml["dry_run"] = "off"
                      /\ "dry_run_disabled" \in warned
    BY DEF DryRunIsExplicit
  <2>1. "dry_run" \in Keys /\ Defaults["dry_run"] = "on"
    BY DEF Keys, Defaults
  <2>2. Effective("dry_run", Precedence(toml)) = "off"
    BY <2>1 DEF SettingsInv
  <2>3. "dry_run_disabled" \in warned
    BY DEF SettingsInv, Warnings
  <2>4. Defaults["dry_run"] # "off"
    BY <2>1
  <2>5. \/ cli["dry_run"] = "off"
        \/ cli["dry_run"] = Unset /\ env["dry_run"] = "off"
        \/ cli["dry_run"] = Unset /\ env["dry_run"] = Unset /\ toml["dry_run"] = "off"
    <3> HIDE DEF Keys, Defaults
    <3>1. "off" # Unset /\ Defaults["dry_run"] # Unset
      BY <2>1
    <3> QED
      BY <2>1, <2>2, <2>4, <3>1, FirstThatSpeaks
  <2> QED
    BY <2>3, <2>5
<1> QED
  BY <1>1, <1>2, <1>3, PTL DEF Spec

(* The stages follow each other as the code runs them, and past create_app's  *)
(* check there is a token, if only an empty one.                              *)
THEOREM StartupTypeCorrect ==
  ASSUME Unset # "from file"
  PROVE  Spec => []TypeOK
<1> DEFINE Typed == TypeOK /\ tokenFile \in {"unreadable", "", "from file"}
<1>1. Init => Typed
  BY DEF Init, TypeOK, Stages, Defaults
<1>2. Typed /\ [Next]_startupVars => Typed'
  <2> SUFFICES ASSUME Typed, [Next]_startupVars PROVE Typed'
    OBVIOUS
  <2> USE DEF TypeOK, Stages, inputs
  <2>1. CASE CheckEnv
    BY <2>1 DEF CheckEnv, Exit
  <2>2. CASE Load
    BY <2>2 DEF Load, Exit
  <2>3. CASE ResolveToken
    BY <2>3 DEF ResolveToken, Exit
  <2>4. CASE LoadSatellites
    BY <2>4 DEF LoadSatellites, Exit
  <2>5. CASE Announce
    BY <2>5 DEF Announce, Warnings
  <2>6. CASE UNCHANGED startupVars
    BY <2>6 DEF startupVars
  <2> QED
    BY <2>1, <2>2, <2>3, <2>4, <2>5, <2>6 DEF Next
<1>3. Typed => TypeOK
  OBVIOUS
<1> QED
  BY <1>1, <1>2, <1>3, PTL DEF Spec
=============================================================================
