------------------------------- MODULE Startup ------------------------------
(***************************************************************************)
(* How farmhub serve gets from its inputs to a serving process:            *)
(* farmhub/__main__.py, load_settings and Settings of core/config.py,      *)
(* load_satellites of core/satellites.py, and create_app and _startup of   *)
(* api/server.py, in the order the code runs them.  Any ConfigError ends   *)
(* the process with EXIT_INVALID_CONFIG before anything was started.       *)
(*                                                                         *)
(* The inputs are the command line, the environment, the TOML file, the    *)
(* token file and the satellite registry file.  Of the settings the model  *)
(* keeps those a check or a property reads; sizes are whole numbers and    *)
(* the utilization is in per cent, where the code has floats.              *)
(***************************************************************************)
EXTENDS Integers, FiniteSets, Sequences

CONSTANTS
  Layers,      \* what the environment and the TOML file may set: [Keys -> value or Unset]
  Profiles,    \* what the block [profiles.<name>] that llm.profile names may hold
  Registries,  \* the sets of satellites the registry file may list
  Unset        \* a setting that a layer does not name

\* Sizes are not negative, the utilization is a share; both come out of the validators
\* of the fields, before _check.
ASSUME StartupAssumption ==
  \A p \in Profiles : /\ p.weights \in Nat /\ p.kv \in Nat /\ p.aux \in Nat
                       /\ p.card \in Nat /\ p.util \in 1..100

Keys == {"dry_run", "token", "token_file", "profile", "registry"}

CONFIRMED == 2

VARIABLES
  cli, env, toml,    \* the layers
  envTypo,           \* a FARMHUB_* variable matches no setting
  file,              \* the TOML file: "default", "explicit", "missing" (and explicit),
                     \* "broken" (no TOML), "typo" (an unknown key)
  profile,           \* the profile block, or NoProfile
  tokenFile,         \* the text of the token file, stripped; "unreadable" if it is
  registryFile,      \* "missing", "broken" or "good"
  listed,            \* the satellites the registry file lists
  stage,             \* the code that runs next; "exited" or "serving" in the end
  settings,          \* the Settings object
  token,             \* the bearer token of the guard
  registered,        \* the SatelliteRegistry
  warned             \* the safety warnings in the log

inputs == <<cli, env, toml, envTypo, file, profile, tokenFile, registryFile, listed>>
startupVars == <<inputs, stage, settings, token, registered, warned>>

NoProfile == [pinned |-> FALSE, weights |-> 0, kv |-> 0, aux |-> 0, card |-> 0, util |-> 0]

Exit == stage' = "exited" /\ UNCHANGED <<inputs, settings, token, registered, warned>>

-----------------------------------------------------------------------------
(* load_settings                                                           *)

Defaults == [k \in Keys |-> IF k = "dry_run" THEN "on" ELSE Unset]

\* Bug: the TOML file comes before the environment.
Precedence_FileFirst(fromFile) == <<cli, fromFile, env, Defaults>>

\* settings_customise_sources: init (CLI), environment, TOML, and the code defaults.
Precedence(fromFile) == <<cli, env, fromFile, Defaults>>

\* The first layer that names the setting.
Effective(k, layers) ==
  LET named == {i \in DOMAIN layers : layers[i][k] # Unset}
  IN  IF named = {} THEN Unset
      ELSE layers[CHOOSE i \in named : \A j \in named : i <= j][k]

\* _check_env_typos
CheckEnv ==
  /\ stage = "env"
  /\ \/ envTypo /\ Exit
     \/ ~envTypo /\ stage' = "load" /\ UNCHANGED <<inputs, settings, token, registered, warned>>

FitsCard(p) == p.weights + p.kv + p.aux <= p.card
LeavesAux(p) == 100 * p.aux <= (100 - p.util) * p.card
FitsShare(p) == 100 * (p.weights + p.kv) <= p.util * p.card

\* Bug: only the free memory for the auxiliary models is checked.
Accepted_AuxOnly(p) == p.pinned /\ LeavesAux(p)

\* ModelProfile._check
Accepted(p) == p.pinned /\ FitsCard(p) /\ LeavesAux(p) /\ FitsShare(p)

\* The validators: ApiSettings._one_source, ModelProfile._check, Settings._profile_exists.
Valid(s) ==
  /\ s["token"] = Unset \/ s["token_file"] = Unset
  /\ profile # NoProfile => Accepted(profile)
  /\ s["profile"] # Unset => profile # NoProfile

\* An absent default file is an empty layer; an explicit one must be there and be TOML.
Load ==
  LET s == [k \in Keys |-> Effective(k, Precedence(toml))]
  IN  /\ stage = "load"
      /\ \/ (file \in {"missing", "broken", "typo"} \/ ~Valid(s)) /\ Exit
         \/ /\ file \in {"default", "explicit"} /\ Valid(s)
            /\ settings' = s
            /\ stage' = "token"
            /\ UNCHANGED <<inputs, token, registered, warned>>

-----------------------------------------------------------------------------
(* create_app and _startup                                                 *)

\* Bug: no token is taken for a token.
ResolveToken_NoneServes ==
  /\ stage = "token"
  /\ token' = settings["token"]
  /\ stage' = "satellites"
  /\ UNCHANGED <<inputs, settings, registered, warned>>

\* resolve_api_token, and create_app's refusal to go on with None.
ResolveToken ==
  /\ stage = "token"
  /\ \/ /\ settings["token"] # Unset
        /\ token' = settings["token"]
        /\ stage' = "satellites"
        /\ UNCHANGED <<inputs, settings, registered, warned>>
     \/ /\ settings["token"] = Unset /\ settings["token_file"] # Unset
        /\ tokenFile \notin {"unreadable", ""}
        /\ token' = tokenFile
        /\ stage' = "satellites"
        /\ UNCHANGED <<inputs, settings, registered, warned>>
     \/ /\ settings["token"] = Unset
        /\ settings["token_file"] = Unset \/ tokenFile \in {"unreadable", ""}
        /\ Exit

\* The validators of Satellite.
SoundSatellite(sat) == sat.ceiling <= CONFIRMED /\ sat.home \in sat.scope

\* SatelliteRegistry: a device is in it once.
OneDeviceEach(sats) == \A s, t \in sats : s.device = t.device => s = t

\* load_satellites
LoadSatellites ==
  /\ stage = "satellites"
  /\ \/ /\ settings["registry"] = Unset
        /\ stage' = "announce"
        /\ UNCHANGED <<inputs, settings, token, registered, warned>>
     \/ /\ settings["registry"] # Unset
        /\ registryFile = "good"
        /\ \A sat \in listed : SoundSatellite(sat)
        /\ OneDeviceEach(listed)
        /\ registered' = listed
        /\ stage' = "announce"
        /\ UNCHANGED <<inputs, settings, token, warned>>
     \/ /\ settings["registry"] # Unset
        /\ registryFile # "good" \/ ~OneDeviceEach(listed)
           \/ \E sat \in listed : ~SoundSatellite(sat)
        /\ Exit

\* safety_warnings
Warnings == (IF settings["dry_run"] = "off" THEN {"dry_run_disabled"} ELSE {}) \cup
            (IF settings["registry"] = Unset THEN {"no_satellite_registry"} ELSE {})

\* log_effective_safety_settings, before the first module is started.
Announce ==
  /\ stage = "announce"
  /\ warned' = Warnings
  /\ stage' = "serving"
  /\ UNCHANGED <<inputs, settings, token, registered>>

-----------------------------------------------------------------------------

\* The command line names dry_run or nothing.
Init ==
  /\ cli \in {[k \in Keys |-> IF k = "dry_run" THEN v ELSE Unset] : v \in {"on", "off", Unset}}
  /\ env \in Layers /\ toml \in Layers
  /\ envTypo \in BOOLEAN
  /\ file \in {"default", "explicit", "missing", "broken", "typo"}
  /\ profile \in Profiles \cup {NoProfile}
  /\ tokenFile \in {"unreadable", "", "from file"}
  /\ registryFile \in {"missing", "broken", "good"}
  /\ listed \in Registries
  /\ stage = "env"
  /\ settings = Defaults
  /\ token = Unset
  /\ registered = {}
  /\ warned = {}

Next == CheckEnv \/ Load \/ ResolveToken \/ LoadSatellites \/ Announce

Spec == Init /\ [][Next]_startupVars

-----------------------------------------------------------------------------
(* Properties.                                                             *)

Stages == {"env", "load", "token", "satellites", "announce", "serving", "exited"}

\* The types; past create_app's check there is a token.
TypeOK ==
  /\ stage \in Stages
  /\ DOMAIN settings = Keys
  /\ stage \in {"satellites", "announce", "serving"} => token # Unset
  /\ registered \subseteq listed
  /\ warned \subseteq {"dry_run_disabled", "no_satellite_registry"}

\* "Dry-run is ON unless something explicitly turns it off", and then the log says so:
\* a process that serves with dry-run off was told so by the highest layer that speaks
\* of it, whatever the layers below it say.
DryRunIsExplicit ==
  stage = "serving" /\ settings["dry_run"] = "off" =>
    /\ \/ cli["dry_run"] = "off"
       \/ cli["dry_run"] = Unset /\ env["dry_run"] = "off"
       \/ cli["dry_run"] = Unset /\ env["dry_run"] = Unset /\ toml["dry_run"] = "off"
    /\ "dry_run_disabled" \in warned

\* What serves fits the card together with the models beside it, and knows no satellite
\* above T2, outside its own scope, or with the device of another.
NothingUnsoundServes ==
  stage = "serving" =>
    /\ profile # NoProfile => FitsCard(profile)
    /\ \A sat \in registered : sat.ceiling <= CONFIRMED /\ sat.home \in sat.scope
    /\ OneDeviceEach(registered)

\* docs/RUNBOOK.md: "It has no safe default, so farmhub serve refuses to start without
\* one".  Not so for an empty one: FARMHUB_API__TOKEN= is set, only to nothing.
ServesWithToken == stage = "serving" => token \notin {Unset, ""}
=============================================================================
