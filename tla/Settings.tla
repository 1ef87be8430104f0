------------------------------ MODULE Settings ------------------------------
(***************************************************************************)
(* Where a process gets its settings from (src/src/core/config_manager.rs) *)
(* and how the setup wizard (src/src/cli/setup_wizard.rs) writes them, and *)
(* API keys if the operator agrees, for later processes to find.           *)
(*                                                                         *)
(* A layer is a function from the settings it has to their values; that of *)
(* "custom_providers" is a function from names to endpoints.  The layers   *)
(* below the global file are read the same way and never written, and no   *)
(* command passes flags: left out.                                         *)
(***************************************************************************)
EXTENDS Naturals, Sequences, Functions

CONSTANTS
    Setting,    \* the plain settings
    Asked,      \* those the wizard writes
    Checked,    \* those that are not free text: numbers, the transport
    Value,      \* values of settings,
    Legal,      \*   and which of them are accepted for those
    KeyOwner,   \* whose keys the wizard saves: Firecrawl, LLM providers,
    CustomName, \*   among them the custom ones
    Url,
    Key,        \* API keys
    EnvVar,     \* names of environment variables
    SettingEnv, \* a setting's variable,
    UrlEnv,     \*   that of a custom endpoint: custom_provider_base_url_env_name,
    NameIn,     \*   the name custom_provider_env_overrides reads back out of it,
    KeyEnv,     \*   and the one an owner's key is expected in
    Unset,
    InShell,    \* what a shell that sources KEY=value makes of the value, which
                \* is not quoted: itself, something else, or Unset if it sets none
    MaxRuns     \* bound: runs of the wizard, edits and sourcings

CustomProviders == "custom_providers"

ASSUME SettingsAssumption ==
    /\ Asked \subseteq Setting /\ Checked \subseteq Setting /\ CustomProviders \notin Setting
    /\ CustomName \subseteq KeyOwner /\ Legal \subseteq Value /\ MaxRuns \in Nat
    /\ SettingEnv \in [Setting -> EnvVar] /\ KeyEnv \in [KeyOwner -> EnvVar]
    /\ UrlEnv \in [CustomName -> EnvVar] /\ DOMAIN NameIn = Range(UrlEnv)
    /\ Unset \notin Value \cup Url \cup Key
    /\ DOMAIN InShell = Value \cup Url \cup Key /\ \A v \in Legal : InShell[v] = v

VARIABLES
    layer,      \* the local and the global file
    environ,    \* the environment of the operator's shell
    dotenv,     \* the .env file, which nothing loads by itself
    storedKey,  \* the saved keys
    wizard,     \* a run of the wizard
    agreed,     \* history: the keys let into .env by the last run that asked for them
                \* and wrote .env, and whose they are
    runs        \* bound: see MaxRuns

settingsVars == <<layer, environ, dotenv, storedKey, wizard, agreed, runs>>

ConfigFile == {"local", "global"}

NoSettings == [k \in {} |-> Unset]

Only(f, v) == [k \in {f} |-> v]

\* What top does not have is taken from below.
Over(top, below) ==
    [k \in DOMAIN top \cup DOMAIN below |-> IF k \in DOMAIN top THEN top[k] ELSE below[k]]

NoEnv == [k \in EnvVar |-> Unset]

(***************************************************************************)
(* A run of the wizard: the settings it was given, the custom providers    *)
(* and keys in the order they were given, the custom providers it found,   *)
(* whose keys are new, how many were asked to be revealed, and which are.  *)
(***************************************************************************)
NoRun == [at |-> "idle", settings |-> NoSettings, custom |-> <<>>, found |-> NoSettings,
          keys |-> <<>>, new |-> {}, asked |-> 0, revealed |-> {}]

SettingsInit ==
    /\ layer = [l \in ConfigFile |-> NoSettings]
    /\ environ = NoEnv /\ dotenv = NoEnv
    /\ storedKey = [o \in KeyOwner |-> Unset]
    /\ wizard = NoRun
    /\ agreed = {} /\ runs = 0

-----------------------------------------------------------------------------
(***************************************************************************)
(* load_config: every setting from the first layer that has it.  The map   *)
(* of custom providers is one setting: it is taken whole from one layer.   *)
(* One setting that is not accepted, and nothing is loaded at all.         *)
(***************************************************************************)
EnvOverrides(env) ==
    LET urls == {k \in Range(UrlEnv) : env[k] # Unset}
    IN  Over([f \in {g \in Setting : env[SettingEnv[g]] # Unset} |-> env[SettingEnv[f]]],
             IF urls = {} THEN NoSettings
             ELSE Only(CustomProviders, [n \in {NameIn[k] : k \in urls} |->
                                            env[CHOOSE k \in urls : NameIn[k] = n]]))

Merged(env, files) == Over(EnvOverrides(env), Over(files["local"], files["global"]))

IsValid(config) == \A f \in Checked \cap DOMAIN config : config[f] \in Legal

LoadConfig(env, files) ==
    LET merged == Merged(env, files)
    IN  [ok |-> IsValid(merged), config |-> IF IsValid(merged) THEN merged ELSE NoSettings]

CustomOf(config) == IF CustomProviders \in DOMAIN config THEN config[CustomProviders]
                    ELSE NoSettings

\* existing_config_or_defaults: no custom provider is known if nothing can be loaded.
ExistingOrDefaults == LoadConfig(environ, layer).config

-----------------------------------------------------------------------------
(***************************************************************************)
(* The wizard asks, in this order: for the settings, for providers and     *)
(* their keys, for every key whether to reveal it, and where to write.     *)
(* New keys are saved before the first of them is offered to be revealed.  *)
(* Every question can be the last: the operator cancels it.  The one       *)
(* setting it asks for that is not free text is picked from a list.        *)
(***************************************************************************)
StartWizard(settings) ==
    /\ wizard.at = "idle" /\ runs < MaxRuns
    /\ IsValid(settings)
    /\ wizard' = [NoRun EXCEPT !.at = "providers", !.settings = settings,
                               !.found = CustomOf(ExistingOrDefaults)]
    /\ runs' = runs + 1
    /\ UNCHANGED <<layer, environ, dotenv, storedKey, agreed>>

\* What prompt_provider_api_key can come back with: a saved key, a new one, or none.
KeyAnswers(o) == {storedKey[o], Unset} \cup Key

WithKey(run, o, key) ==
    IF key = Unset THEN run
    ELSE [run EXCEPT !.keys = Append(@, [owner |-> o, key |-> key]),
                     !.new = IF key = storedKey[o] THEN @ ELSE @ \cup {o}]

NotAskedYet(o) ==
    /\ \A k \in Range(wizard.keys) : k.owner # o
    /\ \A c \in Range(wizard.custom) : c.name # o

\* Firecrawl and the known providers come before the custom ones.
AnswerKey(o, key) ==
    /\ wizard.at = "providers" /\ o \notin CustomName /\ wizard.custom = <<>>
    /\ NotAskedYet(o) /\ key \in KeyAnswers(o) \ {Unset}
    /\ wizard' = WithKey(wizard, o, key)
    /\ UNCHANGED <<layer, environ, dotenv, storedKey, agreed, runs>>

\* An endpoint that is known by the name is taken over without a question.
AddCustomProvider(n, url, key) ==
    /\ wizard.at = "providers" /\ NotAskedYet(n)
    /\ n \in DOMAIN wizard.found => url = wizard.found[n]
    /\ key \in KeyAnswers(n)
    /\ wizard' = WithKey([wizard EXCEPT !.custom = Append(@, [name |-> n, url |-> url])], n, key)
    /\ UNCHANGED <<layer, environ, dotenv, storedKey, agreed, runs>>

\* The last element of s that is in set: what inserting those in order leaves.
Latest(s, set) ==
    s[CHOOSE i \in DOMAIN s : s[i] \in set /\ \A j \in DOMAIN s : s[j] \in set => j <= i]

SaveNewKeys ==
    /\ wizard.at = "providers"
    /\ storedKey' = [o \in KeyOwner |->
                       IF o \in wizard.new
                       THEN Latest(wizard.keys, {k \in Range(wizard.keys) : k.owner = o}).key
                       ELSE storedKey[o]]
    /\ wizard' = [wizard EXCEPT !.at = "reveal"]
    /\ UNCHANGED <<layer, environ, dotenv, agreed, runs>>

AnswerReveal(yes) ==
    /\ wizard.at = "reveal" /\ wizard.asked < Len(wizard.keys)
    /\ wizard' = [wizard EXCEPT !.asked = @ + 1,
                                !.revealed = IF yes THEN @ \cup {wizard.keys[wizard.asked + 1]} ELSE @]
    /\ UNCHANGED <<layer, environ, dotenv, storedKey, agreed, runs>>

MayWrite == wizard.at = "reveal" /\ wizard.asked = Len(wizard.keys)

(***************************************************************************)
(* The variables of this run: its settings, its endpoints, and whatever    *)
(* key of it has a variable that was revealed.                             *)
(***************************************************************************)
EnvOf(k) == KeyEnv[k.owner]

RunVars ==
    LET keys == [v \in {EnvOf(k) : k \in wizard.revealed} |->
                    Latest(wizard.keys, {k \in Range(wizard.keys) : EnvOf(k) = v}).key]
        urls == [v \in {UrlEnv[c.name] : c \in Range(wizard.custom)} |->
                    Latest(wizard.custom, {c \in Range(wizard.custom) : UrlEnv[c.name] = v}).url]
        settings == [v \in {SettingEnv[f] : f \in DOMAIN wizard.settings} |->
                        wizard.settings[CHOOSE f \in DOMAIN wizard.settings : SettingEnv[f] = v]]
    IN  Over(keys, Over(urls, settings))

\* History: what is said in a run that writes .env replaces what was said of the same owners.
Agreed == {k \in agreed : \A l \in Range(wizard.keys) : l.owner # k.owner} \cup wizard.revealed

\* Wrong on purpose: what an earlier run left in .env is only overwritten, never removed.
WriteDotenvOver ==
    /\ MayWrite
    /\ dotenv' = Over(RunVars, dotenv)
    /\ agreed' = Agreed
    /\ wizard' = NoRun
    /\ UNCHANGED <<layer, environ, storedKey, runs>>

(***************************************************************************)
(* persist_selection_at, to .env: the file is merged with, and variables   *)
(* of this run's keys are taken out of it first, so that a key that is     *)
(* declined now does not stay from an earlier run.                         *)
(***************************************************************************)
WriteDotenv ==
    /\ MayWrite
    /\ LET secret == {EnvOf(k) : k \in Range(wizard.keys)}
       IN  dotenv' = Over(RunVars, [v \in EnvVar |-> IF v \in secret THEN Unset ELSE dotenv[v]])
    /\ agreed' = Agreed
    /\ wizard' = NoRun
    /\ UNCHANGED <<layer, environ, storedKey, runs>>

(***************************************************************************)
(* write_config_yaml: merged into the file by setting, and its custom      *)
(* providers by name.  Never a key.                                        *)
(***************************************************************************)
CustomGiven == [n \in {c.name : c \in Range(wizard.custom)} |->
                  Latest(wizard.custom, {c \in Range(wizard.custom) : c.name = n}).url]

CustomMap(providers) ==
    IF wizard.custom = <<>> THEN NoSettings ELSE Only(CustomProviders, providers)

\* Wrong on purpose: the map of custom providers is replaced as a whole.
WriteConfigYamlShallow(l) ==
    /\ MayWrite
    /\ layer' = [layer EXCEPT ![l] = Over(CustomMap(CustomGiven), Over(wizard.settings, @))]
    /\ wizard' = NoRun
    /\ UNCHANGED <<environ, dotenv, storedKey, agreed, runs>>

\* Wrong on purpose: what the file has already wins.
WriteConfigYamlUnder(l) ==
    /\ MayWrite
    /\ layer' = [layer EXCEPT ![l] = Over(@, Over(CustomMap(CustomGiven), wizard.settings))]
    /\ wizard' = NoRun
    /\ UNCHANGED <<environ, dotenv, storedKey, agreed, runs>>

WriteConfigYaml(l) ==
    /\ MayWrite
    /\ layer' = [layer EXCEPT ![l] = Over(CustomMap(Over(CustomGiven, CustomOf(@))), Over(wizard.settings, @))]
    /\ wizard' = NoRun
    /\ UNCHANGED <<environ, dotenv, storedKey, agreed, runs>>

\* The settings are printed instead, or a question is cancelled: saved keys stay saved.
LeaveWizard ==
    /\ wizard.at # "idle" /\ wizard' = NoRun
    /\ UNCHANGED <<layer, environ, dotenv, storedKey, agreed, runs>>

-----------------------------------------------------------------------------
(***************************************************************************)
(* What the operator does: sources .env (`set -a; source .env; set +a`),   *)
(* opens another shell, edits a file by hand.                              *)
(***************************************************************************)
Sourced(file) == [v \in EnvVar |-> IF file[v] = Unset THEN Unset ELSE InShell[file[v]]]

Source ==
    /\ wizard.at = "idle"
    /\ environ' = [v \in EnvVar |-> IF Sourced(dotenv)[v] = Unset THEN environ[v] ELSE Sourced(dotenv)[v]]
    /\ UNCHANGED <<layer, dotenv, storedKey, wizard, agreed, runs>>

NewShell ==
    /\ wizard.at = "idle" /\ environ' = NoEnv
    /\ UNCHANGED <<layer, dotenv, storedKey, wizard, agreed, runs>>

EditFile(l, f, v) ==
    /\ wizard.at = "idle" /\ runs < MaxRuns
    /\ layer' = [layer EXCEPT ![l] = Over(Only(f, v), @)]
    /\ runs' = runs + 1
    /\ UNCHANGED <<environ, dotenv, storedKey, wizard, agreed>>

SettingsNext ==
    \/ \E settings \in [Asked -> Value] : StartWizard(settings)
    \/ \E o \in KeyOwner : \E key \in KeyAnswers(o) : AnswerKey(o, key)
    \/ \E n \in CustomName, url \in Url : \E key \in KeyAnswers(n) : AddCustomProvider(n, url, key)
    \/ SaveNewKeys \/ \E yes \in BOOLEAN : AnswerReveal(yes)
    \/ WriteDotenv \/ \E l \in ConfigFile : WriteConfigYaml(l)
    \/ LeaveWizard \/ Source \/ NewShell
    \/ \E l \in ConfigFile, f \in Setting, v \in Value : EditFile(l, f, v)

SettingsSpec == SettingsInit /\ [][SettingsNext]_settingsVars

-----------------------------------------------------------------------------
(***************************************************************************)
(* A run of the wizard that writes does not make a configuration unusable  *)
(* that was not, and if it can be loaded at all, what was written is what  *)
(* later processes load: from a file, every setting and endpoint that no   *)
(* layer above it has; from .env, in a shell that sourced nothing else,    *)
(* all those whose values survive the shell and whose providers' names     *)
(* survive the trip through the names of their variables.                  *)
(***************************************************************************)
Shadowing(l) ==
    DOMAIN EnvOverrides(environ) \cup IF l = "local" THEN {} ELSE DOMAIN layer["local"]

Survives(n) == NameIn[UrlEnv[n]] = n /\ \A m \in DOMAIN CustomGiven : UrlEnv[m] = UrlEnv[n] => m = n

FileLoads(l) ==
    LET now == LoadConfig(environ, layer')
    IN  /\ LoadConfig(environ, layer).ok => now.ok
        /\ now.ok =>
              /\ \A f \in Asked \ Shadowing(l) : now.config[f] = wizard.settings[f]
              /\ CustomProviders \notin Shadowing(l) =>
                    \A n \in DOMAIN CustomGiven : CustomOf(now.config)[n] = CustomGiven[n]

DotenvLoads ==
    LET now == LoadConfig(Sourced(dotenv'), layer)
    IN  /\ LoadConfig(Sourced(dotenv), layer).ok => now.ok
        /\ now.ok =>
              /\ \A f \in Asked : LET v == wizard.settings[f]
                                  IN  InShell[v] = v => now.config[f] = v
              /\ \A n \in DOMAIN CustomGiven :
                    LET url == CustomGiven[n]
                    IN  InShell[url] = url /\ Survives(n) => CustomOf(now.config)[n] = url

WrittenLoads ==
    /\ \A l \in ConfigFile : WriteConfigYaml(l) => FileLoads(l)
    /\ WriteDotenv => DotenvLoads

WhatWasWrittenLoads == [][WrittenLoads]_settingsVars

(***************************************************************************)
(* Writing a configuration file drops no custom provider of that file or   *)
(* of a layer above it, and leaves its endpoint as it was unless the       *)
(* wizard was not able to tell it and asked for it.  Those that only a     *)
(* lower file gave are hidden by the first one written above it.           *)
(***************************************************************************)
ProvidersStay ==
    [][\A l \in ConfigFile :
         WriteConfigYaml(l) =>
             LET was == CustomOf(Over(EnvOverrides(environ),
                                 Over(layer["local"],
                                      IF l = "local" THEN NoSettings ELSE layer["global"])))
                 now == CustomOf(Merged(environ, layer'))
             IN  \A n \in DOMAIN was :
                    n \in DOMAIN now /\ (n \in DOMAIN wizard.found => now[n] = was[n])]_settingsVars

(***************************************************************************)
(* A key stands in .env only if the operator let it in in the last run     *)
(* that asked for it and wrote .env, and for the owner whose variable it   *)
(* stands in (setup_wizard.rs: "the sole gate on whether a secret's real   *)
(* value ever leaves the OS keychain"), however many runs for other        *)
(* owners, with other answers, wrote it since.                             *)
(***************************************************************************)
RevealIsOptIn ==
    \A v \in Range(KeyEnv) :
        dotenv[v] # Unset =>
            \E k \in agreed : EnvOf(k) = v /\ k.key = dotenv[v]

(***************************************************************************)
(* "Otherwise declining to reveal a secret on a re-run leaves a previous   *)
(* run's plaintext value stale on disk instead of removing it": when a run *)
(* has written its settings, no key it was told not to reveal is in .env.  *)
(***************************************************************************)
DeclinedIsRemoved ==
    [][WriteDotenv \/ (\E l \in ConfigFile : WriteConfigYaml(l)) =>
          \A k \in Range(wizard.keys) \ wizard.revealed : dotenv'[EnvOf(k)] # k.key]_settingsVars
=============================================================================
