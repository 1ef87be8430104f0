------------------------------- MODULE MCHome -------------------------------
(***************************************************************************)
(* What one user's commands and processes find in the home directory, in   *)
(* the configuration files and in the environment.  The three parts share  *)
(* no state: which of them a behaviour is about is chosen at its start.    *)
(*   "home"       two vault names, two paths, two shells; Firecrawl and    *)
(*                one LLM provider, two secrets; a user at the wizard and  *)
(*                a server;                                                *)
(*   "settings"   two custom providers beside Firecrawl, with variables of *)
(*                their own or sharing them;                               *)
(*   "provider"   a known provider with a key, one that needs none but has *)
(*                no default endpoint, and a custom provider; two vaults:  *)
(*                one keeps the key of the known provider in the variable  *)
(*                of the custom one and points the other at a server, the  *)
(*                other has a default model and it is the other way round. *)
(***************************************************************************)
EXTENDS Home, Settings, Provider, TLC

CONSTANTS Parts, firecrawl, vllm, my_vllm, w1,
          Mangled   \* values that a shell does not take as they are

Vllm == <<"OKF_MCP_VLLM", "BASE_URL">>
MyVllm == <<"OKF_MCP_MY_VLLM", "BASE_URL">>
VllmKey == <<"OKF_MCP_VLLM", "API_KEY">>
MyVllmKey == <<"OKF_MCP_MY_VLLM", "API_KEY">>

MCSettingEnv == [f \in Setting |-> <<"OKF_MCP", f>>]

\* Names that differ in more than a - for a _.
MCUrlEnv == vllm :> Vllm @@ my_vllm :> MyVllm
MCKeyEnv == firecrawl :> <<"OKF_MCP_FIRECRAWL", "API_PAT">> @@ vllm :> VllmKey @@ my_vllm :> MyVllmKey

\* Names that do not: my-vllm and my_vllm.
MCOneUrlEnv == vllm :> MyVllm @@ my_vllm :> MyVllm
MCOneKeyEnv == firecrawl :> <<"OKF_MCP_FIRECRAWL", "API_PAT">> @@ vllm :> MyVllmKey @@ my_vllm :> MyVllmKey

MCNameIn == [v \in Range(UrlEnv) |-> CHOOSE n \in CustomName : UrlEnv[n] = v]

MCEnvVar == Range(MCSettingEnv) \cup Range(UrlEnv) \cup Range(KeyEnv)

MCInShell == [x \in Value \cup Url \cup Key |-> IF x \in Mangled THEN Unset ELSE x]

MCKeyVariable == "openai" :> "OPENAI" @@ "lab" :> "LAB"

MCVaultVariable == [w \in Vault |-> IF w = w1 THEN "openai" :> "LAB" ELSE "lab" :> "OPENAI"]

MCVaultUrl == [w \in Vault |-> IF w = w1 THEN {"foundry"} ELSE {}]

MCDefaultModel == [w \in Vault |-> IF w = w1 THEN NoModel ELSE "lab"]

MCSymmetry == Permutations(Dir) \cup Permutations(Prompt)

-----------------------------------------------------------------------------
VARIABLE part

commandVars == <<part, homeVars, settingsVars, providerVars>>

NoVaults == dir = [d \in Dir |-> "absent"] /\ reachable /\ alone

NothingSaved == /\ variable = [v \in Variable |-> NoKey]
                /\ saved = [n \in ProviderName |-> NoKey]

CommandInit ==
    /\ part \in Parts
    /\ HomeInit /\ (part # "home" => NoVaults)
    /\ SettingsInit
    /\ ProviderInit /\ (part # "provider" => NothingSaved)

CommandNext ==
    /\ UNCHANGED part
    /\ \/ part = "home" /\ HomeNext /\ UNCHANGED <<settingsVars, providerVars>>
       \/ part = "settings" /\ SettingsNext /\ UNCHANGED <<homeVars, providerVars>>
       \/ part = "provider" /\ ProviderNext /\ UNCHANGED <<homeVars, settingsVars>>

CommandSpec == CommandInit /\ [][CommandNext]_commandVars
=============================================================================
