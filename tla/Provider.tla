------------------------------ MODULE Provider ------------------------------
(***************************************************************************)
(* How a process finds a model provider's endpoint and key                 *)
(* (src/src/compiler/provider.rs): the key is taken from an environment    *)
(* variable, and a saved key is put there the first time it is missing, by *)
(* whichever prompt needs it first.  The variable is read again when the   *)
(* request is built.                                                       *)
(***************************************************************************)
EXTENDS Naturals, FiniteSets

CONSTANTS
    ProviderName,   \* what stands before the / of a model: providers,
    Known,          \*   of which these are KNOWN_PROVIDERS
    Keyless,        \* those of them without api_key_env
    Variable,       \* the variables keys are kept in:
    KeyVariable,    \*   a known provider's api_key_env, another's synthetic_api_key_env_name
    HasUrl,         \* those with a base URL: a default one, or in a variable of theirs
    CustomUrl,      \* the custom providers this process was configured with
    Vault,          \* the vaults it is asked to work on, and for each,
    NoVault,        \*   in .okf/config.toml:
    VaultVariable,  \*   the api_key_env of some providers,
    VaultUrl,       \*   those that are given a base URL,
    DefaultModel,   \*   and the provider of its default model, or NoModel
    NoModel,
    ApiKey, NoKey,
    Blank,          \* a variable that is set to nothing but blanks
    Prompt,         \* calls of execute_compile_prompt and of list_models
    MaxChanges      \* bound: keys saved or cleared by other processes

ASSUME ProviderAssumption ==
    /\ Known \subseteq ProviderName /\ Keyless \subseteq Known /\ HasUrl \subseteq Known
    /\ CustomUrl \subseteq ProviderName /\ NoVault \notin Vault /\ NoModel \notin ProviderName
    /\ VaultUrl \in [Vault -> SUBSET ProviderName]
    /\ DefaultModel \in [Vault -> ProviderName \cup {NoModel}]
    /\ KeyVariable \in [ProviderName \ Keyless -> Variable]
    /\ DOMAIN VaultVariable = Vault
    /\ \A w \in Vault : \A n \in DOMAIN VaultVariable[w] : n \in ProviderName /\ VaultVariable[w][n] \in Variable
    /\ NoKey \notin ApiKey \cup Variable /\ Blank \notin ApiKey \cup {NoKey} /\ MaxChanges \in Nat

VARIABLES
    shell,      \* the environment the operator starts processes in,
    variable,   \*   and that of this process
    saved,      \* the keys saved under llm-<name>; setup asks for none if none is needed
    prompt,     \* its prompts
    changes,    \* bound: see MaxChanges
    everSaved,  \* history: the keys saved then or since the process started,
    untouched   \*   and the names whose saved key has not changed and could be read

providerVars == <<shell, variable, saved, prompt, changes, everSaved, untouched>>

\* The name it resolves, the variable its key is taken from, and what it does once it has seeded it.
NoPrompt == [at |-> "new", name |-> NoModel, from |-> NoKey, then |-> "done", key |-> NoKey]

ProviderInit ==
    /\ shell \in [Variable -> ApiKey \cup {NoKey, Blank}]
    /\ variable = shell
    /\ saved \in [ProviderName -> ApiKey \cup {NoKey}]
    /\ \A n \in Keyless : saved[n] = NoKey
    /\ prompt = [p \in Prompt |-> NoPrompt]
    /\ changes = 0
    /\ everSaved = [n \in ProviderName |-> {saved[n]} \ {NoKey}]
    /\ untouched = ProviderName

-----------------------------------------------------------------------------
\* .okf/config.toml, as load_vault_config reads it: every setting has a default, and so has the file.
VaultConfig(w) ==
    [default_model |-> DefaultModel[w], api_key_env |-> VaultVariable[w], base_url |-> VaultUrl[w]]

(***************************************************************************)
(* The model of a compile: the one it is given, or the vault's default.    *)
(* What a vault, or else the process, says of a provider; without a vault  *)
(* nothing is said, also not of the custom providers.                      *)
(***************************************************************************)
ModelSpec(w, explicit) == IF explicit # NoModel THEN explicit ELSE VaultConfig(w).default_model

VaultOptions(w, n) ==
    [api_key_env |-> IF w # NoVault /\ n \in DOMAIN VaultConfig(w).api_key_env
                        THEN VaultConfig(w).api_key_env[n] ELSE NoKey,
     base_url    |-> w # NoVault /\ n \in VaultConfig(w).base_url \cup CustomUrl]

(***************************************************************************)
(* What resolve_provider_target makes of a name.  The vault's variable     *)
(* comes before the provider's own; a name it does not know is routed as   *)
(* an OpenAI-compatible server if it is given a base URL.                  *)
(***************************************************************************)
IsRouted(n, options) == n \in Known \/ options.base_url

KeyVariableOf(n, options) ==
    IF options.api_key_env # NoKey THEN options.api_key_env
    ELSE IF n \in Keyless THEN NoKey ELSE KeyVariable[n]

HasEndpoint(n, options) == options.base_url \/ n \in HasUrl

\* Wrong on purpose: a variable that is set to blanks counts.
IsThere(v, env) == env[v] # NoKey

\* env_var_is_meaningfully_set
IsMeaningfullySet(v, env) == env[v] \notin {NoKey, Blank}

PromptGoesTo(p, at) ==
    prompt' = [prompt EXCEPT ![p] = IF at = "done" THEN [NoPrompt EXCEPT !.at = "done"] ELSE [@ EXCEPT !.at = at]]

\* Wrong on purpose: the saved key is loaded over what the operator exported.
ResolveOver(p, n, options, then) ==
    /\ LET from == KeyVariableOf(n, options)
           next == IF HasEndpoint(n, options) THEN then ELSE "done"
       IN  \/ /\ IsRouted(n, options)
              /\ prompt' = [prompt EXCEPT ![p] =
                    [at |-> IF from # NoKey THEN "load" ELSE next,
                     name |-> n, from |-> from, then |-> next, key |-> NoKey]]
           \/ ~IsRouted(n, options) /\ PromptGoesTo(p, "done")
    /\ UNCHANGED <<shell, variable, saved, changes, everSaved, untouched>>

(***************************************************************************)
(* resolve_provider_target, up to the look at the store.  It ends with an  *)
(* error if the name is not routed, and after the key was seeded if there  *)
(* is no base URL.                                                         *)
(***************************************************************************)
Resolve(p, n, options, then) ==
    /\ LET from == KeyVariableOf(n, options)
           next == IF HasEndpoint(n, options) THEN then ELSE "done"
       IN  \/ /\ IsRouted(n, options)
              /\ prompt' = [prompt EXCEPT ![p] =
                    [at |-> IF from # NoKey /\ ~IsMeaningfullySet(from, variable) THEN "load" ELSE next,
                     name |-> n, from |-> from, then |-> next, key |-> NoKey]]
           \/ ~IsRouted(n, options) /\ PromptGoesTo(p, "done")
    /\ UNCHANGED <<shell, variable, saved, changes, everSaved, untouched>>

\* The caller's base URL comes before the vault's.
ApplyOverrides(options, given) == [options EXCEPT !.base_url = @ \/ given]

\* A prompt of a compile of vault w: an error if no model is named, or the vault's configuration is no TOML.
CompilePrompt(p, w, explicit, given) ==
    /\ prompt[p].at = "new"
    /\ LET n == ModelSpec(w, explicit)
       IN  n # NoModel /\ Resolve(p, n, ApplyOverrides(VaultOptions(w, n), given), "resolved")

\* okf-mcp models, and the tool of that name: a vault is not needed.
ListModels(p, w, n) == prompt[p].at = "new" /\ Resolve(p, n, VaultOptions(w, n), "list")

NoModelNamed(p) ==
    /\ prompt[p].at = "new" /\ PromptGoesTo(p, "done")
    /\ UNCHANGED <<shell, variable, saved, changes, everSaved, untouched>>

\* seed_env_from_credential_storage: what it loads, it sets; a store it cannot read is passed over.
LoadSavedKey(p) ==
    /\ prompt[p].at = "load"
    /\ LET name == prompt[p].name
       IN  \/ /\ saved[name] # NoKey
              /\ prompt' = [prompt EXCEPT ![p].at = "set", ![p].key = saved[name]]
              /\ UNCHANGED untouched
           \/ saved[name] = NoKey /\ PromptGoesTo(p, prompt[p].then) /\ UNCHANGED untouched
           \/ PromptGoesTo(p, prompt[p].then) /\ untouched' = untouched \ {name}
    /\ UNCHANGED <<shell, variable, saved, changes, everSaved>>

SetVar(p) ==
    /\ prompt[p].at = "set"
    /\ variable' = [variable EXCEPT ![prompt[p].from] = prompt[p].key]
    /\ PromptGoesTo(p, prompt[p].then)
    /\ UNCHANGED <<shell, saved, changes, everSaved, untouched>>

\* The request is built with what the variable holds now, and goes out if it holds anything.
Send(p) ==
    /\ prompt[p].at = "resolved"
    /\ LET from == prompt[p].from
           key == IF from # NoKey THEN variable[from] ELSE NoKey
       IN  prompt' = [prompt EXCEPT ![p].key = key,
                                    ![p].at = IF from # NoKey /\ key = NoKey THEN "keyless" ELSE "sent"]
    /\ UNCHANGED <<shell, variable, saved, changes, everSaved, untouched>>

\* A text, or an error; if that looks like an unknown model, the models are listed first.
Answer(p) ==
    /\ \/ prompt[p].at = "sent" /\ (PromptGoesTo(p, "done") \/ PromptGoesTo(p, "list"))
       \/ prompt[p].at = "list" /\ PromptGoesTo(p, "done")
    /\ UNCHANGED <<shell, variable, saved, changes, everSaved, untouched>>

\* Another process saves a key for a name, or clears it.
SaveOrClear(n, key) ==
    /\ changes < MaxChanges /\ changes' = changes + 1
    /\ saved' = [saved EXCEPT ![n] = key]
    /\ everSaved' = [everSaved EXCEPT ![n] = @ \cup ({key} \ {NoKey})]
    /\ untouched' = untouched \ {n}
    /\ UNCHANGED <<shell, variable, prompt>>

ProviderNext ==
    \/ \E p \in Prompt :
           \/ \E w \in Vault, explicit \in ProviderName \cup {NoModel}, given \in BOOLEAN :
                  CompilePrompt(p, w, explicit, given)
           \/ \E w \in Vault \cup {NoVault}, n \in ProviderName : ListModels(p, w, n)
           \/ NoModelNamed(p) \/ LoadSavedKey(p) \/ SetVar(p) \/ Send(p) \/ Answer(p)
    \/ \E n \in ProviderName \ Keyless, key \in ApiKey \cup {NoKey} : SaveOrClear(n, key)

ProviderSpec == ProviderInit /\ [][ProviderNext]_providerVars

-----------------------------------------------------------------------------
(***************************************************************************)
(* provider_is_configured, as another process run from the same shell      *)
(* prints it (src/src/cli/test_connection.rs).                             *)
(***************************************************************************)
IsConfigured(n) ==
    n \in Keyless \/ IsMeaningfullySet(KeyVariable[n], shell) \/ saved[n] # NoKey

\* Some vault, or none, has provider n keep its key in variable v.
KeptIn(n, v) == \E w \in Vault \cup {NoVault} : KeyVariableOf(n, VaultOptions(w, n)) = v

(***************************************************************************)
(* The key a request carries is the one the operator exported for it, if   *)
(* there is one; else one saved for a provider whose key is kept in the    *)
(* same variable, so for that provider if no other is.                     *)
(***************************************************************************)
KeysAreVouchedFor ==
    \A p \in Prompt :
        LET v == prompt[p].from
        IN  (prompt[p].at = "sent" /\ v # NoKey) =>
                IF IsMeaningfullySet(v, shell) THEN prompt[p].key = shell[v]
                ELSE \/ prompt[p].key = Blank
                     \/ \E n \in ProviderName : KeptIn(n, v) /\ prompt[p].key \in everSaved[n]

(***************************************************************************)
(* What test-connection calls configured is: a request to that provider    *)
(* goes out with a key, unless the vault names another variable for it,    *)
(* the saved key has changed meanwhile, or it could not be read.           *)
(***************************************************************************)
ConfiguredIsKeyed ==
    \A p \in Prompt :
        LET n == prompt[p].name
        IN  (/\ prompt[p].at \in {"sent", "keyless"}
             /\ n \in (Known \cap untouched) \ Keyless /\ prompt[p].from = KeyVariable[n]
             /\ IsConfigured(n))
                => prompt[p].key \in ApiKey
=============================================================================
