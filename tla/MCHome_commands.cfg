CONSTANTS
    Parts = {"home", "settings", "provider"}
    Shell = {sh1, sh2}
    Name = {n1, n2}
    Dir = {d1, d2}
    NoName = NoName
    NoDir = NoDir
    User = {user}
    Server = server
    Account = {firecrawl, llm}
    Firecrawl = firecrawl
    Secret = {k1, k2}
    None = None
    Unknown = Unknown
    MaxEvents = 4
    firecrawl = firecrawl
    vllm = vllm
    my_vllm = my_vllm
    Setting = {"firecrawl_base_url", "rate_limit"}
    Asked = {"firecrawl_base_url"}
    Checked = {"rate_limit"}
    Value = {"u1", "10"}
    Legal = {"10"}
    KeyOwner = {firecrawl, vllm, my_vllm}
    CustomName = {vllm, my_vllm}
    Url = {u1, u2}
    Key = {s1}
    EnvVar <- MCEnvVar
    SettingEnv <- MCSettingEnv
    UrlEnv <- MCUrlEnv
    NameIn <- MCNameIn
    KeyEnv <- MCKeyEnv
    Unset = Unset
    InShell <- MCInShell
    Mangled = {u2}
    MaxRuns = 2
    ProviderName = {"openai", "foundry", "lab"}
    Known = {"openai", "foundry"}
    Keyless = {"foundry"}
    Variable = {"OPENAI", "LAB"}
    KeyVariable <- MCKeyVariable
    HasUrl = {"openai"}
    VaultVariable <- MCVaultVariable
    CustomUrl = {"lab"}
    Vault = {w1, w2}
    w1 = w1
    NoVault = NoVault
    VaultUrl <- MCVaultUrl
    DefaultModel <- MCDefaultModel
    NoModel = NoModel
    ApiKey = {a1, a2}
    NoKey = NoKey
    Blank = Blank
    Prompt = {p1, p2}
    MaxChanges = 1
SYMMETRY MCSymmetry
SPECIFICATION CommandSpec
INVARIANT DefaultIsRegistered
INVARIANT SavedIsLoaded
INVARIANT RevealIsOptIn
INVARIANT KeysAreVouchedFor
INVARIANT ConfiguredIsKeyed
PROPERTY BrokenOffDeleteCanBeRetried
PROPERTY WhatWasWrittenLoads
PROPERTY ProvidersStay
CHECK_DEADLOCK FALSE
