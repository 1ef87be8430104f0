CONSTANTS
    Parts = {"settings"}
    Shell = {sh1, sh2}
    Name = {n1, n2}
    Dir = {d1, d2}
    NoName = NoName
    NoDir = NoDir
    User = {user}
    Server = server
    Account = {firecrawl, llm}
    Firecrawl = firecrawl
    Secret = {k1, k2}
    None = None
    Unknown = Unknown
    MaxEvents = 4
    firecrawl = firecrawl
    vllm = vllm
    my_vllm = my_vllm
    Setting = {"firecrawl_base_url", "rate_limit"}
    Asked = {"firecrawl_base_url"}
    Checked = {"rate_limit"}
    Value = {"u1", "10"}
    Legal = {"10"}
    KeyOwner = {firecrawl, vllm, my_vllm}
    CustomName = {vllm, my_vllm}
    Url = {u1}
    Key = {s1, s2}
    EnvVar <- MCEnvVar
    SettingEnv <- MCSettingEnv
    UrlEnv <- MCUrlEnv
    NameIn <- MCNameIn
    KeyEnv <- MCKeyEnv
    Unset = Unset
    InShell <- MCInShell
    Mangled = {}
    MaxRuns = 2
    ProviderName = {"openai", "foundry", "lab"}
    Known = {"openai", "foundry"}
    Keyless = {"foundry"}
    Variable = {"OPENAI", "LAB"}
    KeyVariable <- MCKeyVariable
    HasUrl = {"openai"}
    VaultVariable <- MCVaultVariable
    CustomUrl = {"lab"}
    Vault = {w1, w2}
    w1 = w1
    NoVault = NoVault
    VaultUrl <- MCVaultUrl
    DefaultModel <- MCDefaultModel
    NoModel = NoModel
    ApiKey = {a1, a2}
    NoKey = NoKey
    Blank = Blank
    Prompt = {p1, p2}
    MaxChanges = 1
SPECIFICATION CommandSpec
PROPERTY DeclinedIsRemoved
CHECK_DEADLOCK FALSE
