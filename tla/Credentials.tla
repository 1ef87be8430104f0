---------------------------- MODULE Credentials -----------------------------
(***************************************************************************)
(* Saved API keys (src/src/core/credential_storage.rs): each account's     *)
(* secret is in the keychain of the operating system or, if that cannot be *)
(* reached, in an encrypted file.  The setup wizard                        *)
(* (src/src/cli/setup_wizard.rs) and `credentials clear`                   *)
(* (src/src/cli/credentials.rs) change them; AuthManager                   *)
(* (src/src/auth/auth_manager.rs) reads Firecrawl's, saves what it read    *)
(* back and, in a server, holds it from then on.                           *)
(*                                                                         *)
(* The file is read and written back as a whole, which is one step here.   *)
(* Environment variables, which go before what is saved, are not set.      *)
(***************************************************************************)
CONSTANTS
    User,       \* shells that run the wizard, clear or a command that fetches
    Server,     \* an MCP server, which fetches too
    Account,    \* all_known_credential_accounts
    Firecrawl,  \* the account of the scrape service; the rest are LLM providers
    Secret,     \* what users type in
    None,
    Unknown     \* a secret nobody can be sure of

ASSUME CredentialsAssumption ==
    /\ Server \notin User /\ Firecrawl \in Account
    /\ None \notin Secret /\ Unknown \notin Secret \cup {None}

VARIABLES
    keychain,   \* what the keychain holds for each account
    reachable,  \* whether it answers
    file,       \* credentials.enc
    cached,     \* AuthManager of the server: cached_credentials
    job,        \* what each process is doing
    known,      \* history: for each account, what was last saved or cleared
    steady      \* history: the keychain was reachable all along, or never

credentialsVars == <<keychain, reachable, file, cached, job, known, steady>>

stores == <<keychain, file>>

Maybe == Secret \cup {None}

(***************************************************************************)
(* typed holds the new secrets the wizard has asked for and not saved yet, *)
(* accounts what is still to be cleared, loaded what a fetch found saved.  *)
(***************************************************************************)
Job == [at : {"idle", "firecrawl", "ask", "providers", "clear", "resave"},
        typed : [Account -> Maybe], accounts : SUBSET Account, loaded : Maybe]

Nothing == [at |-> "idle", typed |-> [a \in Account |-> None], accounts |-> {}, loaded |-> None]

CredentialsTypeOK ==
    /\ keychain \in [Account -> Maybe] /\ file \in [Account -> Maybe]
    /\ reachable \in BOOLEAN /\ steady \in BOOLEAN
    /\ cached \in Maybe
    /\ job \in [User \cup {Server} -> Job]
    /\ known \in [Account -> Maybe \cup {Unknown}]

CredentialsInit ==
    /\ keychain = [a \in Account |-> None] /\ file = [a \in Account |-> None]
    /\ reachable \in BOOLEAN
    /\ cached = None
    /\ job = [p \in User \cup {Server} |-> Nothing]
    /\ known = [a \in Account |-> None]
    /\ steady = TRUE

-----------------------------------------------------------------------------
(***************************************************************************)
(* load_credential, save_credential, delete_credential.                    *)
(***************************************************************************)
\* Wrong on purpose: the file first.
LoadFileFirst(a) ==
    IF file[a] # None \/ ~reachable THEN file[a] ELSE keychain[a]

Load(a) == IF reachable /\ keychain[a] # None THEN keychain[a] ELSE file[a]

Save(a, v) ==
    IF reachable THEN keychain' = [keychain EXCEPT ![a] = v] /\ UNCHANGED file
                 ELSE file' = [file EXCEPT ![a] = v] /\ UNCHANGED keychain

\* The keychain's "no entry" ends it, too: the file is not looked at.
DeleteSaved(a) ==
    IF reachable THEN keychain' = [keychain EXCEPT ![a] = None] /\ UNCHANGED file
                 ELSE file' = [file EXCEPT ![a] = None] /\ UNCHANGED keychain

Does(p, step) == job' = [job EXCEPT ![p] = step]

-----------------------------------------------------------------------------
(***************************************************************************)
(* The wizard.  Firecrawl's token is saved before it asks for the keys of  *)
(* providers, and those when all have been asked for.  A secret there is   *)
(* can be kept: nothing is saved.                                          *)
(***************************************************************************)
Setup(p) ==
    /\ job[p].at = "idle"
    /\ \/ \E v \in Secret : Does(p, [Nothing EXCEPT !.at = "firecrawl", !.typed[Firecrawl] = v])
       \/ Load(Firecrawl) # None /\ Does(p, [Nothing EXCEPT !.at = "ask"])
    /\ UNCHANGED <<stores, reachable, cached, known, steady>>

SaveTyped(p, a) ==
    /\ job[p].typed[a] # None
    /\ Save(a, job[p].typed[a])
    /\ known' = [known EXCEPT ![a] = job[p].typed[a]]
    /\ UNCHANGED <<reachable, cached, steady>>

SaveFirecrawl(p) ==
    /\ job[p].at = "firecrawl"
    /\ SaveTyped(p, Firecrawl)
    /\ Does(p, [Nothing EXCEPT !.at = "ask"])

AskProviders(p) ==
    /\ job[p].at = "ask"
    /\ \E typed \in [Account -> Maybe] :
          typed[Firecrawl] = None /\ Does(p, [Nothing EXCEPT !.at = "providers", !.typed = typed])
    /\ UNCHANGED <<stores, reachable, cached, known, steady>>

SaveProvider(p) ==
    /\ job[p].at = "providers"
    /\ \E a \in Account : /\ SaveTyped(p, a)
                          /\ Does(p, [job[p] EXCEPT !.typed[a] = None])

(***************************************************************************)
(* `credentials clear`, of one account or --all.                           *)
(***************************************************************************)
Clear(p) ==
    /\ job[p].at = "idle"
    /\ \E A \in {{a} : a \in Account} \cup {Account} :
          Does(p, [Nothing EXCEPT !.at = "clear", !.accounts = A])
    /\ UNCHANGED <<stores, reachable, cached, known, steady>>

ClearNext(p) ==
    /\ job[p].at = "clear"
    /\ \E a \in job[p].accounts :
          /\ DeleteSaved(a)
          /\ known' = [known EXCEPT ![a] = IF steady THEN None ELSE Unknown]
          /\ Does(p, [job[p] EXCEPT !.accounts = @ \ {a}])
    /\ UNCHANGED <<reachable, cached, steady>>

\* A command has nothing more to do, or is stopped or fails before.
Leave(p) ==
    /\ job[p].at # "idle"
    /\ Does(p, Nothing)
    /\ UNCHANGED <<stores, reachable, cached, known, steady>>

(***************************************************************************)
(* AuthManager::credentials.  A command line has a new AuthManager each    *)
(* time, a server one for its whole life.                                  *)
(***************************************************************************)
Fetch(p) ==
    /\ job[p].at = "idle"
    /\ p = Server => cached = None
    /\ Load(Firecrawl) # None
    /\ Does(p, [Nothing EXCEPT !.at = "resave", !.loaded = Load(Firecrawl)])
    /\ UNCHANGED <<stores, reachable, cached, known, steady>>

SaveBack(p) ==
    /\ job[p].at = "resave"
    /\ cached' = IF p = Server THEN job[p].loaded ELSE cached
    /\ Save(Firecrawl, job[p].loaded)
    /\ known' = IF known[Firecrawl] = job[p].loaded THEN known
                ELSE [known EXCEPT ![Firecrawl] = Unknown]
    /\ Does(p, Nothing)
    /\ UNCHANGED <<reachable, steady>>

Restart ==
    /\ cached' = None
    /\ Does(Server, Nothing)
    /\ UNCHANGED <<stores, reachable, known, steady>>

\* A session is unlocked or locked, a secret service started or stopped.
KeychainChanges ==
    /\ reachable' = ~reachable
    /\ steady' = FALSE
    /\ known' = [a \in Account |-> IF known[a] = None /\ file[a] = None /\ keychain[a] = None
                                   THEN None ELSE Unknown]
    /\ UNCHANGED <<stores, cached, job>>

CredentialsStart ==
    \/ \E p \in User : Setup(p) \/ Clear(p)
    \/ \E p \in User \cup {Server} : Fetch(p)
    \/ Restart \/ KeychainChanges

CredentialsGoOn ==
    \E p \in User \cup {Server} :
        \/ SaveFirecrawl(p) \/ AskProviders(p) \/ SaveProvider(p)
        \/ ClearNext(p) \/ SaveBack(p) \/ Leave(p)
=============================================================================
