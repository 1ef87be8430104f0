----------------------------- MODULE HomeProofs -----------------------------
(***************************************************************************)
(* The properties of the home directory and of the settings, for any number*)
(* of shells, vaults, directories, users, accounts, secrets, settings and  *)
(* custom providers, and without a bound on what happens except that it is *)
(* a number.                                                               *)
(***************************************************************************)
EXTENDS Home, Settings, TLAPS

(***************************************************************************)
(* The registry.  Every copy a command is about to write is as sound as    *)
(* the file, so whichever is written last, the file is sound.              *)
(***************************************************************************)
Sound(reg) == reg.default # NoName => IsRegistered(reg, reg.default)

Sole == alone => \A s, t \in Shell :
                    vaultCmd[s].at # "idle" /\ vaultCmd[t].at # "idle" => s = t

\* A create or a delete knows what it works on.
Aimed(c) == c.at \in {"scaffold", "register", "unlink", "unregister"} =>
                c.name \in Name /\ c.path \in Dir

Aims(s) == vaultCmd[s].at \in {"scaffold", "unlink"}

\* What is being deleted is registered under the name given.
Named(s) == registry.vaults[vaultCmd[s].name] = vaultCmd[s].path

RegistryInv ==
    /\ RegistryTypeOK
    /\ Sound(registry)
    /\ \A s \in Shell : Sound(vaultCmd[s].mem) /\ Aimed(vaultCmd[s])
    /\ Sole
    /\ \A s \in Shell : alone /\ vaultCmd[s].at = "unlink" => Named(s)

LEMMA EmptyIsSound == EmptyRegistry \in Registry /\ Sound(EmptyRegistry)
BY DEF EmptyRegistry, Registry, Sound

LEMMA IdleIsSound ==
    Idle \in VaultCommand /\ Sound(Idle.mem) /\ Aimed(Idle) /\ Idle.at = "idle"
BY EmptyIsSound DEF Idle, VaultCommand, Step, Aimed

LEMMA AddedIsSound ==
    ASSUME NEW reg \in Registry, Sound(reg), NEW n \in Name, NEW d \in Dir
    PROVE  Added(reg, n, d) \in Registry /\ Sound(Added(reg, n, d))
BY RegistryAssumption DEF Registry, Sound, Added, IsRegistered

LEMMA RemovedIsSound ==
    ASSUME NEW reg \in Registry, Sound(reg), NEW n \in Name
    PROVE  Removed(reg, n) \in Registry /\ Sound(Removed(reg, n))
BY RegistryAssumption DEF Registry, Sound, Removed, IsRegistered

LEMMA DefaultIsSound ==
    ASSUME NEW reg \in Registry, NEW n \in Name, IsRegistered(reg, n)
    PROVE  [reg EXCEPT !.default = n] \in Registry /\ Sound([reg EXCEPT !.default = n])
BY RegistryAssumption DEF Registry, Sound, IsRegistered

(***************************************************************************)
(* A command that takes its place keeps the invariant if the file is sound *)
(* and it is alone, or was what it was.                                    *)
(***************************************************************************)
LEMMA CommandKeepsInv ==
    ASSUME RegistryInv, NEW s \in Shell, NEW c \in VaultCommand,
           Sound(c.mem), Aimed(c),
           vaultCmd' = [vaultCmd EXCEPT ![s] = c],
           Free(s) \/ vaultCmd[s].at # "idle" \/ c.at = "idle",
           registry' \in Registry, Sound(registry'),
           dir' \in [Dir -> DirState], alone' = alone,
           registry' = registry \/ (vaultCmd[s].at # "idle" /\ c.at # "unlink"),
           alone /\ c.at = "unlink" => registry'.vaults[c.name] = c.path
    PROVE  RegistryInv'
<1>1. RegistryTypeOK'
  BY DEF RegistryInv, RegistryTypeOK
<1>2. \A t \in Shell : Sound(vaultCmd'[t].mem) /\ Aimed(vaultCmd'[t])
  BY DEF RegistryInv, RegistryTypeOK
<1>3. Sole'
  BY DEF RegistryInv, RegistryTypeOK, Sole, Free
<1>4. ASSUME NEW t \in Shell, alone', vaultCmd'[t].at = "unlink"
      PROVE  registry'.vaults[vaultCmd'[t].name] = vaultCmd'[t].path
  <2>1. CASE t = s
    BY <1>4, <2>1 DEF RegistryInv, RegistryTypeOK
  <2>2. CASE t # s
    BY <1>4, <2>2 DEF RegistryInv, RegistryTypeOK, Sole, Named
  <2> QED BY <2>1, <2>2
<1> QED BY <1>1, <1>2, <1>3, <1>4 DEF RegistryInv, Named, Sound, Aimed

\* A command that has loaded the registry and is about to write mem.
LEMMA SavingKeepsInv ==
    ASSUME RegistryInv, NEW s \in Shell, NEW mem \in Registry, Sound(mem),
           Saves(s, mem), Free(s) \/ vaultCmd[s].at # "idle",
           UNCHANGED <<registry, dir, alone>>
    PROVE  RegistryInv'
<1> DEFINE c == [Idle EXCEPT !.at = "truncate", !.mem = mem]
<1>1. c \in VaultCommand /\ c.at = "truncate" /\ c.mem = mem /\ Aimed(c)
  BY IdleIsSound DEF VaultCommand, Step, Aimed
<1>2. vaultCmd' = [vaultCmd EXCEPT ![s] = c]
  BY DEF Saves
<1>3. registry' \in Registry /\ Sound(registry') /\ dir' \in [Dir -> DirState]
  BY DEF RegistryInv, RegistryTypeOK, Sound
<1> HIDE DEF c
<1> QED BY <1>1, <1>2, <1>3, CommandKeepsInv

LEMMA EndingKeepsInv ==
    ASSUME RegistryInv, NEW s \in Shell, Ends(s),
           registry' \in Registry, Sound(registry'),
           registry' = registry \/ vaultCmd[s].at # "idle",
           dir' \in [Dir -> DirState], alone' = alone
    PROVE  RegistryInv'
BY CommandKeepsInv, IdleIsSound DEF Ends

\* A command that goes on to a step other than unlinking.
LEMMA GoingKeepsInv ==
    ASSUME RegistryInv, NEW s \in Shell, vaultCmd[s].at # "idle",
           NEW at \in Step \ {"unlink"}, Goes(s, at),
           at \in {"truncate", "write"} \/ Aims(s),
           registry' \in Registry, Sound(registry'),
           dir' \in [Dir -> DirState], alone' = alone
    PROVE  RegistryInv'
<1> DEFINE c == [vaultCmd[s] EXCEPT !.at = at]
<1>1. c \in VaultCommand /\ c.at = at /\ c.mem = vaultCmd[s].mem /\ Sound(c.mem) /\ Aimed(c)
  BY DEF RegistryInv, RegistryTypeOK, VaultCommand, Step, Aimed, Aims
<1>2. vaultCmd' = [vaultCmd EXCEPT ![s] = c]
  BY DEF Goes
<1> HIDE DEF c
<1> QED BY <1>1, <1>2, CommandKeepsInv

LEMMA RegistryStartKeepsInv ==
    ASSUME RegistryInv, NEW s \in Shell, RegistryStart(s)
    PROVE  RegistryInv'
<1>1. registry \in Registry /\ Sound(registry) /\ dir \in [Dir -> DirState]
  BY DEF RegistryInv, RegistryTypeOK
<1>2. ASSUME NEW n \in Name, NEW d \in Dir, Add(s, n, d)
      PROVE  RegistryInv'
  BY <1>1, <1>2, AddedIsSound, SavingKeepsInv DEF Add
<1>3. ASSUME NEW n \in Name, Remove(s, n)
      PROVE  RegistryInv'
  BY <1>1, <1>3, RemovedIsSound, SavingKeepsInv DEF Remove
<1>4. ASSUME NEW n \in Name, Default(s, n)
      PROVE  RegistryInv'
  BY <1>1, <1>4, DefaultIsSound, SavingKeepsInv DEF Default
<1>5. ASSUME NEW n \in Name, NEW d \in Dir, Create(s, n, d)
      PROVE  RegistryInv'
  <2> DEFINE c == [Idle EXCEPT !.at = "scaffold", !.name = n, !.path = d]
  <2>1. c \in VaultCommand /\ c.at = "scaffold" /\ Sound(c.mem) /\ Aimed(c)
    BY IdleIsSound DEF VaultCommand, Step, Aimed
  <2>2. /\ Free(s)
        /\ vaultCmd' = [vaultCmd EXCEPT ![s] = c]
        /\ registry' = registry /\ alone' = alone
        /\ dir' \in [Dir -> DirState]
    BY <1>1, <1>5 DEF Create, DirState
  <2>3. Sound(registry')
    BY <1>1, <2>2 DEF Sound
  <2> HIDE DEF c
  <2> QED BY <1>1, <2>1, <2>2, <2>3, CommandKeepsInv
<1>6. ASSUME NEW n \in Name, Delete(s, n)
      PROVE  RegistryInv'
  <2> DEFINE c == [Idle EXCEPT !.at = "unlink", !.name = n, !.path = registry.vaults[n]]
  <2>1. /\ c \in VaultCommand /\ c.at = "unlink" /\ Sound(c.mem) /\ Aimed(c)
        /\ c.name = n /\ c.path = registry.vaults[n]
    BY <1>1, <1>6, IdleIsSound DEF VaultCommand, Step, Registry, Aimed, Delete, IsRegistered
  <2>2. /\ Free(s)
        /\ vaultCmd' = [vaultCmd EXCEPT ![s] = c]
        /\ registry' = registry /\ alone' = alone /\ dir' = dir
    BY <1>6 DEF Delete
  <2>3. Sound(registry')
    BY <1>1, <2>2 DEF Sound
  <2> HIDE DEF c
  <2> QED BY <1>1, <2>1, <2>2, <2>3, CommandKeepsInv
<1> QED BY <1>2, <1>3, <1>4, <1>5, <1>6 DEF RegistryStart

LEMMA RegistryGoOnKeepsInv ==
    ASSUME RegistryInv, NEW s \in Shell, RegistryGoOn(s)
    PROVE  RegistryInv'
<1>1. /\ registry \in Registry /\ Sound(registry) /\ dir \in [Dir -> DirState]
      /\ vaultCmd[s] \in VaultCommand /\ Sound(vaultCmd[s].mem) /\ Aimed(vaultCmd[s])
  BY DEF RegistryInv, RegistryTypeOK
<1>2. registry' = registry => Sound(registry')
  BY <1>1 DEF Sound
<1>3. CASE Scaffold(s)
  <2>1. vaultCmd[s].at # "idle" /\ Aims(s) /\ Goes(s, "register") /\ registry' = registry /\ alone' = alone
    BY <1>3 DEF Scaffold, Aims
  <2>2. dir' \in [Dir -> DirState]
    BY <1>1, <1>3 DEF Scaffold, DirState
  <2> QED BY <1>1, <1>2, <2>1, <2>2, GoingKeepsInv DEF Step
<1>4. CASE Register(s)
  BY <1>1, <1>4, AddedIsSound, SavingKeepsInv DEF Register, Aimed
<1>5. CASE Unlink(s)
  <2>1. vaultCmd[s].at # "idle" /\ Aims(s) /\ Goes(s, "unregister") /\ registry' = registry /\ alone' = alone
    BY <1>5 DEF Unlink, Aims
  <2>2. dir' \in [Dir -> DirState]
    BY <1>1, <1>5 DEF Unlink, DirState
  <2> QED BY <1>1, <1>2, <2>1, <2>2, GoingKeepsInv DEF Step
<1>6. CASE UnlinkFails(s)
  <2>1. dir' \in [Dir -> DirState]
    BY <1>1, <1>6 DEF UnlinkFails, DirState
  <2> QED BY <1>1, <1>2, <1>6, <2>1, EndingKeepsInv DEF UnlinkFails
<1>7. CASE Unregister(s)
  <2>1. CASE IsRegistered(registry, vaultCmd[s].name)
    <3>1. vaultCmd[s].name \in Name
      BY <1>1, <1>7 DEF Unregister, Aimed
    <3> QED BY <1>1, <1>7, <2>1, <3>1, RemovedIsSound, SavingKeepsInv DEF Unregister
  <2>2. CASE ~IsRegistered(registry, vaultCmd[s].name)
    BY <1>1, <1>2, <1>7, <2>2, EndingKeepsInv DEF Unregister
  <2> QED BY <2>1, <2>2
<1>8. CASE Truncate(s)
  BY <1>1, <1>8, EmptyIsSound, GoingKeepsInv DEF Truncate, Step
<1>9. CASE Write(s)
  BY <1>1, <1>9, EndingKeepsInv DEF Write, VaultCommand
<1>10. CASE Stop(s)
  BY <1>1, <1>2, <1>10, EndingKeepsInv DEF Stop
<1> QED BY <1>3, <1>4, <1>5, <1>6, <1>7, <1>8, <1>9, <1>10 DEF RegistryGoOn

-----------------------------------------------------------------------------
(***************************************************************************)
(* The saved keys.  While the keychain has been reachable all along the    *)
(* file is empty, and the other way round: a clear that looks at one of    *)
(* them clears both.                                                       *)
(***************************************************************************)
OtherIsEmpty ==
    steady => \A a \in Account : IF reachable THEN file[a] = None ELSE keychain[a] = None

\* A fetch that saves back has found something.
Carries(step) == step.at = "resave" => step.loaded # None

CredentialsInv ==
    /\ CredentialsTypeOK
    /\ SavedIsLoaded
    /\ OtherIsEmpty
    /\ \A p \in User \cup {Server} : Carries(job[p])

\* What saving and deleting do, as seen by Load.
LEMMA SaveIsLoaded ==
    ASSUME CredentialsTypeOK, NEW a \in Account, NEW v \in Secret, Save(a, v),
           UNCHANGED reachable
    PROVE  /\ keychain' \in [Account -> Maybe] /\ file' \in [Account -> Maybe]
           /\ Load(a)' = v
           /\ \A b \in Account \ {a} : Load(b)' = Load(b)
           /\ OtherIsEmpty /\ UNCHANGED steady => OtherIsEmpty'
<1>1. CASE reachable
  BY <1>1, CredentialsAssumption DEF Save, Load, CredentialsTypeOK, Maybe, OtherIsEmpty
<1>2. CASE ~reachable
  BY <1>2, CredentialsAssumption DEF Save, Load, CredentialsTypeOK, Maybe, OtherIsEmpty
<1> QED BY <1>1, <1>2

LEMMA DeletedIsGone ==
    ASSUME CredentialsTypeOK, OtherIsEmpty, NEW a \in Account, DeleteSaved(a),
           UNCHANGED <<reachable, steady>>
    PROVE  /\ keychain' \in [Account -> Maybe] /\ file' \in [Account -> Maybe]
           /\ steady => Load(a)' = None
           /\ \A b \in Account \ {a} : Load(b)' = Load(b)
           /\ OtherIsEmpty'
<1>1. CASE reachable
  BY <1>1, CredentialsAssumption DEF DeleteSaved, Load, CredentialsTypeOK, Maybe, OtherIsEmpty
<1>2. CASE ~reachable
  BY <1>2, CredentialsAssumption DEF DeleteSaved, Load, CredentialsTypeOK, Maybe, OtherIsEmpty
<1> QED BY <1>1, <1>2

LEMMA LoadIsMaybe ==
    ASSUME CredentialsTypeOK, NEW a \in Account
    PROVE  Load(a) \in Maybe
BY DEF CredentialsTypeOK, Load, Maybe

\* A step that touches neither what is saved nor what is known of it.
LEMMA QuietKeepsInv ==
    ASSUME CredentialsInv, NEW p \in User \cup {Server},
           NEW step \in Job, Carries(step), Does(p, step),
           UNCHANGED <<stores, reachable, known, steady>>, cached' \in Maybe
    PROVE  CredentialsInv'
BY DEF CredentialsInv, CredentialsTypeOK, Does, stores, SavedIsLoaded, OtherIsEmpty, Load

LEMMA NothingIsJob == Nothing \in Job /\ Carries(Nothing)
BY DEF Nothing, Job, Maybe, Carries

LEMMA SaveTypedKeepsInv ==
    ASSUME CredentialsInv, NEW p \in User \cup {Server}, NEW a \in Account,
           NEW step \in Job, Carries(step), SaveTyped(p, a), Does(p, step)
    PROVE  CredentialsInv'
<1>1. CredentialsTypeOK /\ job[p].typed[a] \in Secret
  BY DEF CredentialsInv, CredentialsTypeOK, SaveTyped, Job, Maybe
<1>2. /\ keychain' \in [Account -> Maybe] /\ file' \in [Account -> Maybe]
      /\ Load(a)' = job[p].typed[a]
      /\ \A b \in Account \ {a} : Load(b)' = Load(b)
      /\ OtherIsEmpty'
  BY <1>1, SaveIsLoaded DEF SaveTyped, CredentialsInv
<1>3. known' = [known EXCEPT ![a] = job[p].typed[a]] /\ UNCHANGED <<reachable, cached, steady>>
  BY DEF SaveTyped
<1>4. CredentialsTypeOK'
  BY <1>1, <1>2, <1>3 DEF CredentialsTypeOK, Does, Maybe
<1>5. \A b \in Account : known'[b] # Unknown => Load(b)' = known'[b]
  BY <1>1, <1>2, <1>3 DEF CredentialsTypeOK, CredentialsInv, SavedIsLoaded
<1>6. \A q \in User \cup {Server} : Carries(job'[q])
  BY <1>1 DEF CredentialsInv, CredentialsTypeOK, Does
<1> QED BY <1>2, <1>4, <1>5, <1>6 DEF CredentialsInv, SavedIsLoaded, Carries

LEMMA ClearNextKeepsInv ==
    ASSUME CredentialsInv, NEW p \in User \cup {Server}, ClearNext(p)
    PROVE  CredentialsInv'
<1>1. PICK a \in job[p].accounts :
          /\ DeleteSaved(a)
          /\ known' = [known EXCEPT ![a] = IF steady THEN None ELSE Unknown]
          /\ Does(p, [job[p] EXCEPT !.accounts = @ \ {a}])
  BY DEF ClearNext
<1>2. CredentialsTypeOK /\ OtherIsEmpty /\ a \in Account /\ UNCHANGED <<reachable, cached, steady>>
  BY DEF CredentialsInv, CredentialsTypeOK, Job, ClearNext
<1>3. /\ keychain' \in [Account -> Maybe] /\ file' \in [Account -> Maybe]
      /\ steady => Load(a)' = None
      /\ \A b \in Account \ {a} : Load(b)' = Load(b)
      /\ OtherIsEmpty'
  BY <1>1, <1>2, DeletedIsGone
<1>4. [job[p] EXCEPT !.accounts = @ \ {a}] \in Job
  BY <1>2 DEF CredentialsTypeOK, Job
<1>5. CredentialsTypeOK'
  BY <1>1, <1>2, <1>3, <1>4 DEF CredentialsTypeOK, Does, Maybe
<1>6. \A b \in Account : known'[b] # Unknown => Load(b)' = known'[b]
  BY <1>1, <1>2, <1>3 DEF CredentialsTypeOK, CredentialsInv, SavedIsLoaded
<1>7. \A q \in User \cup {Server} : Carries(job'[q])
  BY <1>1, <1>2 DEF CredentialsInv, CredentialsTypeOK, Does, Carries, Job, ClearNext
<1> QED BY <1>3, <1>5, <1>6, <1>7 DEF CredentialsInv, SavedIsLoaded, Carries

LEMMA SaveBackKeepsInv ==
    ASSUME CredentialsInv, NEW p \in User \cup {Server}, SaveBack(p)
    PROVE  CredentialsInv'
<1> DEFINE v == job[p].loaded
<1>1. /\ CredentialsTypeOK /\ v \in Secret /\ Firecrawl \in Account
      /\ Save(Firecrawl, v) /\ UNCHANGED <<reachable, steady>> /\ cached' \in Maybe
  BY CredentialsAssumption DEF CredentialsInv, CredentialsTypeOK, SaveBack, Job, Maybe, Carries
<1>2. /\ keychain' \in [Account -> Maybe] /\ file' \in [Account -> Maybe]
      /\ Load(Firecrawl)' = v
      /\ \A b \in Account \ {Firecrawl} : Load(b)' = Load(b)
      /\ OtherIsEmpty'
  BY <1>1, SaveIsLoaded DEF CredentialsInv
<1>3. /\ known' \in [Account -> Maybe \cup {Unknown}]
      /\ known'[Firecrawl] \in {v, Unknown}
      /\ \A b \in Account \ {Firecrawl} : known'[b] = known[b]
  BY <1>1 DEF SaveBack, CredentialsTypeOK
<1>4. CredentialsTypeOK'
  BY <1>1, <1>2, <1>3, NothingIsJob DEF CredentialsTypeOK, SaveBack, Does
<1>5. \A b \in Account : known'[b] # Unknown => Load(b)' = known'[b]
  BY <1>1, <1>2, <1>3 DEF CredentialsInv, SavedIsLoaded
<1>6. \A q \in User \cup {Server} : Carries(job'[q])
  BY <1>1, NothingIsJob DEF CredentialsInv, CredentialsTypeOK, Does, SaveBack
<1> QED BY <1>2, <1>4, <1>5, <1>6 DEF CredentialsInv, SavedIsLoaded, Carries

LEMMA KeychainChangesKeepsInv ==
    ASSUME CredentialsInv, KeychainChanges
    PROVE  CredentialsInv'
<1>1. CredentialsTypeOK'
  BY DEF CredentialsInv, CredentialsTypeOK, KeychainChanges, stores, Maybe
<1>2. SavedIsLoaded'
  BY CredentialsAssumption
     DEF CredentialsInv, CredentialsTypeOK, KeychainChanges, stores, SavedIsLoaded, Load
<1>3. OtherIsEmpty'
  BY DEF KeychainChanges, OtherIsEmpty
<1>4. \A p \in User \cup {Server} : Carries(job'[p])
  BY DEF KeychainChanges, CredentialsInv
<1> QED BY <1>1, <1>2, <1>3, <1>4 DEF CredentialsInv, Carries

LEMMA CredentialsStartKeepsInv ==
    ASSUME CredentialsInv, CredentialsStart
    PROVE  CredentialsInv'
<1>1. CredentialsTypeOK /\ cached \in Maybe
  BY DEF CredentialsInv, CredentialsTypeOK
<1>2. ASSUME NEW p \in User, Setup(p)
      PROVE  CredentialsInv'
  <2>1. UNCHANGED <<stores, reachable, cached, known, steady>>
    BY <1>2 DEF Setup
  <2>2. ASSUME NEW v \in Secret, Does(p, [Nothing EXCEPT !.at = "firecrawl", !.typed[Firecrawl] = v])
        PROVE  CredentialsInv'
    <3> DEFINE step == [Nothing EXCEPT !.at = "firecrawl", !.typed[Firecrawl] = v]
    <3>1. step \in Job /\ Carries(step)
      BY NothingIsJob, CredentialsAssumption DEF Job, Nothing, Carries, Maybe
    <3>2. Does(p, step)
      BY <2>2
    <3> HIDE DEF step
    <3> QED BY <1>1, <2>1, <3>1, <3>2, QuietKeepsInv
  <2>3. ASSUME Does(p, [Nothing EXCEPT !.at = "ask"])
        PROVE  CredentialsInv'
    <3> DEFINE step == [Nothing EXCEPT !.at = "ask"]
    <3>1. step \in Job /\ Carries(step)
      BY NothingIsJob DEF Job, Nothing, Carries
    <3>2. Does(p, step)
      BY <2>3
    <3> HIDE DEF step
    <3> QED BY <1>1, <2>1, <3>1, <3>2, QuietKeepsInv
  <2> QED BY <1>2, <2>2, <2>3 DEF Setup
<1>3. ASSUME NEW p \in User, Clear(p)
      PROVE  CredentialsInv'
  <2>1. PICK A \in {{a} : a \in Account} \cup {Account} :
            Does(p, [Nothing EXCEPT !.at = "clear", !.accounts = A])
    BY <1>3 DEF Clear
  <2>2. A \in SUBSET Account
    OBVIOUS
  <2>3. /\ [Nothing EXCEPT !.at = "clear", !.accounts = A] \in Job
        /\ Carries([Nothing EXCEPT !.at = "clear", !.accounts = A])
    BY <2>2, NothingIsJob DEF Job, Nothing, Carries
  <2> QED BY <1>1, <1>3, <2>1, <2>3, QuietKeepsInv DEF Clear
<1>4. ASSUME NEW p \in User \cup {Server}, Fetch(p)
      PROVE  CredentialsInv'
  <2> DEFINE step == [Nothing EXCEPT !.at = "resave", !.loaded = Load(Firecrawl)]
  <2>1. Load(Firecrawl) \in Maybe /\ Load(Firecrawl) # None
    BY <1>1, <1>4, LoadIsMaybe, CredentialsAssumption DEF Fetch
  <2>2. step \in Job /\ Carries(step)
    BY <2>1, NothingIsJob DEF Job, Carries, Nothing
  <2>3. Does(p, step) /\ UNCHANGED <<stores, reachable, cached, known, steady>>
    BY <1>4 DEF Fetch
  <2> HIDE DEF step
  <2> QED BY <1>1, <2>2, <2>3, QuietKeepsInv
<1>5. CASE Restart
  BY <1>1, <1>5, NothingIsJob, QuietKeepsInv DEF Restart, Maybe
<1> QED BY <1>2, <1>3, <1>4, <1>5, KeychainChangesKeepsInv DEF CredentialsStart

LEMMA CredentialsGoOnKeepsInv ==
    ASSUME CredentialsInv, CredentialsGoOn
    PROVE  CredentialsInv'
<1>1. PICK p \in User \cup {Server} :
          \/ SaveFirecrawl(p) \/ AskProviders(p) \/ SaveProvider(p)
          \/ ClearNext(p) \/ SaveBack(p) \/ Leave(p)
  BY DEF CredentialsGoOn
<1>2. CredentialsTypeOK /\ cached \in Maybe /\ job[p] \in Job /\ Carries(job[p])
  BY DEF CredentialsInv, CredentialsTypeOK
<1>3. CASE SaveFirecrawl(p)
  <2>1. /\ [Nothing EXCEPT !.at = "ask"] \in Job
        /\ Carries([Nothing EXCEPT !.at = "ask"])
    BY NothingIsJob DEF Job, Nothing, Carries
  <2> QED BY <1>3, <2>1, SaveTypedKeepsInv, CredentialsAssumption DEF SaveFirecrawl
<1>4. CASE AskProviders(p)
  <2>1. PICK typed \in [Account -> Maybe] :
            Does(p, [Nothing EXCEPT !.at = "providers", !.typed = typed])
    BY <1>4 DEF AskProviders
  <2>2. /\ [Nothing EXCEPT !.at = "providers", !.typed = typed] \in Job
        /\ Carries([Nothing EXCEPT !.at = "providers", !.typed = typed])
    BY NothingIsJob DEF Job, Nothing, Carries
  <2> QED BY <1>2, <1>4, <2>1, <2>2, QuietKeepsInv DEF AskProviders
<1>5. CASE SaveProvider(p)
  <2>1. PICK a \in Account : SaveTyped(p, a) /\ Does(p, [job[p] EXCEPT !.typed[a] = None])
    BY <1>5 DEF SaveProvider
  <2>2. /\ [job[p] EXCEPT !.typed[a] = None] \in Job
        /\ Carries([job[p] EXCEPT !.typed[a] = None])
    BY <1>2 DEF Job, Carries, Maybe
  <2> QED BY <2>1, <2>2, SaveTypedKeepsInv
<1>6. CASE Leave(p)
  BY <1>2, <1>6, NothingIsJob, QuietKeepsInv DEF Leave
<1> QED BY <1>1, <1>3, <1>4, <1>5, <1>6, ClearNextKeepsInv, SaveBackKeepsInv

-----------------------------------------------------------------------------
(***************************************************************************)
(* Both together.                                                          *)
(***************************************************************************)
HomeInv == RegistryInv /\ CredentialsInv /\ events \in 0..MaxEvents

LEMMA InitHolds == HomeInit => HomeInv
<1> SUFFICES ASSUME HomeInit
             PROVE  HomeInv
  OBVIOUS
<1>1. RegistryInv
  BY EmptyIsSound, IdleIsSound
     DEF HomeInit, RegistryInit, RegistryInv, RegistryTypeOK, DirState, Sole
<1>2. CredentialsTypeOK /\ \A p \in User \cup {Server} : Carries(job[p])
  BY NothingIsJob DEF HomeInit, CredentialsInit, CredentialsTypeOK, Maybe
<1>3. SavedIsLoaded /\ OtherIsEmpty
  BY DEF HomeInit, CredentialsInit, SavedIsLoaded, OtherIsEmpty, Load
<1> QED BY <1>1, <1>2, <1>3, EventsAssumption DEF HomeInv, CredentialsInv, HomeInit

LEMMA StepHolds == HomeInv /\ [HomeNext]_homeVars => HomeInv'
<1> SUFFICES ASSUME HomeInv, [HomeNext]_homeVars
             PROVE  HomeInv'
  OBVIOUS
<1>1. UNCHANGED registryVars => RegistryInv'
  BY DEF HomeInv, RegistryInv, registryVars, RegistryTypeOK, Sound, IsRegistered, Sole, Named
<1>2. UNCHANGED credentialsVars => CredentialsInv'
  BY DEF HomeInv, CredentialsInv, credentialsVars, CredentialsTypeOK, SavedIsLoaded, Load,
         OtherIsEmpty
<1>3. CASE Begin
  BY <1>1, <1>2, <1>3, RegistryStartKeepsInv, CredentialsStartKeepsInv, EventsAssumption
     DEF Begin, HomeInv
<1>4. CASE GoOn
  BY <1>1, <1>2, <1>4, RegistryGoOnKeepsInv, CredentialsGoOnKeepsInv DEF GoOn, HomeInv
<1>5. CASE UNCHANGED homeVars
  BY <1>1, <1>2, <1>5 DEF homeVars, HomeInv
<1> QED BY <1>3, <1>4, <1>5 DEF HomeNext

THEOREM InvHolds == HomeSpec => []HomeInv
BY InitHolds, StepHolds, PTL DEF HomeSpec

(***************************************************************************)
(* The types: the registry and the credential stores of cli/vault.rs and   *)
(* credential_storage.rs hold what they should.                            *)
(***************************************************************************)
THEOREM TypeCorrect == HomeSpec => []TypeOK
<1>1. HomeInv => TypeOK
  BY DEF HomeInv, RegistryInv, CredentialsInv, TypeOK
<1> QED BY <1>1, InvHolds, PTL

(***************************************************************************)
(* The default in vaults.toml is one of its vaults, however `okf-mcp vault *)
(* ...` commands overlap and wherever they are killed.                     *)
(***************************************************************************)
THEOREM DefaultStaysRegistered == HomeSpec => []DefaultIsRegistered
<1>1. HomeInv => DefaultIsRegistered
  BY DEF HomeInv, RegistryInv, Sound, DefaultIsRegistered
<1> QED BY <1>1, InvHolds, PTL

(***************************************************************************)
(* load_credential gives what save_credential was last given, until the    *)
(* keychain comes or goes or a fetch saves an older key back.              *)
(***************************************************************************)
THEOREM KeysAreKept == HomeSpec => []SavedIsLoaded
<1>1. HomeInv => SavedIsLoaded
  BY DEF HomeInv, CredentialsInv
<1> QED BY <1>1, InvHolds, PTL

(***************************************************************************)
(* What `vault delete` leaves behind when it breaks off is registered.     *)
(***************************************************************************)
THEOREM DeletesCanBeRetried == HomeSpec => BrokenOffDeleteCanBeRetried
<1> DEFINE A == alone => \A d \in Dir :
          dir'[d] = "partial" /\ dir[d] # "partial" =>
              \E n \in Name : registry'.vaults[n] = d
<1>1. HomeInv /\ [HomeNext]_homeVars => [A]_homeVars
  <2> SUFFICES ASSUME HomeInv, HomeNext, alone, NEW d \in Dir,
                      dir'[d] = "partial", dir[d] # "partial"
               PROVE  \E n \in Name : registry'.vaults[n] = d
    OBVIOUS
  <2>1. dir \in [Dir -> DirState] /\ vaultCmd \in [Shell -> VaultCommand]
    BY DEF HomeInv, RegistryInv, RegistryTypeOK
  <2>2. PICK s \in Shell : RegistryStart(s) \/ RegistryGoOn(s)
    BY DEF HomeNext, Begin, GoOn, registryVars
  <2>3. UnlinkFails(s)
    <3>1. ~RegistryStart(s)
      BY <2>1 DEF RegistryStart, Add, Remove, Default, Create, Delete
    <3> QED BY <2>1, <2>2, <3>1
            DEF RegistryGoOn, Scaffold, Register, Unlink, Unregister, Truncate, Write, Stop
  <2>4. d = vaultCmd[s].path /\ vaultCmd[s].at = "unlink" /\ registry' = registry
    BY <2>1, <2>3 DEF UnlinkFails
  <2>5. registry.vaults[vaultCmd[s].name] = d /\ vaultCmd[s].name \in Name
    BY <2>4 DEF HomeInv, RegistryInv, Named, Aimed
  <2> QED BY <2>4, <2>5
<1> QED BY <1>1, InvHolds, PTL DEF HomeSpec, BrokenOffDeleteCanBeRetried

-----------------------------------------------------------------------------
(***************************************************************************)
(* The settings.  A run of the wizard has one key of an owner and one      *)
(* endpoint of a custom provider, reveals only keys it has, and asks for   *)
(* an endpoint only if it found none.                                      *)
(***************************************************************************)
SavedKey == [owner : KeyOwner, key : Key]

Endpoint == [name : CustomName, url : Url]

IsRun(run) ==
    run = [at |-> run.at, settings |-> run.settings, custom |-> run.custom, found |-> run.found,
           keys |-> run.keys, new |-> run.new, asked |-> run.asked, revealed |-> run.revealed]

OneOfEach(run) ==
    /\ \A i, j \in DOMAIN run.keys : run.keys[i].owner = run.keys[j].owner => i = j
    /\ \A i, j \in DOMAIN run.custom : run.custom[i].name = run.custom[j].name => i = j

TakenOver(run) ==
    \A i \in DOMAIN run.custom :
        run.custom[i].name \in DOMAIN run.found => run.custom[i].url = run.found[run.custom[i].name]

NewHaveKeys(run) == \A o \in run.new : \E i \in DOMAIN run.keys : run.keys[i].owner = o

RunOK(run) ==
    /\ IsRun(run)
    /\ run.keys \in Seq(SavedKey) /\ run.custom \in Seq(Endpoint) /\ run.asked \in Nat
    /\ OneOfEach(run)
    /\ TakenOver(run)
    /\ NewHaveKeys(run)
    /\ run.revealed \subseteq Range(run.keys)

\* What the wizard was given and found is so as long as it runs: nothing else changes a file then.
StillFound ==
    wizard.at # "idle" =>
        /\ wizard.settings \in [Asked -> Value] /\ IsValid(wizard.settings)
        /\ wizard.found = CustomOf(ExistingOrDefaults)

WizardInv ==
    /\ RunOK(wizard)
    /\ StillFound
    /\ DOMAIN layer = ConfigFile
    /\ storedKey \in [KeyOwner -> Key \cup {Unset}]

(***************************************************************************)
(* Of the variables, those of the keys of different owners differ, and from*)
(* all others; those of the settings differ and none is an endpoint's; and *)
(* no two variables of endpoints are read back as one name.  The prefixes  *)
(* and suffixes the code gives them see to it, except that two custom      *)
(* names can have one variable (see MCHome_one_variable).                  *)
(***************************************************************************)
KeysOfTheirOwn ==
    /\ \A o, p \in KeyOwner : KeyEnv[o] = KeyEnv[p] => o = p
    /\ \A o \in KeyOwner : KeyEnv[o] \notin Range(UrlEnv) \cup Range(SettingEnv)

SettingsOfTheirOwn ==
    /\ \A f, g \in Setting : SettingEnv[f] = SettingEnv[g] => f = g
    /\ \A f \in Setting : SettingEnv[f] \notin Range(KeyEnv) \cup Range(UrlEnv)
    /\ \A n \in CustomName : UrlEnv[n] \notin Range(KeyEnv)

NamesComeBack == \A j, k \in Range(UrlEnv) : NameIn[j] = NameIn[k] => j = k

LEMMA LatestIsSole ==
    ASSUME NEW s, NEW i \in DOMAIN s, DOMAIN s \subseteq Nat, NEW set, s[i] \in set,
           \A j \in DOMAIN s : s[j] \in set => j = i
    PROVE  Latest(s, set) = s[i]
<1>1. \E m \in DOMAIN s : s[m] \in set /\ \A j \in DOMAIN s : s[j] \in set => j <= m
  OBVIOUS
<1> QED  BY <1>1 DEF Latest

LEMMA SeqDomain ==
    ASSUME NEW S, NEW s \in Seq(S)
    PROVE  DOMAIN s \subseteq Nat /\ DOMAIN s = 1..Len(s) /\ \A i \in DOMAIN s : s[i] \in S
OBVIOUS

\* A key the run has is the latest of its owner, and an endpoint that of its provider.
LEMMA TheLatest ==
    ASSUME NEW run, RunOK(run)
    PROVE  /\ \A i \in DOMAIN run.keys :
                Latest(run.keys, {k \in Range(run.keys) : k.owner = run.keys[i].owner}) = run.keys[i]
           /\ \A i \in DOMAIN run.custom :
                Latest(run.custom, {c \in Range(run.custom) : c.name = run.custom[i].name}) = run.custom[i]
<1>1. DOMAIN run.keys \subseteq Nat /\ DOMAIN run.custom \subseteq Nat
  BY SeqDomain DEF RunOK
<1>2. ASSUME NEW i \in DOMAIN run.keys
      PROVE  Latest(run.keys, {k \in Range(run.keys) : k.owner = run.keys[i].owner}) = run.keys[i]
  <2> DEFINE set == {k \in Range(run.keys) : k.owner = run.keys[i].owner}
  <2>1. run.keys[i] \in set /\ \A j \in DOMAIN run.keys : run.keys[j] \in set => j = i
    BY DEF RunOK, OneOfEach, Range
  <2> HIDE DEF set
  <2>2. Latest(run.keys, set) = run.keys[i]
    BY <1>1, <2>1, LatestIsSole
  <2> QED  BY <2>2 DEF set
<1>3. ASSUME NEW i \in DOMAIN run.custom
      PROVE  Latest(run.custom, {c \in Range(run.custom) : c.name = run.custom[i].name}) = run.custom[i]
  <2> DEFINE set == {c \in Range(run.custom) : c.name = run.custom[i].name}
  <2>1. run.custom[i] \in set /\ \A j \in DOMAIN run.custom : run.custom[j] \in set => j = i
    BY DEF RunOK, OneOfEach, Range
  <2> HIDE DEF set
  <2>2. Latest(run.custom, set) = run.custom[i]
    BY <1>1, <2>1, LatestIsSole
  <2> QED  BY <2>2 DEF set
<1> QED  BY <1>2, <1>3

-----------------------------------------------------------------------------
\* The wizard starts with nothing.
LEMMA StartsOK ==
    ASSUME NEW at, NEW settings, NEW found
    PROVE  RunOK([NoRun EXCEPT !.at = at, !.settings = settings, !.found = found]) /\ RunOK(NoRun)
<1>1. ASSUME NEW run, IsRun(run), run.keys = <<>>, run.custom = <<>>, run.asked = 0, run.revealed = {},
             run.new = {}
      PROVE  RunOK(run)
  BY <1>1 DEF RunOK, OneOfEach, TakenOver, NewHaveKeys
<1> DEFINE run == [NoRun EXCEPT !.at = at, !.settings = settings, !.found = found]
<1>2. /\ IsRun(run) /\ run.keys = <<>> /\ run.custom = <<>> /\ run.asked = 0 /\ run.revealed = {}
      /\ run.new = {}
  <2>1. /\ run = [NoRun EXCEPT !.at = at, !.settings = settings, !.found = found]
        /\ IsRun(NoRun) /\ NoRun.keys = <<>> /\ NoRun.custom = <<>> /\ NoRun.asked = 0
        /\ NoRun.revealed = {} /\ NoRun.new = {}
    BY DEF NoRun, IsRun
  <2> HIDE DEF run
  <2>2. DOMAIN run = {"at", "settings", "custom", "found", "keys", "new", "asked", "revealed"}
    BY <2>1 DEF IsRun
  <2>3. run = [f \in DOMAIN run |-> run[f]]
    BY <2>1
  <2>4. IsRun(run)
    BY <2>2, <2>3 DEF IsRun
  <2> QED  BY <2>1, <2>4 DEF IsRun
<1>3. /\ IsRun(NoRun) /\ NoRun.keys = <<>> /\ NoRun.custom = <<>> /\ NoRun.asked = 0 /\ NoRun.revealed = {}
      /\ NoRun.new = {}
  BY DEF NoRun, IsRun
<1> HIDE DEF run
<1>4. RunOK(run) /\ RunOK(NoRun)
  BY <1>1, <1>2, <1>3
<1> QED  BY <1>4 DEF run

LEMMA AppendOne ==
    ASSUME NEW S, NEW s \in Seq(S), NEW x \in S
    PROVE  /\ Append(s, x) \in Seq(S)
           /\ DOMAIN Append(s, x) = DOMAIN s \cup {Len(s) + 1}
           /\ Len(s) + 1 \notin DOMAIN s
           /\ \A i \in DOMAIN s : Append(s, x)[i] = s[i]
           /\ Append(s, x)[Len(s) + 1] = x
OBVIOUS

\* A key of an owner that has none yet is added.
LEMMA KeyAdded ==
    ASSUME NEW run, RunOK(run), NEW o \in KeyOwner, NEW key \in Key \cup {Unset},
           \A k \in Range(run.keys) : k.owner # o
    PROVE  /\ RunOK(WithKey(run, o, key))
           /\ WithKey(run, o, key).at = run.at /\ WithKey(run, o, key).settings = run.settings
           /\ WithKey(run, o, key).found = run.found
<1>1. CASE key = Unset
  BY <1>1 DEF WithKey
<1>2. CASE key # Unset
  <2> DEFINE k == [owner |-> o, key |-> key]
             keys == Append(run.keys, k)
             next == WithKey(run, o, key)
  <2>1. /\ IsRun(next) /\ next.keys = keys /\ next.custom = run.custom /\ next.asked = run.asked
        /\ next.revealed = run.revealed /\ next.found = run.found /\ next.at = run.at
        /\ next.settings = run.settings /\ next.new \subseteq run.new \cup {o}
    BY <1>2 DEF WithKey, RunOK, IsRun
  <2>2. k \in SavedKey /\ k.owner = o
    BY <1>2 DEF SavedKey
  <2>3. run.keys \in Seq(SavedKey)
    BY DEF RunOK
  <2> HIDE DEF k, next
  <2>4. /\ keys \in Seq(SavedKey)
        /\ DOMAIN keys = DOMAIN run.keys \cup {Len(run.keys) + 1}
        /\ \A i \in DOMAIN run.keys : keys[i] = run.keys[i]
        /\ keys[Len(run.keys) + 1] = k
    BY <2>2, <2>3, AppendOne
  <2> HIDE DEF keys
  <2>5. \A i \in DOMAIN run.keys : run.keys[i].owner # o
    BY DEF Range
  <2>6. \A i, j \in DOMAIN keys : keys[i].owner = keys[j].owner => i = j
    <3> SUFFICES ASSUME NEW i \in DOMAIN keys, NEW j \in DOMAIN keys, keys[i].owner = keys[j].owner
                 PROVE  i = j
      OBVIOUS
    <3>1. CASE i \in DOMAIN run.keys /\ j \in DOMAIN run.keys
      BY <2>4, <3>1 DEF RunOK, OneOfEach
    <3>2. CASE i \notin DOMAIN run.keys
      BY <2>2, <2>4, <2>5, <3>2
    <3>3. CASE j \notin DOMAIN run.keys
      BY <2>2, <2>4, <2>5, <3>3
    <3> QED  BY <3>1, <3>2, <3>3
  <2>7. Range(run.keys) \subseteq Range(keys)
    BY <2>4 DEF Range
  <2>8. NewHaveKeys(next)
    BY <2>1, <2>2, <2>4 DEF RunOK, NewHaveKeys
  <2>9. RunOK(next)
    BY <2>1, <2>4, <2>6, <2>7, <2>8 DEF RunOK, OneOfEach, TakenOver
  <2> QED  BY <2>1, <2>9 DEF next
<1> QED  BY <1>1, <1>2

\* An endpoint of a provider that has none yet is added.
LEMMA EndpointAdded ==
    ASSUME NEW run, RunOK(run), NEW n \in CustomName, NEW url \in Url,
           \A c \in Range(run.custom) : c.name # n,
           n \in DOMAIN run.found => url = run.found[n]
    PROVE  LET next == [run EXCEPT !.custom = Append(@, [name |-> n, url |-> url])]
           IN  /\ RunOK(next)
               /\ next.at = run.at /\ next.settings = run.settings /\ next.found = run.found
               /\ next.keys = run.keys
<1> DEFINE c == [name |-> n, url |-> url]
           custom == Append(run.custom, c)
           next == [run EXCEPT !.custom = Append(@, [name |-> n, url |-> url])]
<1>1. /\ IsRun(next) /\ next.keys = run.keys /\ next.custom = custom /\ next.asked = run.asked
      /\ next.revealed = run.revealed /\ next.found = run.found /\ next.at = run.at
      /\ next.settings = run.settings /\ next.new = run.new
  <2>1. next = [run EXCEPT !.custom = custom] /\ IsRun(run)
    BY DEF RunOK
  <2> HIDE DEF next, custom
  <2> QED  BY <2>1 DEF IsRun
<1>2. c \in Endpoint /\ c.name = n /\ c.url = url
  BY DEF Endpoint
<1>3. run.custom \in Seq(Endpoint)
  BY DEF RunOK
<1> HIDE DEF c, next
<1>4. /\ custom \in Seq(Endpoint)
      /\ DOMAIN custom = DOMAIN run.custom \cup {Len(run.custom) + 1}
      /\ \A i \in DOMAIN run.custom : custom[i] = run.custom[i]
      /\ custom[Len(run.custom) + 1] = c
  BY <1>2, <1>3, AppendOne
<1> HIDE DEF custom
<1>5. \A i \in DOMAIN run.custom : run.custom[i].name # n
  BY DEF Range
<1>6. \A i, j \in DOMAIN custom : custom[i].name = custom[j].name => i = j
  <2> SUFFICES ASSUME NEW i \in DOMAIN custom, NEW j \in DOMAIN custom, custom[i].name = custom[j].name
               PROVE  i = j
    OBVIOUS
  <2>1. CASE i \in DOMAIN run.custom /\ j \in DOMAIN run.custom
    BY <1>4, <2>1 DEF RunOK, OneOfEach
  <2>2. CASE i \notin DOMAIN run.custom
    BY <1>2, <1>4, <1>5, <2>2
  <2>3. CASE j \notin DOMAIN run.custom
    BY <1>2, <1>4, <1>5, <2>3
  <2> QED  BY <2>1, <2>2, <2>3
<1>7. TakenOver(next)
  BY <1>1, <1>2, <1>4 DEF RunOK, TakenOver
<1>8. RunOK(next)
  BY <1>1, <1>4, <1>6, <1>7 DEF RunOK, OneOfEach, NewHaveKeys
<1> QED  BY <1>1, <1>8 DEF next

\* A key the run has is or is not revealed.
LEMMA RevealOK ==
    ASSUME RunOK(wizard), NEW yes \in BOOLEAN, AnswerReveal(yes)
    PROVE  /\ RunOK(wizard')
           /\ wizard'.at = wizard.at /\ wizard'.settings = wizard.settings /\ wizard'.found = wizard.found
<1> DEFINE k == wizard.keys[wizard.asked + 1]
           revealed == IF yes THEN wizard.revealed \cup {k} ELSE wizard.revealed
<1>1. k \in Range(wizard.keys)
  BY SeqDomain DEF RunOK, AnswerReveal, Range
<1>2. wizard' = [wizard EXCEPT !.asked = wizard.asked + 1, !.revealed = revealed]
  BY DEF AnswerReveal
<1>3. revealed \subseteq Range(wizard.keys)
  BY <1>1 DEF RunOK
<1> HIDE DEF revealed
<1>4. /\ IsRun(wizard') /\ wizard'.keys = wizard.keys /\ wizard'.custom = wizard.custom
      /\ wizard'.asked = wizard.asked + 1 /\ wizard'.revealed = revealed
      /\ wizard'.at = wizard.at /\ wizard'.settings = wizard.settings /\ wizard'.found = wizard.found
      /\ wizard'.new = wizard.new
  BY <1>2 DEF RunOK, IsRun
<1>5. wizard'.asked \in Nat
  BY <1>4 DEF RunOK
<1> QED  BY <1>3, <1>4, <1>5 DEF RunOK, OneOfEach, TakenOver, NewHaveKeys

-----------------------------------------------------------------------------
\* As long as the files and the environment stay, so does what the wizard found in them.
LEMMA FoundFrame ==
    ASSUME StillFound, UNCHANGED <<environ, layer>>, wizard.at # "idle",
           wizard'.settings = wizard.settings, wizard'.found = wizard.found
    PROVE  StillFound'
BY DEF StillFound, ExistingOrDefaults

LEMMA IdleFindsNothing ==
    ASSUME wizard'.at = "idle"
    PROVE  StillFound'
BY DEF StillFound

LEMMA WizardNext ==
    ASSUME SettingsAssumption, WizardInv, [SettingsNext]_settingsVars
    PROVE  WizardInv'
<1>1. /\ RunOK(wizard) /\ StillFound /\ DOMAIN layer = ConfigFile
      /\ storedKey \in [KeyOwner -> Key \cup {Unset}]
  BY DEF WizardInv
<1>2. \A o \in KeyOwner : KeyAnswers(o) \subseteq Key \cup {Unset}
  BY <1>1 DEF KeyAnswers
<1>3. RunOK(NoRun) /\ NoRun.at = "idle"
  BY StartsOK DEF NoRun
<1>4. ASSUME NEW settings \in [Asked -> Value], StartWizard(settings)
      PROVE  WizardInv'
  <2> DEFINE found == CustomOf(ExistingOrDefaults)
             next == [NoRun EXCEPT !.at = "providers", !.settings = settings, !.found = found]
  <2>1. RunOK(next) /\ next.settings = settings /\ next.found = found
    BY StartsOK DEF NoRun
  <2>2. wizard' = next /\ UNCHANGED <<layer, environ, storedKey>>
    BY <1>4 DEF StartWizard
  <2>3. IsValid(settings) /\ ExistingOrDefaults' = ExistingOrDefaults
    BY <1>4, <2>2 DEF StartWizard, ExistingOrDefaults
  <2> HIDE DEF next
  <2>4. IsValid(wizard'.settings)
    BY <2>1, <2>2, <2>3
  <2>5. StillFound'
    BY <1>4, <2>1, <2>2, <2>3, <2>4 DEF StillFound, IsValid
  <2> QED  BY <1>1, <2>1, <2>2, <2>5 DEF WizardInv
<1>5. ASSUME NEW o \in KeyOwner, NEW key \in KeyAnswers(o), AnswerKey(o, key)
      PROVE  WizardInv'
  <2>1. /\ wizard' = WithKey(wizard, o, key) /\ wizard.at # "idle"
        /\ \A k \in Range(wizard.keys) : k.owner # o
        /\ UNCHANGED <<layer, environ, storedKey>>
    BY <1>5 DEF AnswerKey, NotAskedYet
  <2>2. key \in Key \cup {Unset}
    BY <1>2
  <2>3. /\ RunOK(WithKey(wizard, o, key))
        /\ wizard'.settings = wizard.settings /\ wizard'.found = wizard.found
    BY <1>1, <2>1, <2>2, KeyAdded
  <2>4. StillFound'
    BY <1>1, <2>1, <2>3, FoundFrame
  <2> QED  BY <1>1, <2>1, <2>3, <2>4 DEF WizardInv
<1>6. ASSUME NEW n \in CustomName, NEW url \in Url, NEW key \in KeyAnswers(n), AddCustomProvider(n, url, key)
      PROVE  WizardInv'
  <2> DEFINE run == [wizard EXCEPT !.custom = Append(@, [name |-> n, url |-> url])]
  <2>1. /\ wizard' = WithKey(run, n, key) /\ wizard.at # "idle"
        /\ \A k \in Range(wizard.keys) : k.owner # n
        /\ \A c \in Range(wizard.custom) : c.name # n
        /\ n \in DOMAIN wizard.found => url = wizard.found[n]
        /\ UNCHANGED <<layer, environ, storedKey>>
    BY <1>6 DEF AddCustomProvider, NotAskedYet
  <2>2. n \in KeyOwner /\ key \in Key \cup {Unset}
    BY <1>2, SettingsAssumption DEF SettingsAssumption
  <2>3. /\ RunOK(run) /\ run.keys = wizard.keys
        /\ run.settings = wizard.settings /\ run.found = wizard.found
    BY <1>1, <2>1, EndpointAdded
  <2> HIDE DEF run
  <2>4. \A k \in Range(run.keys) : k.owner # n
    BY <2>1, <2>3
  <2>5. /\ RunOK(WithKey(run, n, key))
        /\ WithKey(run, n, key).settings = run.settings /\ WithKey(run, n, key).found = run.found
    BY <2>2, <2>3, <2>4, KeyAdded
  <2>6. StillFound'
    BY <1>1, <2>1, <2>3, <2>5, FoundFrame
  <2> QED  BY <1>1, <2>1, <2>5, <2>6 DEF WizardInv
<1>7. CASE SaveNewKeys
  <2>1. /\ wizard' = [wizard EXCEPT !.at = "reveal"] /\ wizard.at # "idle"
        /\ UNCHANGED <<layer, environ>>
    BY <1>7 DEF SaveNewKeys
  <2>2. /\ IsRun(wizard') /\ wizard'.keys = wizard.keys /\ wizard'.custom = wizard.custom
        /\ wizard'.asked = wizard.asked /\ wizard'.revealed = wizard.revealed
        /\ wizard'.settings = wizard.settings /\ wizard'.found = wizard.found
        /\ wizard'.new = wizard.new
    BY <1>1, <2>1 DEF RunOK, IsRun
  <2>3. RunOK(wizard')
    BY <1>1, <2>2 DEF RunOK, OneOfEach, TakenOver, NewHaveKeys
  <2>4. StillFound'
    BY <1>1, <2>1, <2>2, FoundFrame
  <2>5. ASSUME NEW o \in wizard.new
        PROVE  Latest(wizard.keys, {k \in Range(wizard.keys) : k.owner = o}).key \in Key
    <3>1. PICK i \in DOMAIN wizard.keys : wizard.keys[i].owner = o
      BY <1>1 DEF RunOK, NewHaveKeys
    <3>2. RunOK(wizard)
      BY <1>1
    <3>3. Latest(wizard.keys, {k \in Range(wizard.keys) : k.owner = wizard.keys[i].owner}) = wizard.keys[i]
      BY ONLY <3>1, <3>2, TheLatest
    <3>4. Latest(wizard.keys, {k \in Range(wizard.keys) : k.owner = o}) = wizard.keys[i]
      BY ONLY <3>1, <3>3
    <3>5. wizard.keys[i] \in SavedKey
      BY <1>1, <3>1, SeqDomain DEF RunOK
    <3> QED  BY ONLY <3>4, <3>5 DEF SavedKey
  <2>6. storedKey' \in [KeyOwner -> Key \cup {Unset}]
    BY <1>1, <1>7, <2>5 DEF SaveNewKeys
  <2> QED  BY <1>1, <2>1, <2>3, <2>4, <2>6 DEF WizardInv
<1>8. ASSUME NEW yes \in BOOLEAN, AnswerReveal(yes)
      PROVE  WizardInv'
  <2>1. wizard.at # "idle" /\ UNCHANGED <<layer, environ, storedKey>>
    BY <1>8 DEF AnswerReveal
  <2>2. RunOK(wizard') /\ wizard'.settings = wizard.settings /\ wizard'.found = wizard.found
    BY <1>1, <1>8, RevealOK
  <2>3. StillFound'
    BY <1>1, <2>1, <2>2, FoundFrame
  <2> QED  BY <1>1, <2>1, <2>2, <2>3 DEF WizardInv, RunOK
<1>9. CASE WriteDotenv \/ LeaveWizard
  <2>1. wizard' = NoRun /\ UNCHANGED <<layer, storedKey>>
    BY <1>9 DEF WriteDotenv, LeaveWizard
  <2> QED  BY <1>1, <1>3, <2>1, IdleFindsNothing DEF WizardInv
<1>10. ASSUME NEW l \in ConfigFile, WriteConfigYaml(l)
       PROVE  WizardInv'
  <2>1. wizard' = NoRun /\ DOMAIN layer' = DOMAIN layer /\ UNCHANGED storedKey
    BY <1>10 DEF WriteConfigYaml
  <2> QED  BY <1>1, <1>3, <2>1, IdleFindsNothing DEF WizardInv
<1>11. CASE Source \/ NewShell
  <2>1. UNCHANGED <<wizard, layer, storedKey>> /\ wizard'.at = "idle"
    BY <1>11 DEF Source, NewShell
  <2> QED  BY <1>1, <2>1, IdleFindsNothing DEF WizardInv
<1>12. ASSUME NEW l \in ConfigFile, NEW f \in Setting, NEW v \in Value, EditFile(l, f, v)
       PROVE  WizardInv'
  <2>1. UNCHANGED <<wizard, storedKey>> /\ wizard'.at = "idle" /\ DOMAIN layer' = DOMAIN layer
    BY <1>12 DEF EditFile
  <2> QED  BY <1>1, <2>1, IdleFindsNothing DEF WizardInv
<1>13. CASE UNCHANGED settingsVars
  BY <1>1, <1>13 DEF settingsVars, WizardInv, StillFound, ExistingOrDefaults
<1> QED
  BY <1>4, <1>5, <1>6, <1>7, <1>8, <1>9, <1>10, <1>11, <1>12, <1>13 DEF SettingsNext

LEMMA WizardInit == SettingsInit => WizardInv
<1> SUFFICES ASSUME SettingsInit
             PROVE  WizardInv
  OBVIOUS
<1>1. wizard = NoRun /\ NoRun.at = "idle" /\ RunOK(NoRun)
  BY StartsOK DEF SettingsInit, NoRun
<1>2. DOMAIN layer = ConfigFile /\ storedKey \in [KeyOwner -> Key \cup {Unset}]
  BY DEF SettingsInit
<1> QED  BY <1>1, <1>2 DEF WizardInv, StillFound

-----------------------------------------------------------------------------
LEMMA OverFacts ==
    ASSUME NEW top, NEW below, NEW k
    PROVE  /\ k \in DOMAIN Over(top, below) <=> k \in DOMAIN top \cup DOMAIN below
           /\ k \in DOMAIN top => Over(top, below)[k] = top[k]
           /\ k \in DOMAIN below \ DOMAIN top => Over(top, below)[k] = below[k]
BY DEF Over

\* Where nothing else has the variable, a revealed key stands in it.
LEMMA RevealedKeys ==
    ASSUME SettingsAssumption, KeysOfTheirOwn, WizardInv, wizard.at # "idle", NEW v \in Range(KeyEnv)
    PROVE  /\ v \in DOMAIN RunVars => \E k \in wizard.revealed : EnvOf(k) = v /\ RunVars[v] = k.key
           /\ \A k \in wizard.revealed : EnvOf(k) = v => v \in DOMAIN RunVars
<1> DEFINE keys == [x \in {EnvOf(k) : k \in wizard.revealed} |->
                       Latest(wizard.keys, {k \in Range(wizard.keys) : EnvOf(k) = x}).key]
           urls == [x \in {UrlEnv[c.name] : c \in Range(wizard.custom)} |->
                       Latest(wizard.custom, {c \in Range(wizard.custom) : UrlEnv[c.name] = x}).url]
           settings == [x \in {SettingEnv[f] : f \in DOMAIN wizard.settings} |->
                           wizard.settings[CHOOSE f \in DOMAIN wizard.settings : SettingEnv[f] = x]]
<1>1. RunVars = Over(keys, Over(urls, settings))
  BY DEF RunVars
<1>2. RunOK(wizard) /\ DOMAIN wizard.settings \subseteq Setting
  BY SettingsAssumption DEF WizardInv, StillFound, SettingsAssumption
<1>3. v \notin DOMAIN urls
  <2>1. \A c \in Range(wizard.custom) : c.name \in CustomName
    <3>1. \A i \in DOMAIN wizard.custom : wizard.custom[i] \in Endpoint
      BY <1>2, SeqDomain DEF RunOK
    <3> QED  BY <3>1 DEF Endpoint, Range
  <2>2. v \notin Range(UrlEnv) /\ DOMAIN UrlEnv = CustomName
    BY SettingsAssumption DEF KeysOfTheirOwn, SettingsAssumption, Range
  <2> QED  BY <2>1, <2>2 DEF Range
<1>4. v \notin DOMAIN settings
  <2>1. v \notin Range(SettingEnv) /\ DOMAIN SettingEnv = Setting
    BY SettingsAssumption DEF KeysOfTheirOwn, SettingsAssumption, Range
  <2> QED  BY <1>2, <2>1 DEF Range
<1>5. ASSUME NEW k \in wizard.revealed, EnvOf(k) = v
      PROVE  keys[v] = k.key
  <2>1. PICK i \in DOMAIN wizard.keys : wizard.keys[i] = k
    BY <1>2 DEF RunOK, Range
  <2>2. \A j \in DOMAIN wizard.keys : wizard.keys[j].owner \in KeyOwner
    <3>1. \A j \in DOMAIN wizard.keys : wizard.keys[j] \in SavedKey
      BY <1>2, SeqDomain DEF RunOK
    <3> QED  BY <3>1 DEF SavedKey
  <2>3. \A l \in Range(wizard.keys) : EnvOf(l) = v <=> l.owner = wizard.keys[i].owner
    BY <1>5, <2>1, <2>2 DEF KeysOfTheirOwn, EnvOf, Range
  <2>4. {l \in Range(wizard.keys) : EnvOf(l) = v} = {l \in Range(wizard.keys) : l.owner = wizard.keys[i].owner}
    BY <2>3
  <2>5. Latest(wizard.keys, {l \in Range(wizard.keys) : EnvOf(l) = v}) = k
    BY <1>2, <2>1, <2>4, TheLatest
  <2> QED  BY <1>5, <2>5
<1>6. DOMAIN keys = {EnvOf(k) : k \in wizard.revealed}
  OBVIOUS
<1> HIDE DEF keys, urls, settings
<1>7. /\ v \in DOMAIN RunVars <=> v \in DOMAIN keys
      /\ v \in DOMAIN keys => RunVars[v] = keys[v]
  BY <1>1, <1>3, <1>4, OverFacts
<1> QED  BY <1>5, <1>6, <1>7

(***************************************************************************)
(* A key stands in .env only if the operator let it in in the last run     *)
(* that asked for it and wrote .env, whoever else's keys were asked for    *)
(* since: what a run asked for is taken out before what it reveals is put  *)
(* in.                                                                     *)
(***************************************************************************)
THEOREM OnlyLetInIsInDotenv ==
    ASSUME SettingsAssumption, KeysOfTheirOwn
    PROVE  SettingsSpec => []RevealIsOptIn
<1>1. SettingsInit => WizardInv /\ RevealIsOptIn
  <2>1. SettingsInit => RevealIsOptIn
    BY SettingsAssumption DEF SettingsInit, RevealIsOptIn, NoEnv, SettingsAssumption, Range
  <2> QED  BY <2>1, WizardInit
<1>2. ASSUME WizardInv, RevealIsOptIn, [SettingsNext]_settingsVars
      PROVE  RevealIsOptIn'
  <2>1. CASE UNCHANGED <<dotenv, agreed>>
    BY <1>2, <2>1 DEF RevealIsOptIn
  <2>2. CASE WriteDotenv
    <3> SUFFICES ASSUME NEW v \in Range(KeyEnv), dotenv'[v] # Unset
                 PROVE  \E k \in agreed' : EnvOf(k) = v /\ k.key = dotenv'[v]
      BY DEF RevealIsOptIn, EnvOf
    <3> DEFINE kept == [x \in EnvVar |-> IF x \in {EnvOf(k) : k \in Range(wizard.keys)}
                                         THEN Unset ELSE dotenv[x]]
    <3>1. v \in EnvVar
      BY SettingsAssumption DEF SettingsAssumption, Range
    <3>2. dotenv' = Over(RunVars, kept) /\ agreed' = Agreed /\ wizard.at # "idle"
      BY <2>2 DEF WriteDotenv, MayWrite
    <3>3. CASE v \in DOMAIN RunVars
      <4>1. PICK k \in wizard.revealed : EnvOf(k) = v /\ RunVars[v] = k.key
        BY <1>2, <3>2, <3>3, RevealedKeys, SettingsAssumption
      <4>2. dotenv'[v] = k.key
        BY <3>2, <3>3, <4>1, OverFacts
      <4>3. k \in agreed'
        BY <3>2 DEF Agreed
      <4> QED  BY <4>1, <4>2, <4>3
    <3>4. CASE v \notin DOMAIN RunVars
      <4>1. dotenv'[v] = kept[v]
        BY <3>1, <3>2, <3>4, OverFacts
      <4>2. dotenv'[v] = dotenv[v] /\ \A l \in Range(wizard.keys) : EnvOf(l) # v
        BY <3>1, <4>1
      <4>3. PICK k \in agreed : EnvOf(k) = v /\ k.key = dotenv[v]
        BY <1>2, <4>2 DEF RevealIsOptIn
      <4>4. k \in agreed'
        BY <3>2, <4>2, <4>3 DEF Agreed, EnvOf
      <4> QED  BY <4>2, <4>3, <4>4
    <3> QED  BY <3>3, <3>4
  <2>3. UNCHANGED <<dotenv, agreed>> \/ WriteDotenv
    BY <1>2 DEF SettingsNext, settingsVars, StartWizard, AnswerKey, AddCustomProvider, SaveNewKeys,
                AnswerReveal, WriteConfigYaml, LeaveWizard, Source, NewShell, EditFile
  <2> QED  BY <2>1, <2>2, <2>3
<1>3. WizardInv /\ RevealIsOptIn /\ [SettingsNext]_settingsVars => (WizardInv /\ RevealIsOptIn)'
  BY <1>2, WizardNext, SettingsAssumption
<1> QED  BY <1>1, <1>3, PTL DEF SettingsSpec

-----------------------------------------------------------------------------
LEMMA GivenEndpoint ==
    ASSUME RunOK(wizard), NEW n \in DOMAIN CustomGiven
    PROVE  \E i \in DOMAIN wizard.custom :
              /\ wizard.custom[i] \in Endpoint /\ wizard.custom[i].name = n
              /\ Latest(wizard.custom, {c \in Range(wizard.custom) : c.name = n}) = wizard.custom[i]
              /\ CustomGiven[n] = wizard.custom[i].url
<1>1. PICK i \in DOMAIN wizard.custom : wizard.custom[i].name = n
  BY DEF CustomGiven, Range
<1>2. Latest(wizard.custom, {c \in Range(wizard.custom) : c.name = n}) = wizard.custom[i]
  BY <1>1, TheLatest
<1>3. wizard.custom[i] \in Endpoint
  BY SeqDomain DEF RunOK
<1>4. CustomGiven[n] = Latest(wizard.custom, {c \in Range(wizard.custom) : c.name = n}).url
  BY DEF CustomGiven
<1> QED  BY <1>1, <1>2, <1>3, <1>4

LEMMA MergedFacts ==
    ASSUME NEW env, NEW files, NEW k
    PROVE  /\ k \in DOMAIN Merged(env, files) <=>
                 k \in DOMAIN EnvOverrides(env) \cup DOMAIN files["local"] \cup DOMAIN files["global"]
           /\ Merged(env, files)[k] = IF k \in DOMAIN EnvOverrides(env) THEN EnvOverrides(env)[k]
                                      ELSE IF k \in DOMAIN files["local"] THEN files["local"][k]
                                      ELSE IF k \in DOMAIN files["global"] THEN files["global"][k]
                                      ELSE Merged(env, files)[k]
<1> DEFINE own == EnvOverrides(env)
           local == files["local"]
           global == files["global"]
<1>1. Merged(env, files) = Over(own, Over(local, global))
  BY DEF Merged
<1> HIDE DEF own, local, global
<1>2. /\ k \in DOMAIN Over(local, global) <=> k \in DOMAIN local \cup DOMAIN global
      /\ k \in DOMAIN local => Over(local, global)[k] = local[k]
      /\ k \in DOMAIN global \ DOMAIN local => Over(local, global)[k] = global[k]
  BY OverFacts
<1>3. /\ k \in DOMAIN Merged(env, files) <=> k \in DOMAIN own \cup DOMAIN Over(local, global)
      /\ k \in DOMAIN own => Merged(env, files)[k] = own[k]
      /\ k \in DOMAIN Over(local, global) \ DOMAIN own => Merged(env, files)[k] = Over(local, global)[k]
  BY <1>1, OverFacts
<1>4. /\ k \in DOMAIN Merged(env, files) <=> k \in DOMAIN own \cup DOMAIN local \cup DOMAIN global
      /\ Merged(env, files)[k] = IF k \in DOMAIN own THEN own[k]
                                 ELSE IF k \in DOMAIN local THEN local[k]
                                 ELSE IF k \in DOMAIN global THEN global[k]
                                 ELSE Merged(env, files)[k]
  BY <1>2, <1>3
<1> QED  BY <1>4 DEF own, local, global

\* What can be loaded is what is merged.
LEMMA LoadedIsMerged ==
    ASSUME NEW env, NEW files
    PROVE  /\ LoadConfig(env, files).ok = IsValid(Merged(env, files))
           /\ LoadConfig(env, files).ok => LoadConfig(env, files).config = Merged(env, files)
BY DEF LoadConfig

\* Custom providers are taken whole from the first that has any.
LEMMA CustomLoaded ==
    ASSUME NEW own, NEW local, NEW global
    PROVE  CustomOf(Over(own, Over(local, global))) =
               IF CustomProviders \in DOMAIN own THEN own[CustomProviders]
               ELSE IF CustomProviders \in DOMAIN local THEN CustomOf(local)
               ELSE CustomOf(global)
<1>1. /\ CustomProviders \in DOMAIN Over(local, global)
             <=> CustomProviders \in DOMAIN local \cup DOMAIN global
      /\ CustomProviders \in DOMAIN local =>
             Over(local, global)[CustomProviders] = local[CustomProviders]
      /\ CustomProviders \in DOMAIN global \ DOMAIN local =>
             Over(local, global)[CustomProviders] = global[CustomProviders]
  BY OverFacts
<1> DEFINE files == Over(local, global)
           config == Over(own, files)
<1> HIDE DEF files
<1>2. /\ CustomProviders \in DOMAIN config <=> CustomProviders \in DOMAIN own \cup DOMAIN files
      /\ CustomProviders \in DOMAIN own => config[CustomProviders] = own[CustomProviders]
      /\ CustomProviders \in DOMAIN files \ DOMAIN own => config[CustomProviders] = files[CustomProviders]
  BY OverFacts
<1> HIDE DEF config
<1>3. CustomOf(config) = IF CustomProviders \in DOMAIN own THEN own[CustomProviders]
                         ELSE IF CustomProviders \in DOMAIN local THEN CustomOf(local)
                         ELSE CustomOf(global)
  BY <1>1, <1>2 DEF CustomOf, files
<1> QED  BY <1>3 DEF config, files

\* What a file has after it was written to.
LEMMA WrittenFile ==
    ASSUME SettingsAssumption, WizardInv, NEW l \in ConfigFile, WriteConfigYaml(l)
    PROVE  /\ \A f \in Asked : f \in DOMAIN layer'[l] /\ layer'[l][f] = wizard.settings[f]
           /\ CustomOf(layer'[l]) = IF wizard.custom = <<>> THEN CustomOf(layer[l])
                                    ELSE Over(CustomGiven, CustomOf(layer[l]))
           /\ CustomProviders \in DOMAIN layer'[l]
                  <=> wizard.custom # <<>> \/ CustomProviders \in DOMAIN layer[l]
           /\ \A f \in Setting \ Asked :
                 /\ (f \in DOMAIN layer'[l]) = (f \in DOMAIN layer[l])
                 /\ f \in DOMAIN layer[l] => layer'[l][f] = layer[l][f]
           /\ \A m \in ConfigFile \ {l} : layer'[m] = layer[m]
<1> DEFINE custom == Over(CustomGiven, CustomOf(layer[l]))
           map == CustomMap(custom)
           rest == Over(wizard.settings, layer[l])
<1>1. /\ layer'[l] = Over(map, rest) /\ \A m \in ConfigFile \ {l} : layer'[m] = layer[m]
  BY DEF WriteConfigYaml, WizardInv
<1>2. DOMAIN wizard.settings = Asked /\ CustomProviders \notin Asked
  BY SettingsAssumption DEF WizardInv, StillFound, WriteConfigYaml, MayWrite, SettingsAssumption
<1>3. IF wizard.custom = <<>> THEN DOMAIN map = {}
      ELSE DOMAIN map = {CustomProviders} /\ map[CustomProviders] = custom
  BY DEF CustomMap, Only, NoSettings
<1> HIDE DEF map, custom
<1>4. ASSUME NEW k
      PROVE  /\ k \in DOMAIN rest <=> k \in Asked \cup DOMAIN layer[l]
             /\ k \in Asked => rest[k] = wizard.settings[k]
             /\ k \in DOMAIN layer[l] \ Asked => rest[k] = layer[l][k]
  BY <1>2, OverFacts
<1> HIDE DEF rest
<1>5. ASSUME NEW k
      PROVE  /\ k \in DOMAIN layer'[l] <=> k \in DOMAIN map \cup DOMAIN rest
             /\ k \in DOMAIN map => layer'[l][k] = map[k]
             /\ k \in DOMAIN rest \ DOMAIN map => layer'[l][k] = rest[k]
  BY <1>1, OverFacts
<1>6. \A f \in Asked : f \in DOMAIN layer'[l] /\ layer'[l][f] = wizard.settings[f]
  BY <1>2, <1>3, <1>4, <1>5
<1>7. /\ CustomProviders \in DOMAIN rest <=> CustomProviders \in DOMAIN layer[l]
      /\ CustomProviders \in DOMAIN layer[l] => rest[CustomProviders] = layer[l][CustomProviders]
  BY <1>2, <1>4
<1>8. /\ CustomProviders \in DOMAIN layer'[l]
             <=> wizard.custom # <<>> \/ CustomProviders \in DOMAIN layer[l]
      /\ wizard.custom # <<>> => layer'[l][CustomProviders] = custom
      /\ wizard.custom = <<>> /\ CustomProviders \in DOMAIN layer[l] =>
             layer'[l][CustomProviders] = layer[l][CustomProviders]
  BY <1>3, <1>5, <1>7
<1>9. CustomOf(layer'[l]) = IF wizard.custom = <<>> THEN CustomOf(layer[l]) ELSE custom
  BY <1>8 DEF CustomOf
<1>10. ASSUME NEW f \in Setting \ Asked
       PROVE  /\ f \in DOMAIN layer'[l] <=> f \in DOMAIN layer[l]
              /\ f \in DOMAIN layer[l] => layer'[l][f] = layer[l][f]
  <2>1. f # CustomProviders
    BY SettingsAssumption DEF SettingsAssumption
  <2> QED  BY <1>3, <1>4, <1>5, <2>1
<1> QED  BY <1>1, <1>6, <1>8, <1>9, <1>10 DEF custom

LEMMA WrittenToFileLoads ==
    ASSUME SettingsAssumption, WizardInv, NEW l \in ConfigFile, WriteConfigYaml(l)
    PROVE  FileLoads(l)
<1>0. \A f \in Setting \ Asked :
         /\ (f \in DOMAIN layer'[l]) = (f \in DOMAIN layer[l])
         /\ f \in DOMAIN layer[l] => layer'[l][f] = layer[l][f]
  BY WrittenFile, Zenon
<1> DEFINE now == Merged(environ, layer')
           was == Merged(environ, layer)
<1>1. l \in {"local", "global"} /\ (l = "global" => layer'["local"] = layer["local"])
                                /\ (l = "local" => layer'["global"] = layer["global"])
  BY WrittenFile DEF ConfigFile
<1>2. ASSUME NEW f \in Asked \ Shadowing(l)
      PROVE  now[f] = wizard.settings[f]
  <2>1. f \in DOMAIN layer'[l] /\ layer'[l][f] = wizard.settings[f]
    BY WrittenFile
  <2>2. f \notin DOMAIN EnvOverrides(environ) /\ (l = "global" => f \notin DOMAIN layer["local"])
    BY DEF Shadowing
  <2> QED  BY <1>1, <2>1, <2>2, MergedFacts
<1>3. ASSUME CustomProviders \notin Shadowing(l), NEW n \in DOMAIN CustomGiven
      PROVE  CustomOf(now)[n] = CustomGiven[n]
  <2>1. wizard.custom # <<>>
    BY DEF CustomGiven, Range
  <2>2. /\ CustomOf(layer'[l]) = Over(CustomGiven, CustomOf(layer[l]))
        /\ CustomProviders \in DOMAIN layer'[l]
    BY <2>1, WrittenFile
  <2>3. /\ CustomProviders \notin DOMAIN EnvOverrides(environ)
        /\ l = "global" => CustomProviders \notin DOMAIN layer["local"]
    BY <1>3 DEF Shadowing
  <2>4. CustomOf(now) = CustomOf(layer'[l])
    BY <1>1, <2>2, <2>3, CustomLoaded DEF Merged
  <2> QED  BY <2>2, <2>4, OverFacts
<1>4. ASSUME IsValid(was), NEW f \in Checked \cap DOMAIN now
      PROVE  now[f] \in Legal
  <2>1. f \in Setting /\ \A k : k \in DOMAIN was /\ k = f => was[k] \in Legal
    BY <1>4, SettingsAssumption DEF IsValid, SettingsAssumption
  <2>2. f \in Asked => wizard.settings[f] \in Legal
    BY DEF WizardInv, StillFound, WriteConfigYaml, MayWrite, IsValid
  <2>3. CASE f \in DOMAIN EnvOverrides(environ)
    BY <2>1, <2>3, MergedFacts
  <2>4. CASE f \notin DOMAIN EnvOverrides(environ) /\ f \in Asked
    <3>1. f \in DOMAIN layer'[l] /\ layer'[l][f] = wizard.settings[f]
      BY <2>4, WrittenFile
    <3>2. f \in Shadowing(l) => l = "global" /\ f \in DOMAIN layer["local"]
      BY <1>1, <2>4 DEF Shadowing
    <3> HIDE DEF was
    <3>3. CASE f \in Shadowing(l)
      <4>1. f \in DOMAIN was /\ was[f] = layer["local"][f] /\ now[f] = layer["local"][f]
        BY <1>1, <2>4, <3>2, <3>3, MergedFacts DEF was
      <4> QED  BY <2>1, <4>1
    <3> QED  BY <1>2, <2>2, <2>4, <3>3
  <2>5. CASE f \notin DOMAIN EnvOverrides(environ) /\ f \notin Asked
    <3>1. \A m \in {"local", "global"} : /\ f \in DOMAIN layer'[m] <=> f \in DOMAIN layer[m]
                                         /\ f \in DOMAIN layer[m] => layer'[m][f] = layer[m][f]
      <4>1. f \in Setting \ Asked
        BY <2>1, <2>5
      <4>2. /\ f \in DOMAIN layer'[l] <=> f \in DOMAIN layer[l]
            /\ f \in DOMAIN layer[l] => layer'[l][f] = layer[l][f]
        BY ONLY <1>0, <4>1
      <4>3. CASE l = "local"
        BY ONLY <1>1, <4>2, <4>3
      <4>4. CASE l = "global"
        BY ONLY <1>1, <4>2, <4>4
      <4> QED  BY ONLY <1>1, <4>3, <4>4
    <3>2. f \in DOMAIN was /\ now[f] = was[f]
      BY <1>4, <2>5, <3>1, MergedFacts
    <3> QED  BY <2>1, <3>2
  <2> QED  BY <2>3, <2>4, <2>5
<1>5. IsValid(was) => IsValid(now)
  BY <1>4 DEF IsValid
<1> HIDE DEF now, was
<1>6. /\ LoadConfig(environ, layer).ok => LoadConfig(environ, layer').ok
      /\ LoadConfig(environ, layer').ok => LoadConfig(environ, layer').config = now
  BY <1>5, LoadedIsMerged DEF now, was
<1> QED  BY <1>2, <1>3, <1>6 DEF FileLoads

-----------------------------------------------------------------------------
\* The variables of settings and of endpoints that survive stand in .env as they were given.
LEMMA VariablesWritten ==
    ASSUME SettingsAssumption, SettingsOfTheirOwn, WizardInv, wizard.at # "idle"
    PROVE  /\ \A f \in Asked : /\ SettingEnv[f] \in DOMAIN RunVars
                               /\ RunVars[SettingEnv[f]] = wizard.settings[f]
           /\ \A n \in DOMAIN CustomGiven : Survives(n) => /\ UrlEnv[n] \in DOMAIN RunVars
                                                           /\ RunVars[UrlEnv[n]] = CustomGiven[n]
           /\ \A f \in Setting \ Asked : SettingEnv[f] \notin DOMAIN RunVars
<1> DEFINE keys == [x \in {EnvOf(k) : k \in wizard.revealed} |->
                       Latest(wizard.keys, {k \in Range(wizard.keys) : EnvOf(k) = x}).key]
           urls == [x \in {UrlEnv[c.name] : c \in Range(wizard.custom)} |->
                       Latest(wizard.custom, {c \in Range(wizard.custom) : UrlEnv[c.name] = x}).url]
           settings == [x \in {SettingEnv[f] : f \in DOMAIN wizard.settings} |->
                           wizard.settings[CHOOSE f \in DOMAIN wizard.settings : SettingEnv[f] = x]]
           rest == Over(urls, settings)
<1>1. RunVars = Over(keys, rest)
  BY DEF RunVars
<1>2. RunOK(wizard) /\ DOMAIN wizard.settings = Asked /\ Asked \subseteq Setting
  BY SettingsAssumption DEF WizardInv, StillFound, SettingsAssumption
<1>3. DOMAIN keys \subseteq Range(KeyEnv)
  <2>1. \A i \in DOMAIN wizard.keys : wizard.keys[i] \in SavedKey
    BY <1>2, SeqDomain DEF RunOK
  <2>2. \A k \in wizard.revealed : k.owner \in KeyOwner
    BY <1>2, <2>1 DEF RunOK, Range, SavedKey
  <2> QED  BY <2>2, SettingsAssumption DEF EnvOf, Range, SettingsAssumption
<1>4. DOMAIN urls \subseteq Range(UrlEnv)
  <2>1. \A i \in DOMAIN wizard.custom : wizard.custom[i] \in Endpoint
    BY <1>2, SeqDomain DEF RunOK
  <2>2. \A c \in Range(wizard.custom) : c.name \in CustomName
    BY <2>1 DEF Range, Endpoint
  <2> QED  BY <2>2, SettingsAssumption DEF Range, SettingsAssumption
<1>5. ASSUME NEW f \in Asked
      PROVE  SettingEnv[f] \in DOMAIN settings /\ settings[SettingEnv[f]] = wizard.settings[f]
  <2>1. \A g \in Asked : SettingEnv[g] = SettingEnv[f] => g = f
    BY <1>2 DEF SettingsOfTheirOwn
  <2>2. (CHOOSE g \in DOMAIN wizard.settings : SettingEnv[g] = SettingEnv[f]) = f
    BY <1>2, <2>1
  <2> QED  BY <1>2, <2>2
<1>6. ASSUME NEW n \in DOMAIN CustomGiven, Survives(n)
      PROVE  UrlEnv[n] \in DOMAIN urls /\ urls[UrlEnv[n]] = CustomGiven[n] /\ n \in CustomName
  <2>1. PICK i \in DOMAIN wizard.custom :
           /\ wizard.custom[i] \in Endpoint /\ wizard.custom[i].name = n
           /\ Latest(wizard.custom, {c \in Range(wizard.custom) : c.name = n}) = wizard.custom[i]
           /\ CustomGiven[n] = wizard.custom[i].url
    BY <1>2, GivenEndpoint
  <2>2. \A c \in Range(wizard.custom) : UrlEnv[c.name] = UrlEnv[n] <=> c.name = n
    BY <1>6 DEF Survives, CustomGiven
  <2>3. {c \in Range(wizard.custom) : UrlEnv[c.name] = UrlEnv[n]} = {c \in Range(wizard.custom) : c.name = n}
    BY <2>2
  <2>4. UrlEnv[n] \in DOMAIN urls
    BY <2>1 DEF Range
  <2> QED  BY <2>1, <2>3, <2>4 DEF Endpoint
<1> HIDE DEF keys, urls, settings
<1>7. ASSUME NEW f \in Asked
      PROVE  SettingEnv[f] \in DOMAIN RunVars /\ RunVars[SettingEnv[f]] = wizard.settings[f]
  <2>1. SettingEnv[f] \notin DOMAIN urls /\ SettingEnv[f] \notin DOMAIN keys
    BY <1>2, <1>3, <1>4 DEF SettingsOfTheirOwn
  <2>2. SettingEnv[f] \in DOMAIN rest /\ rest[SettingEnv[f]] = wizard.settings[f]
    BY <1>5, <2>1, OverFacts
  <2> HIDE DEF rest
  <2> QED  BY <1>1, <2>1, <2>2, OverFacts
<1>8. ASSUME NEW n \in DOMAIN CustomGiven, Survives(n)
      PROVE  UrlEnv[n] \in DOMAIN RunVars /\ RunVars[UrlEnv[n]] = CustomGiven[n]
  <2>1. UrlEnv[n] \notin DOMAIN keys
    BY <1>3, <1>6, <1>8 DEF SettingsOfTheirOwn
  <2>2. UrlEnv[n] \in DOMAIN rest /\ rest[UrlEnv[n]] = CustomGiven[n]
    BY <1>6, <1>8, OverFacts
  <2> HIDE DEF rest
  <2> QED  BY <1>1, <2>1, <2>2, OverFacts
<1>9. ASSUME NEW f \in Setting \ Asked
      PROVE  SettingEnv[f] \notin DOMAIN RunVars
  <2>1. SettingEnv[f] \notin DOMAIN urls /\ SettingEnv[f] \notin DOMAIN keys
    BY <1>3, <1>4 DEF SettingsOfTheirOwn
  <2>2. SettingEnv[f] \notin DOMAIN settings
    BY <1>2 DEF SettingsOfTheirOwn, settings
  <2>3. SettingEnv[f] \notin DOMAIN rest
    BY <2>1, <2>2, OverFacts
  <2> HIDE DEF rest
  <2> QED  BY <1>1, <2>1, <2>3, OverFacts
<1> QED  BY <1>7, <1>8, <1>9

LEMMA OverridesFacts ==
    ASSUME SettingsAssumption, NamesComeBack, NEW env
    PROVE  /\ \A f \in Setting : /\ f \in DOMAIN EnvOverrides(env) <=> env[SettingEnv[f]] # Unset
                                 /\ env[SettingEnv[f]] # Unset =>
                                        EnvOverrides(env)[f] = env[SettingEnv[f]]
           /\ \A n \in CustomName : env[UrlEnv[n]] # Unset =>
                 /\ CustomProviders \in DOMAIN EnvOverrides(env)
                 /\ EnvOverrides(env)[CustomProviders][NameIn[UrlEnv[n]]] = env[UrlEnv[n]]
<1> DEFINE set == {f \in Setting : env[SettingEnv[f]] # Unset}
           plain == [f \in set |-> env[SettingEnv[f]]]
           urls == {k \in Range(UrlEnv) : env[k] # Unset}
           byName == [n \in {NameIn[k] : k \in urls} |-> env[CHOOSE k \in urls : NameIn[k] = n]]
           custom == IF urls = {} THEN NoSettings ELSE Only(CustomProviders, byName)
<1>1. EnvOverrides(env) = Over(plain, custom)
  BY DEF EnvOverrides
<1>2. DOMAIN plain = set /\ \A f \in set : plain[f] = env[SettingEnv[f]]
  OBVIOUS
<1>3. ASSUME NEW n \in CustomName, env[UrlEnv[n]] # Unset
      PROVE  /\ CustomProviders \in DOMAIN custom
             /\ custom[CustomProviders][NameIn[UrlEnv[n]]] = env[UrlEnv[n]]
  <2>1. UrlEnv[n] \in urls
    BY <1>3, SettingsAssumption DEF SettingsAssumption, Range
  <2>2. \A k \in urls : NameIn[k] = NameIn[UrlEnv[n]] => k = UrlEnv[n]
    BY <2>1 DEF NamesComeBack
  <2>3. (CHOOSE k \in urls : NameIn[k] = NameIn[UrlEnv[n]]) = UrlEnv[n]
    BY <2>1, <2>2
  <2>4. byName[NameIn[UrlEnv[n]]] = env[UrlEnv[n]]
    BY <2>1, <2>3
  <2>5. custom = Only(CustomProviders, byName)
    BY <2>1
  <2> HIDE DEF byName, custom
  <2>6. CustomProviders \in DOMAIN custom /\ custom[CustomProviders] = byName
    BY <2>5 DEF Only
  <2> QED  BY <2>4, <2>6
<1>4. /\ CustomProviders \notin Setting
      /\ \A f \in Setting : f \notin DOMAIN custom
  BY SettingsAssumption DEF SettingsAssumption, Only, NoSettings
<1> HIDE DEF plain, custom
<1>5. ASSUME NEW f \in Setting
      PROVE  /\ f \in DOMAIN EnvOverrides(env) <=> env[SettingEnv[f]] # Unset
             /\ env[SettingEnv[f]] # Unset => EnvOverrides(env)[f] = env[SettingEnv[f]]
  BY <1>1, <1>2, <1>4, OverFacts
<1>6. ASSUME NEW n \in CustomName, env[UrlEnv[n]] # Unset
      PROVE  /\ CustomProviders \in DOMAIN EnvOverrides(env)
             /\ EnvOverrides(env)[CustomProviders][NameIn[UrlEnv[n]]] = env[UrlEnv[n]]
  <2>1. CustomProviders \in DOMAIN custom \ DOMAIN plain
    BY <1>2, <1>3, <1>4, <1>6
  <2>2. /\ CustomProviders \in DOMAIN EnvOverrides(env)
        /\ EnvOverrides(env)[CustomProviders] = custom[CustomProviders]
    BY <1>1, <2>1, OverFacts
  <2> QED  BY <1>3, <1>6, <2>2
<1> QED  BY <1>5, <1>6

LEMMA WrittenToDotenvLoads ==
    ASSUME SettingsAssumption, SettingsOfTheirOwn, NamesComeBack, WizardInv, WriteDotenv
    PROVE  DotenvLoads
<1> DEFINE old == Sourced(dotenv)
           env == Sourced(dotenv')
           now == Merged(env, layer)
           was == Merged(old, layer)
           secret == {EnvOf(k) : k \in Range(wizard.keys)}
           kept == [x \in EnvVar |-> IF x \in secret THEN Unset ELSE dotenv[x]]
<1>1. /\ dotenv' = Over(RunVars, kept) /\ wizard.at # "idle"
      /\ wizard.settings \in [Asked -> Value] /\ IsValid(wizard.settings) /\ RunOK(wizard)
  BY DEF WriteDotenv, MayWrite, WizardInv, StillFound
<1>2. /\ Asked \subseteq Setting /\ Checked \subseteq Setting /\ Unset \notin Value \cup Url
      /\ \A f \in Setting : SettingEnv[f] \in EnvVar
      /\ \A n \in CustomName : UrlEnv[n] \in EnvVar
      /\ \A v \in Legal : InShell[v] = v
  BY SettingsAssumption DEF SettingsAssumption
<1>3. \A v \in EnvVar : /\ env[v] = IF dotenv'[v] = Unset THEN Unset ELSE InShell[dotenv'[v]]
                        /\ old[v] = IF dotenv[v] = Unset THEN Unset ELSE InShell[dotenv[v]]
  BY DEF Sourced
<1>4. secret \subseteq Range(KeyEnv)
  <2>1. \A i \in DOMAIN wizard.keys : wizard.keys[i] \in SavedKey
    BY <1>1, SeqDomain DEF RunOK
  <2>2. \A k \in Range(wizard.keys) : k.owner \in KeyOwner
    BY <2>1 DEF Range, SavedKey
  <2> QED  BY <2>2, SettingsAssumption DEF EnvOf, Range, SettingsAssumption
<1>5. DOMAIN kept = EnvVar /\ \A v \in EnvVar \ Range(KeyEnv) : kept[v] = dotenv[v]
  BY <1>4
<1> HIDE DEF kept, secret, old, env
<1>6. ASSUME NEW f \in Asked, InShell[wizard.settings[f]] = wizard.settings[f]
      PROVE  f \in DOMAIN EnvOverrides(env) /\ EnvOverrides(env)[f] = wizard.settings[f]
  <2>1. dotenv'[SettingEnv[f]] = wizard.settings[f]
    <3>1. SettingEnv[f] \in DOMAIN RunVars /\ RunVars[SettingEnv[f]] = wizard.settings[f]
      BY <1>1, VariablesWritten
    <3> QED  BY ONLY <1>1, <3>1, OverFacts
  <2>2. wizard.settings[f] # Unset
    BY <1>1, <1>2
  <2>3. env[SettingEnv[f]] = wizard.settings[f]
    BY <1>2, <1>3, <1>6, <2>1, <2>2
  <2> QED  BY <1>2, <2>2, <2>3, OverridesFacts
<1>7. ASSUME NEW n \in DOMAIN CustomGiven, Survives(n), InShell[CustomGiven[n]] = CustomGiven[n]
      PROVE  CustomOf(now)[n] = CustomGiven[n]
  <2>1. n \in CustomName /\ CustomGiven[n] \in Url
    <3>1. RunOK(wizard) /\ n \in DOMAIN CustomGiven
      BY DEF WizardInv
    <3>2. PICK i \in DOMAIN wizard.custom : /\ wizard.custom[i] \in Endpoint /\ wizard.custom[i].name = n
                                          /\ CustomGiven[n] = wizard.custom[i].url
      BY ONLY <3>1, GivenEndpoint
    <3> QED  BY ONLY <3>2 DEF Endpoint
  <2>2. dotenv'[UrlEnv[n]] = CustomGiven[n]
    <3>1. UrlEnv[n] \in DOMAIN RunVars /\ RunVars[UrlEnv[n]] = CustomGiven[n]
      BY <1>1, <1>7, VariablesWritten
    <3> QED  BY ONLY <1>1, <3>1, OverFacts
  <2>3. env[UrlEnv[n]] = CustomGiven[n] /\ CustomGiven[n] # Unset
    BY <1>2, <1>3, <1>7, <2>1, <2>2
  <2>4. /\ CustomProviders \in DOMAIN EnvOverrides(env)
        /\ EnvOverrides(env)[CustomProviders][NameIn[UrlEnv[n]]] = CustomGiven[n]
    BY <2>1, <2>3, OverridesFacts
  <2>5. NameIn[UrlEnv[n]] = n
    BY <1>7 DEF Survives
  <2>6. CustomOf(now) = EnvOverrides(env)[CustomProviders]
    BY <2>4, CustomLoaded DEF Merged
  <2> QED  BY <2>4, <2>5, <2>6
<1>8. ASSUME IsValid(was), NEW f \in Checked \cap DOMAIN now
      PROVE  now[f] \in Legal
  <2>1. f \in Setting /\ (f \in DOMAIN was => was[f] \in Legal)
    BY <1>2, <1>8 DEF IsValid
  <2>2. CASE f \in Asked
    <3>1. wizard.settings[f] \in Legal
      BY <1>1, <2>2 DEF IsValid
    <3>2. f \in DOMAIN EnvOverrides(env) /\ EnvOverrides(env)[f] = wizard.settings[f]
      BY <1>2, <1>6, <2>2, <3>1
    <3> QED  BY <3>1, <3>2, MergedFacts
  <2>3. CASE f \notin Asked
    <3>1. SettingEnv[f] \notin DOMAIN RunVars
      BY <1>1, <2>1, <2>3, VariablesWritten
    <3>2. SettingEnv[f] \in EnvVar \ Range(KeyEnv)
      BY <1>2, <2>1 DEF SettingsOfTheirOwn
    <3>3. dotenv'[SettingEnv[f]] = dotenv[SettingEnv[f]]
      BY <1>1, <1>5, <3>1, <3>2, OverFacts
    <3>4. env[SettingEnv[f]] = old[SettingEnv[f]]
      BY <1>3, <3>2, <3>3
    <3>5. /\ f \in DOMAIN EnvOverrides(env) <=> f \in DOMAIN EnvOverrides(old)
          /\ f \in DOMAIN EnvOverrides(env) => EnvOverrides(env)[f] = EnvOverrides(old)[f]
      BY <2>1, <3>4, OverridesFacts
    <3>6. f \in DOMAIN was /\ now[f] = was[f]
      BY <1>8, <3>5, MergedFacts
    <3> QED  BY <2>1, <3>6
  <2> QED  BY <2>2, <2>3
<1>9. IsValid(was) => IsValid(now)
  BY <1>8 DEF IsValid
<1>10. ASSUME NEW f \in Asked, InShell[wizard.settings[f]] = wizard.settings[f]
       PROVE  now[f] = wizard.settings[f]
  BY <1>6, <1>10, MergedFacts
<1> HIDE DEF now, was
<1>11. /\ LoadConfig(old, layer).ok => LoadConfig(env, layer).ok
       /\ LoadConfig(env, layer).ok => LoadConfig(env, layer).config = now
  BY <1>9, LoadedIsMerged DEF now, was
<1> QED  BY <1>7, <1>10, <1>11 DEF DotenvLoads, old, env

(***************************************************************************)
(* Writing makes no configuration unusable, and if it can be loaded what   *)
(* the wizard wrote is what is loaded, as far as no layer hides it and the *)
(* shell and the names of the variables leave it as it is; for any         *)
(* settings, names and runs, wherever variables are told apart.            *)
(***************************************************************************)
THEOREM WrittenIsLoaded ==
    ASSUME SettingsAssumption, SettingsOfTheirOwn, NamesComeBack
    PROVE  SettingsSpec => WhatWasWrittenLoads
<1>1. WizardInv => WrittenLoads
  BY WrittenToFileLoads, WrittenToDotenvLoads, SettingsAssumption DEF WrittenLoads
<1>2. WizardInv /\ [SettingsNext]_settingsVars => WizardInv'
  BY WizardNext, SettingsAssumption
<1> QED  BY <1>1, <1>2, WizardInit, PTL DEF SettingsSpec, WhatWasWrittenLoads

(***************************************************************************)
(* Writing a file drops no custom provider of that file or of a layer      *)
(* above it: what the wizard does not ask for it has found, and what it    *)
(* found nothing changes before it writes.                                 *)
(***************************************************************************)
THEOREM ProvidersAreMerged ==
    ASSUME SettingsAssumption
    PROVE  SettingsSpec => ProvidersStay
<1>1. ASSUME WizardInv, NEW l \in ConfigFile, WriteConfigYaml(l)
      PROVE  LET was == CustomOf(Over(EnvOverrides(environ),
                                      Over(layer["local"],
                                           IF l = "local" THEN NoSettings ELSE layer["global"])))
                 now == CustomOf(Merged(environ, layer'))
             IN  \A n \in DOMAIN was :
                    n \in DOMAIN now /\ (n \in DOMAIN wizard.found => now[n] = was[n])
  <2> DEFINE own == EnvOverrides(environ)
             global == IF l = "local" THEN NoSettings ELSE layer["global"]
             was == CustomOf(Over(own, Over(layer["local"], global)))
             now == CustomOf(Merged(environ, layer'))
  <2>1. l \in {"local", "global"} /\ (l = "global" => layer'["local"] = layer["local"])
    BY <1>1, WrittenFile, SettingsAssumption DEF ConfigFile
  <2>2. /\ was = IF CustomProviders \in DOMAIN own THEN own[CustomProviders]
                 ELSE IF CustomProviders \in DOMAIN layer["local"] THEN CustomOf(layer["local"])
                 ELSE CustomOf(global)
        /\ now = IF CustomProviders \in DOMAIN own THEN own[CustomProviders]
                 ELSE IF CustomProviders \in DOMAIN layer'["local"] THEN CustomOf(layer'["local"])
                 ELSE CustomOf(layer'["global"])
    BY CustomLoaded DEF Merged
  <2>3. CustomOf(Merged(environ, layer)) =
            IF CustomProviders \in DOMAIN own THEN own[CustomProviders]
            ELSE IF CustomProviders \in DOMAIN layer["local"] THEN CustomOf(layer["local"])
            ELSE CustomOf(layer["global"])
    BY CustomLoaded DEF Merged
  <2>4. DOMAIN CustomOf(NoSettings) = {}
    BY DEF CustomOf, NoSettings
  <2>5. /\ CustomOf(layer'[l]) = IF wizard.custom = <<>> THEN CustomOf(layer[l])
                                 ELSE Over(CustomGiven, CustomOf(layer[l]))
        /\ CustomProviders \in DOMAIN layer'[l]
               <=> wizard.custom # <<>> \/ CustomProviders \in DOMAIN layer[l]
    BY <1>1, WrittenFile, SettingsAssumption
  <2>6. wizard.found = CustomOf(Merged(environ, layer)) \/ DOMAIN wizard.found = {}
    BY <1>1, <2>4 DEF WizardInv, StillFound, WriteConfigYaml, MayWrite, ExistingOrDefaults, LoadConfig
  <2>7. \A n \in DOMAIN CustomGiven : n \in DOMAIN wizard.found => CustomGiven[n] = wizard.found[n]
    <3> SUFFICES ASSUME NEW n \in DOMAIN CustomGiven, n \in DOMAIN wizard.found
                 PROVE  CustomGiven[n] = wizard.found[n]
      OBVIOUS
    <3>1. RunOK(wizard)
      BY <1>1 DEF WizardInv
    <3>2. PICK i \in DOMAIN wizard.custom :
             wizard.custom[i].name = n /\ CustomGiven[n] = wizard.custom[i].url
      BY <3>1, GivenEndpoint
    <3> QED  BY <3>1, <3>2 DEF RunOK, TakenOver
  <2> HIDE DEF own, was, now, global
  <2> SUFFICES ASSUME NEW n \in DOMAIN was
               PROVE  n \in DOMAIN now /\ (n \in DOMAIN wizard.found => now[n] = was[n])
    BY DEF was, now, own, global
  <2>8. CASE CustomProviders \in DOMAIN own
    BY <2>2, <2>8
  <2>9. CASE CustomProviders \notin DOMAIN own /\ l = "global" /\ CustomProviders \in DOMAIN layer["local"]
    BY <2>1, <2>2, <2>9
  <2>10. CASE /\ CustomProviders \notin DOMAIN own
              /\ ~(l = "global" /\ CustomProviders \in DOMAIN layer["local"])
    <3>1. CustomOf(global) = IF l = "local" THEN CustomOf(NoSettings) ELSE CustomOf(layer["global"])
      BY DEF global
    <3>2. was = CustomOf(layer[l]) /\ CustomProviders \in DOMAIN layer[l]
      <4>1. CASE l = "local"
        BY <2>2, <2>4, <2>10, <3>1, <4>1
      <4>2. CASE l = "global"
        BY <2>2, <2>4, <2>10, <3>1, <4>2 DEF CustomOf, NoSettings
      <4> QED  BY <2>1, <4>1, <4>2
    <3>3. now = CustomOf(layer'[l])
      BY <2>1, <2>2, <2>5, <2>10, <3>2
    <3>4. was = CustomOf(Merged(environ, layer))
      BY <2>1, <2>3, <2>10, <3>2
    <3>5. CASE wizard.custom = <<>>
      BY <2>5, <3>2, <3>3, <3>5
    <3>6. CASE wizard.custom # <<>>
      <4>1. now = Over(CustomGiven, was)
        BY <2>5, <3>2, <3>3, <3>6
      <4>2. /\ n \in DOMAIN now
            /\ n \in DOMAIN CustomGiven => now[n] = CustomGiven[n]
            /\ n \notin DOMAIN CustomGiven => now[n] = was[n]
        BY <4>1, OverFacts
      <4> QED  BY <2>6, <2>7, <3>4, <4>2
    <3> QED  BY <3>5, <3>6
  <2> QED  BY <2>8, <2>9, <2>10
<1>2. WizardInv => \A l \in ConfigFile :
         WriteConfigYaml(l) =>
             LET was == CustomOf(Over(EnvOverrides(environ),
                                      Over(layer["local"],
                                           IF l = "local" THEN NoSettings ELSE layer["global"])))
                 now == CustomOf(Merged(environ, layer'))
             IN  \A n \in DOMAIN was :
                    n \in DOMAIN now /\ (n \in DOMAIN wizard.found => now[n] = was[n])
  BY <1>1
<1>3. WizardInv /\ [SettingsNext]_settingsVars => WizardInv'
  BY WizardNext, SettingsAssumption
<1> QED  BY <1>2, <1>3, WizardInit, PTL DEF SettingsSpec, ProvidersStay
=============================================================================
