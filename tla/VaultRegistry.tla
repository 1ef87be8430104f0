--------------------------- MODULE VaultRegistry ----------------------------
(***************************************************************************)
(* The vaults known on a machine (VaultRegistry in                         *)
(* src/src/core/vault_registry.rs) and the commands that change them       *)
(* (`okf-mcp vault ...`, src/src/cli/vault.rs).  ~/.config/okf/vaults.toml *)
(* is loaded and written back whole, in place: between truncation and      *)
(* write it is an empty file, which loads as a registry without vaults.    *)
(***************************************************************************)
CONSTANTS
    Shell,      \* commands that may be in progress at once
    Name,       \* the names vaults are registered by
    Dir,        \* the directories vaults may be in
    NoName, NoDir

ASSUME RegistryAssumption == NoName \notin Name /\ NoDir \notin Dir

VARIABLES
    registry,   \* vaults.toml
    dir,        \* what is at each path
    vaultCmd,   \* what each shell's vault command is doing
    alone       \* whether users wait for one command before they start the next

registryVars == <<registry, dir, vaultCmd, alone>>

(***************************************************************************)
(* vaults maps a name that is not registered to NoDir.                     *)
(***************************************************************************)
Registry == [default : Name \cup {NoName}, vaults : [Name -> Dir \cup {NoDir}]]

EmptyRegistry == [default |-> NoName, vaults |-> [n \in Name |-> NoDir]]

IsRegistered(reg, n) == reg.vaults[n] # NoDir

(***************************************************************************)
(* A directory being set up has no .okf/ yet; one that could not be        *)
(* deleted has lost some of its files.                                     *)
(***************************************************************************)
DirState == {"absent", "new", "vault", "partial"}

Step == {"idle", "scaffold", "register", "unlink", "unregister", "truncate", "write"}

\* mem is the registry as it will be written.
Idle == [at |-> "idle", name |-> NoName, path |-> NoDir, mem |-> EmptyRegistry]

VaultCommand == [at : Step, name : Name \cup {NoName}, path : Dir \cup {NoDir}, mem : Registry]

RegistryTypeOK ==
    /\ registry \in Registry
    /\ dir \in [Dir -> DirState]
    /\ vaultCmd \in [Shell -> VaultCommand]
    /\ alone \in BOOLEAN

RegistryInit ==
    /\ registry = EmptyRegistry
    /\ dir \in [Dir -> {"absent", "vault"}]
    /\ vaultCmd = [s \in Shell |-> Idle]
    /\ alone \in BOOLEAN

-----------------------------------------------------------------------------
(***************************************************************************)
(* What the commands do to a registry they have loaded.                    *)
(***************************************************************************)
Added(reg, n, d) == [reg EXCEPT !.vaults[n] = d]

\* Wrong on purpose: the default is not looked at.
RemovedOnly(reg, n) == [reg EXCEPT !.vaults[n] = NoDir]

Removed(reg, n) == [default |-> IF reg.default = n THEN NoName ELSE reg.default,
                    vaults  |-> [reg.vaults EXCEPT ![n] = NoDir]]

Free(s) == /\ vaultCmd[s].at = "idle"
           /\ alone => \A t \in Shell : vaultCmd[t].at = "idle"

Goes(s, at) == vaultCmd' = [vaultCmd EXCEPT ![s].at = at]

Ends(s) == vaultCmd' = [vaultCmd EXCEPT ![s] = Idle]

Saves(s, mem) == vaultCmd' = [vaultCmd EXCEPT ![s] = [Idle EXCEPT !.at = "truncate", !.mem = mem]]

(***************************************************************************)
(* `vault add`, for any path; `vault remove`; `vault default`.  They load  *)
(* the registry as they start.                                             *)
(***************************************************************************)
Add(s, n, d) ==
    /\ Free(s)
    /\ Saves(s, Added(registry, n, d))
    /\ UNCHANGED <<registry, dir, alone>>

Remove(s, n) ==
    /\ Free(s) /\ IsRegistered(registry, n)
    /\ Saves(s, Removed(registry, n))
    /\ UNCHANGED <<registry, dir, alone>>

Default(s, n) ==
    /\ Free(s) /\ IsRegistered(registry, n)
    /\ Saves(s, [registry EXCEPT !.default = n])
    /\ UNCHANGED <<registry, dir, alone>>

(***************************************************************************)
(* `vault create`: only where there is nothing.  The directories, then     *)
(* the manifest and the schema, then `vault add`.                          *)
(***************************************************************************)
Create(s, n, d) ==
    /\ Free(s) /\ dir[d] = "absent"
    /\ dir' = [dir EXCEPT ![d] = "new"]
    /\ vaultCmd' = [vaultCmd EXCEPT ![s] = [Idle EXCEPT !.at = "scaffold", !.name = n, !.path = d]]
    /\ UNCHANGED <<registry, alone>>

Scaffold(s) ==
    /\ vaultCmd[s].at = "scaffold"
    /\ dir' = [dir EXCEPT ![vaultCmd[s].path] = "vault"]
    /\ Goes(s, "register")
    /\ UNCHANGED <<registry, alone>>

Register(s) ==
    /\ vaultCmd[s].at = "register"
    /\ Saves(s, Added(registry, vaultCmd[s].name, vaultCmd[s].path))
    /\ UNCHANGED <<registry, dir, alone>>

(***************************************************************************)
(* `vault delete --force`: the directory first, then `vault remove`, which *)
(* loads the registry once more.  A removal that fails may have removed    *)
(* some of the files.                                                      *)
(***************************************************************************)
\* Wrong on purpose: unregisters first.
DeleteUnregistered(s, n) ==
    /\ Free(s) /\ IsRegistered(registry, n)
    /\ registry' = Removed(registry, n)
    /\ vaultCmd' = [vaultCmd EXCEPT ![s] = [Idle EXCEPT !.at = "unlink", !.name = n,
                                                        !.path = registry.vaults[n]]]
    /\ UNCHANGED <<dir, alone>>

Delete(s, n) ==
    /\ Free(s) /\ IsRegistered(registry, n)
    /\ vaultCmd' = [vaultCmd EXCEPT ![s] = [Idle EXCEPT !.at = "unlink", !.name = n,
                                                        !.path = registry.vaults[n]]]
    /\ UNCHANGED <<registry, dir, alone>>

Unlink(s) ==
    /\ vaultCmd[s].at = "unlink"
    /\ dir' = [dir EXCEPT ![vaultCmd[s].path] = "absent"]
    /\ Goes(s, "unregister")
    /\ UNCHANGED <<registry, alone>>

UnlinkFails(s) ==
    /\ vaultCmd[s].at = "unlink" /\ dir[vaultCmd[s].path] # "absent"
    /\ dir' = [dir EXCEPT ![vaultCmd[s].path] = "partial"]
    /\ Ends(s)
    /\ UNCHANGED <<registry, alone>>

Unregister(s) ==
    /\ vaultCmd[s].at = "unregister"
    /\ LET n == vaultCmd[s].name
       IN  IF IsRegistered(registry, n) THEN Saves(s, Removed(registry, n)) ELSE Ends(s)
    /\ UNCHANGED <<registry, dir, alone>>

(***************************************************************************)
(* save: fs::write truncates the file and fills it.                        *)
(***************************************************************************)
Truncate(s) ==
    /\ vaultCmd[s].at = "truncate"
    /\ registry' = EmptyRegistry
    /\ Goes(s, "write")
    /\ UNCHANGED <<dir, alone>>

Write(s) ==
    /\ vaultCmd[s].at = "write"
    /\ registry' = vaultCmd[s].mem
    /\ Ends(s)
    /\ UNCHANGED <<dir, alone>>

\* A command is killed or fails, in the middle of a save, too.
Stop(s) ==
    /\ vaultCmd[s].at # "idle"
    /\ Ends(s)
    /\ UNCHANGED <<registry, dir, alone>>

RegistryStart(s) ==
    \E n \in Name :
        \/ Remove(s, n) \/ Default(s, n) \/ Delete(s, n)
        \/ \E d \in Dir : Add(s, n, d) \/ Create(s, n, d)

RegistryGoOn(s) ==
    \/ Scaffold(s) \/ Register(s) \/ Unlink(s) \/ UnlinkFails(s) \/ Unregister(s)
    \/ Truncate(s) \/ Write(s) \/ Stop(s)
=============================================================================
