-------------------------------- MODULE Home --------------------------------
(***************************************************************************)
(* What okf-mcp keeps in a user's home directory, for all vaults: the      *)
(* registry of vaults and the saved keys.  Commands on them run in any     *)
(* mix; nothing locks either.                                              *)
(***************************************************************************)
EXTENDS Naturals, VaultRegistry, Credentials

CONSTANT MaxEvents  \* bound: commands, fetches and changes of the keychain

ASSUME EventsAssumption == MaxEvents \in Nat

VARIABLE events     \* bound: how many there have been

homeVars == <<registryVars, credentialsVars, events>>

HomeInit == RegistryInit /\ CredentialsInit /\ events = 0

Begin ==
    /\ events < MaxEvents
    /\ events' = events + 1
    /\ \/ (\E s \in Shell : RegistryStart(s)) /\ UNCHANGED credentialsVars
       \/ CredentialsStart /\ UNCHANGED registryVars

GoOn ==
    /\ \/ (\E s \in Shell : RegistryGoOn(s)) /\ UNCHANGED credentialsVars
       \/ CredentialsGoOn /\ UNCHANGED registryVars
    /\ UNCHANGED events

HomeNext == Begin \/ GoOn

HomeSpec == HomeInit /\ [][HomeNext]_homeVars

TypeOK == RegistryTypeOK /\ CredentialsTypeOK /\ events \in 0..MaxEvents

-----------------------------------------------------------------------------
(***************************************************************************)
(* default_path never finds that the default "is not registered": however  *)
(* commands overlap, and wherever they are killed, the default in the file *)
(* is one of the vaults in it.                                             *)
(***************************************************************************)
DefaultIsRegistered ==
    registry.default # NoName => IsRegistered(registry, registry.default)

(***************************************************************************)
(* "If remove_dir_all fails partway, the vault stays registered and the    *)
(* delete is safely retryable": nothing of a vault is deleted unless it is *)
(* registered, and what is left of it then stays registered, as long as    *)
(* users wait for each command to end.                                     *)
(***************************************************************************)
BrokenOffDeleteCanBeRetried ==
    [][alone => \A d \in Dir :
          dir'[d] = "partial" /\ dir[d] # "partial" =>
              \E n \in Name : registry'.vaults[n] = d]_homeVars

(***************************************************************************)
(* A key that was saved is the one that is loaded, and none is after       *)
(* clear, until the keychain comes or goes, or a fetch that had read an    *)
(* older key saves that back.  However the key got there: a save puts      *)
(* aside what either place held before, a clear only if the keychain has   *)
(* not come or gone since the beginning.                                   *)
(***************************************************************************)
SavedIsLoaded ==
    \A a \in Account : known[a] # Unknown => Load(a) = known[a]
=============================================================================
