-------------------------- MODULE VaultProperties --------------------------
(***************************************************************************)
(* What should hold of a vault.  Which of these survive commands that run  *)
(* at the same time, and which hold only for one command at a time, is     *)
(* what the runs of MCVault.tla establish.                                 *)
(***************************************************************************)
EXTENDS Vault

(***************************************************************************)
(* The manifest on disk is always consistent, whatever commands interleave *)
(* and wherever they are interrupted (record_ingest, tombstone,            *)
(* mark_compiled and record_raw_path keep each entry so, and a save writes *)
(* a manifest that one of them made).                                      *)
(***************************************************************************)
DiskConsistent == ManifestConsistent(disk)

(***************************************************************************)
(* The blob is written before the manifest that names it is saved: every   *)
(* version the manifest on disk records can be resolved to a file.         *)
(***************************************************************************)
RecordedBlobExists ==
    \A u \in Uri : Tracked(disk, u) =>
        \A i \in 1..Len(disk[u].history) : FilesOf(disk[u].history[i].raw) # {}

(***************************************************************************)
(* Blobs are content-addressed: a file that a recorded version resolves to *)
(* holds that version's content, all of it, unless an ingest is writing it *)
(* at this moment (write_raw_blob).                                        *)
(***************************************************************************)
BeingWritten(f) ==
    \E p \in Proc : cmd[p].at = "write" /\ f = FileNameFor(cmd[p].uri, cmd[p].hash)

RecordedBlobIntact ==
    \A u \in Uri : Tracked(disk, u) =>
        \A i \in 1..Len(disk[u].history) :
            \A f \in FilesOf(disk[u].history[i].raw) :
                raw[f] = disk[u].history[i].hash \/ (raw[f] = Torn /\ BeingWritten(f))

(***************************************************************************)
(* compiled_hash is "the active_hash value at which this source last fully *)
(* compiled without error": only ever the hash of a content that an LLM    *)
(* was given for this source and whose answer was applied.  Otherwise diff *)
(* compiles skip a source that no page reflects.                           *)
(***************************************************************************)
CompiledIsSynthesised ==
    \A u \in Uri : Tracked(disk, u) => disk[u].compiled_hash \in synth[u] \cup {None}

(***************************************************************************)
(* okf-trace-provenance joins a citation with "each source's current       *)
(* manifest status": of a raw_id that is some source's active version it   *)
(* can answer that it is, whatever contents the source had before.         *)
(***************************************************************************)
ActiveIsTraced ==
    LET answers == Provenance({ActiveVersion(disk, u).raw : u \in ActiveUris(disk)})
    IN  \A r \in DOMAIN answers : answers[r] \cap {"active", "unresolvable"} # {}

-----------------------------------------------------------------------------
(***************************************************************************)
(* History is append-only: a save keeps every version the manifest had,    *)
(* and changes the status of one only if it was active.                    *)
(***************************************************************************)
Extends(old, new) ==
    /\ Len(old) <= Len(new)
    /\ \A i \in 1..Len(old) :
          /\ new[i].hash = old[i].hash
          /\ new[i].raw = old[i].raw
          /\ old[i].status # "active" => new[i].status = old[i].status /\ new[i].by = old[i].by

HistoryAppendOnly ==
    [][\A u \in Uri : Tracked(disk, u) /\ Tracked(disk', u)
                         => Extends(disk[u].history, disk'[u].history)]_vars

(***************************************************************************)
(* One command at a time, the vault is the ledger it promises to be: the   *)
(* contents are the hashes of the history, live is "active_hash is set".   *)
(***************************************************************************)
SourceOf(e) == [contents |-> [i \in 1..Len(e.history) |-> e.history[i].hash],
                live     |-> e.active_hash # None,
                compiled |-> e.compiled_hash]

LedgerView(m) == [u \in Uri |-> IF Tracked(m, u) THEN SourceOf(m[u]) ELSE Absent]

L == INSTANCE Ledger WITH ledger <- LedgerView(disk)

\* An absent source is none that the ledger could hold.
ASSUME AbsentIsNoSource == Absent \notin L!Source

ImplementsLedger == L!LedgerSpec
=============================================================================
