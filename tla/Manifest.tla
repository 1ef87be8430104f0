------------------------------ MODULE Manifest ------------------------------
(***************************************************************************)
(* The content-addressed manifest of a vault (src/src/manifest/model.rs):  *)
(* for every ingested source, keyed by its URI, the history of its         *)
(* versions and the hash that is active.  These are the pure transitions   *)
(* the ingest pipeline, the delete command and the compiler apply to the   *)
(* manifest they hold in memory; Vault.tla says when they read it from     *)
(* disk and when they write it back.                                       *)
(*                                                                         *)
(* Time stamps and tombstone reasons are left out: nothing reads them.     *)
(***************************************************************************)
EXTENDS Naturals, Sequences

CONSTANTS
    Uri,        \* the keys of the manifest: URLs and file:// paths
    Hash,       \* the possible contents of a source, named by their SHA-256
    RawId,      \* the identities of raw blobs
    RawIdOf,    \* raw_id_for: a raw_id is the first ten digits of a hash
    Slug,       \* the human-readable part of a blob's file name
    None,       \* Rust's Option::None
    Absent      \* a URI the manifest has no entry for

ASSUME HashAssumption == RawIdOf \in [Hash -> RawId]
ASSUME SentinelAssumption ==
    /\ None \notin Hash \cup RawId
    /\ None \notin RawId \X Slug

(***************************************************************************)
(* A blob's file name is `raw/<raw_id>--<slug>.md`.                        *)
(***************************************************************************)
File == RawId \X Slug

IdOfFile(f) == f[1]

Status == {"active", "superseded", "tombstoned"}

(***************************************************************************)
(* `by` is the payload of SourceStatus::Superseded, None for the others.   *)
(***************************************************************************)
Version == [raw    : RawId,
            hash   : Hash,
            path   : File \cup {None},
            status : Status,
            by     : RawId \cup {None}]

Entry == [active_hash   : Hash \cup {None},
          compiled_hash : Hash \cup {None},
          history       : Seq(Version)]

ASSUME AbsentAssumption == Absent \notin Entry

ManifestType == [Uri -> Entry \cup {Absent}]

EmptyManifest == [u \in Uri |-> Absent]

EmptyEntry == [active_hash |-> None, compiled_hash |-> None, history |-> <<>>]

Tracked(m, u) == m[u] # Absent

EntryOrDefault(m, u) == IF Tracked(m, u) THEN m[u] ELSE EmptyEntry

-----------------------------------------------------------------------------
(***************************************************************************)
(* `history.iter().find(...)` returns the first match; IsFirst(h, P, i) is *)
(* "i is the position find returns".                                       *)
(***************************************************************************)
ActiveAt(h) == {i \in 1..Len(h) : h[i].status = "active"}

IsFirst(S, i) == i \in S /\ \A j \in S : i <= j

HasActive(h) == ActiveAt(h) # {}

VersionsOf(h, r) == {i \in 1..Len(h) : h[i].raw = r}

ActiveUris(m) == {u \in Uri : Tracked(m, u) /\ HasActive(m[u].history)}

(***************************************************************************)
(* The version active_entries pairs with u.                                *)
(***************************************************************************)
ActiveVersion(m, u) ==
    m[u].history[CHOOSE i \in 1..Len(m[u].history) : IsFirst(ActiveAt(m[u].history), i)]

(***************************************************************************)
(* The status flip of the first active version, all record_ingest and      *)
(* tombstone do to a version that is already there.                        *)
(***************************************************************************)
Retired(v, status, by) ==
    [raw |-> v.raw, hash |-> v.hash, path |-> v.path, status |-> status, by |-> by]

RetireActive(h, status, by) ==
    [i \in 1..Len(h) |-> IF IsFirst(ActiveAt(h), i)
                         THEN Retired(h[i], status, by)
                         ELSE h[i]]

\* Wrong on purpose: the unchanged content is recorded again.
NeverNoOp(m, u, h) == FALSE

IsNoOp(m, u, h) == Tracked(m, u) /\ m[u].active_hash = h

NewVersion(h) ==
    [raw |-> RawIdOf[h], hash |-> h, path |-> None, status |-> "active", by |-> None]

\* Wrong on purpose: the version that was active stays so.
IngestedBesideActive(e, h) ==
    [active_hash   |-> h,
     compiled_hash |-> e.compiled_hash,
     history       |-> Append(e.history, NewVersion(h))]

(***************************************************************************)
(* record_ingest.  The new version has no path yet: the blob is written    *)
(* after this, and record_raw_path fills it in.                            *)
(***************************************************************************)
IngestedEntry(e, h) ==
    [active_hash   |-> h,
     compiled_hash |-> e.compiled_hash,
     history       |-> Append(RetireActive(e.history, "superseded", RawIdOf[h]),
                              NewVersion(h))]

RecordIngest(m, u, h) ==
    IF IsNoOp(m, u, h) THEN m
    ELSE [m EXCEPT ![u] = IngestedEntry(EntryOrDefault(m, u), h)]

(***************************************************************************)
(* tombstone: only when CanTombstone, otherwise the call returns an error. *)
(***************************************************************************)
CanTombstone(m, u) == Tracked(m, u) /\ HasActive(m[u].history)

TombstonedEntry(e) ==
    [active_hash   |-> None,
     compiled_hash |-> e.compiled_hash,
     history       |-> RetireActive(e.history, "tombstoned", None)]

Tombstone(m, u) == [m EXCEPT ![u] = TombstonedEntry(m[u])]

Purge(m, u) == [m EXCEPT ![u] = Absent]

(***************************************************************************)
(* mark_compiled copies whatever hash is active now; it does not know      *)
(* which content was compiled.                                             *)
(***************************************************************************)
MarkedEntry(e) ==
    [active_hash |-> e.active_hash, compiled_hash |-> e.active_hash, history |-> e.history]

MarkCompiled(m, u) ==
    IF Tracked(m, u) THEN [m EXCEPT ![u] = MarkedEntry(m[u])] ELSE m

IsCompiledAtCurrentHash(m, u) ==
    /\ Tracked(m, u)
    /\ m[u].compiled_hash # None
    /\ m[u].compiled_hash = m[u].active_hash

(***************************************************************************)
(* record_raw_path sets the path of the FIRST version with this raw_id,    *)
(* which is not the one just added when a source returns to a content it   *)
(* had before.                                                             *)
(***************************************************************************)
Located(v, f) ==
    [raw |-> v.raw, hash |-> v.hash, path |-> f, status |-> v.status, by |-> v.by]

WithPath(h, r, f) ==
    [i \in 1..Len(h) |-> IF IsFirst(VersionsOf(h, r), i)
                         THEN Located(h[i], f)
                         ELSE h[i]]

LocatedEntry(e, r, f) ==
    [active_hash   |-> e.active_hash,
     compiled_hash |-> e.compiled_hash,
     history       |-> WithPath(e.history, r, f)]

RecordRawPath(m, u, r, f) ==
    IF Tracked(m, u)
    THEN [m EXCEPT ![u] = LocatedEntry(m[u], r, f)]
    ELSE m

(***************************************************************************)
(* raw_path_for and find_version search the sources in the order of a      *)
(* HashMap, which is arbitrary, and each history from the front: what they *)
(* may return is a set.                                                    *)
(***************************************************************************)
FirstVersions(m, r) ==
    UNION {{m[u].history[i] : i \in {j \in 1..Len(m[u].history) :
                                        IsFirst(VersionsOf(m[u].history, r), j)}}
           : u \in {w \in Uri : Tracked(m, w)}}

RawPathsFor(m, r) == {v.path : v \in FirstVersions(m, r)} \ {None}

-----------------------------------------------------------------------------
(***************************************************************************)
(* An entry is the record of one line of contents: only the last version   *)
(* can be active, it is active exactly when active_hash is set, and it has *)
(* that hash; a superseded version names the raw_id that came right after  *)
(* it, which had another content.                                          *)
(***************************************************************************)
StatusesAgree(e) ==
    /\ e.history # <<>>
    /\ \A i \in 1..Len(e.history) :
          (e.history[i].status = "active") <=> (i = Len(e.history) /\ e.active_hash # None)
    /\ e.active_hash # None => e.history[Len(e.history)].hash = e.active_hash

ChainIsLinked(e) ==
    \A i \in 1..Len(e.history) :
        IF e.history[i].status = "superseded"
        THEN /\ i < Len(e.history)
             /\ e.history[i].by = e.history[i + 1].raw
             /\ e.history[i].hash # e.history[i + 1].hash
        ELSE e.history[i].by = None

BlobsAreNamed(e) ==
    \A i \in 1..Len(e.history) :
        /\ e.history[i].raw = RawIdOf[e.history[i].hash]
        /\ e.history[i].path # None => IdOfFile(e.history[i].path) = e.history[i].raw

EntryConsistent(e) == StatusesAgree(e) /\ ChainIsLinked(e) /\ BlobsAreNamed(e)

ManifestConsistent(m) == \A u \in Uri : Tracked(m, u) => EntryConsistent(m[u])
=============================================================================
