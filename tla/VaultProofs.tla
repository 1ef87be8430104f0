---------------------------- MODULE VaultProofs ----------------------------
(***************************************************************************)
(* Theorems about the vault, for any numbers of commands, sources,         *)
(* contents and slugs, any bounds, and commands that interleave and are    *)
(* interrupted at any step.                                                *)
(***************************************************************************)
EXTENDS VaultProperties, FiniteSetTheorems, SequenceTheorems, TLAPS

-----------------------------------------------------------------------------
(***************************************************************************)
(* What the transitions of Manifest.tla preserve, for any URIs, contents   *)
(* and raw_ids.                                                            *)
(***************************************************************************)

LEMMA HistoryFacts ==
    ASSUME NEW h \in Seq(Version)
    PROVE  /\ Len(h) \in Nat
           /\ \A i \in 1..Len(h) : h[i] \in Version
BY LenProperties, ElementOfSeq

(***************************************************************************)
(* In a consistent entry the first active version, if any, is the last.    *)
(***************************************************************************)
LEMMA FirstActiveIsLast ==
    ASSUME NEW e \in Entry, StatusesAgree(e)
    PROVE  /\ Len(e.history) \in Nat \ {0}
           /\ \A i \in 1..Len(e.history) :
                 IsFirst(ActiveAt(e.history), i)
                    <=> i = Len(e.history) /\ e.active_hash # None
           /\ HasActive(e.history) <=> e.active_hash # None
<1>1. e.history \in Seq(Version) /\ e.history # <<>>
  BY DEF Entry, StatusesAgree
<1>2. Len(e.history) \in Nat \ {0}
  BY <1>1, EmptySeq
<1>3. ActiveAt(e.history) = IF e.active_hash # None THEN {Len(e.history)} ELSE {}
  BY <1>2 DEF StatusesAgree, ActiveAt
<1>4. QED
  BY <1>2, <1>3 DEF IsFirst, HasActive

LEMMA RetiredHistory ==
    ASSUME NEW h \in Seq(Version), NEW s \in Status, NEW by \in RawId \cup {None}
    PROVE  /\ RetireActive(h, s, by) \in Seq(Version)
           /\ Len(RetireActive(h, s, by)) = Len(h)
           /\ \A i \in 1..Len(h) :
                 /\ IsFirst(ActiveAt(h), i) =>
                        RetireActive(h, s, by)[i] = Retired(h[i], s, by)
                 /\ ~ IsFirst(ActiveAt(h), i) => RetireActive(h, s, by)[i] = h[i]
<1> DEFINE R == RetireActive(h, s, by)
<1>1. Len(h) \in Nat /\ \A i \in 1..Len(h) : h[i] \in Version
  BY HistoryFacts
<1>2. \A i \in 1..Len(h) : R[i] \in Version
  BY <1>1 DEF RetireActive, Retired, Version
<1>3. R \in [1..Len(h) -> Version]
  BY <1>2 DEF RetireActive
<1>4. R \in Seq(Version)
  BY <1>1, <1>3, SeqDef
<1>5. Len(R) = Len(h)
  BY <1>1, <1>3, <1>4, LenProperties
<1>6. QED
  BY <1>4, <1>5 DEF RetireActive

LEMMA RetiredFields ==
    ASSUME NEW h \in Seq(Version), NEW s \in Status, NEW by \in RawId \cup {None},
           NEW i \in 1..Len(h)
    PROVE  /\ RetireActive(h, s, by)[i].raw = h[i].raw
           /\ RetireActive(h, s, by)[i].hash = h[i].hash
           /\ RetireActive(h, s, by)[i].path = h[i].path
           /\ RetireActive(h, s, by)[i].status =
                  IF IsFirst(ActiveAt(h), i) THEN s ELSE h[i].status
           /\ RetireActive(h, s, by)[i].by =
                  IF IsFirst(ActiveAt(h), i) THEN by ELSE h[i].by
<1>1. RetireActive(h, s, by)[i] = IF IsFirst(ActiveAt(h), i) THEN Retired(h[i], s, by)
                                                             ELSE h[i]
  BY DEF RetireActive
<1>2. CASE IsFirst(ActiveAt(h), i)
  BY <1>1, <1>2 DEF Retired
<1>3. CASE ~ IsFirst(ActiveAt(h), i)
  BY <1>1, <1>3
<1>4. QED
  BY <1>2, <1>3

LEMMA AppendFacts ==
    ASSUME NEW h \in Seq(Version), NEW v \in Version
    PROVE  /\ Append(h, v) \in Seq(Version)
           /\ Append(h, v) # <<>>
           /\ Len(Append(h, v)) = Len(h) + 1
           /\ \A i \in 1..Len(h) : Append(h, v)[i] = h[i]
           /\ Append(h, v)[Len(h) + 1] = v
BY LenProperties

LEMMA NewVersionFacts ==
    ASSUME NEW h \in Hash
    PROVE  /\ NewVersion(h) \in Version
           /\ NewVersion(h).raw = RawIdOf[h]
           /\ NewVersion(h).hash = h
           /\ NewVersion(h).path = None
           /\ NewVersion(h).status = "active"
           /\ NewVersion(h).by = None
BY HashAssumption DEF NewVersion, Version, Status

(***************************************************************************)
(* record_ingest keeps an entry consistent, when the content is not the    *)
(* active one; the first ingest of a source starts from an empty entry.    *)
(***************************************************************************)
LEMMA IngestedEntryConsistent ==
    ASSUME NEW e \in Entry, NEW h \in Hash,
           e = EmptyEntry \/ EntryConsistent(e),
           e.active_hash # h
    PROVE  /\ IngestedEntry(e, h) \in Entry
           /\ EntryConsistent(IngestedEntry(e, h))
           /\ Len(IngestedEntry(e, h).history) = Len(e.history) + 1
           /\ \A i \in 1..Len(e.history) :
                 IngestedEntry(e, h).history[i].raw = e.history[i].raw
           /\ IngestedEntry(e, h).history[Len(e.history) + 1].raw = RawIdOf[h]
<1> DEFINE old == e.history
           r   == RawIdOf[h]
           R   == RetireActive(old, "superseded", r)
           n   == IngestedEntry(e, h)
           new == n.history
<1>1. old \in Seq(Version) /\ r \in RawId
  BY HashAssumption DEF Entry
<1>2. Len(old) \in Nat /\ \A i \in 1..Len(old) : old[i] \in Version
  BY <1>1, HistoryFacts
<1>3. /\ R \in Seq(Version) /\ Len(R) = Len(old)
      /\ \A i \in 1..Len(old) :
            /\ R[i].raw = old[i].raw
            /\ R[i].hash = old[i].hash
            /\ R[i].path = old[i].path
            /\ R[i].status = IF IsFirst(ActiveAt(old), i) THEN "superseded" ELSE old[i].status
            /\ R[i].by = IF IsFirst(ActiveAt(old), i) THEN r ELSE old[i].by
  <2>1. "superseded" \in Status /\ r \in RawId \cup {None}
    BY <1>1 DEF Status
  <2> HIDE DEF r, old
  <2>2. QED
    BY <1>1, <2>1, RetiredHistory, RetiredFields DEF R
<1>4. /\ n.active_hash = h
      /\ new = Append(R, NewVersion(h))
  BY DEF IngestedEntry
<1>5. /\ new \in Seq(Version) /\ new # <<>>
      /\ Len(new) = Len(old) + 1
      /\ \A i \in 1..Len(old) : new[i] = R[i]
      /\ new[Len(old) + 1] = NewVersion(h)
  <2> HIDE DEF R, new
  <2>1. QED
    BY <1>3, <1>4, AppendFacts, NewVersionFacts
<1>6. n \in Entry
  BY <1>4, <1>5 DEF IngestedEntry, Entry
<1>7. h # None
  BY SentinelAssumption
<1>8. \A i \in 1..Len(old) :
         /\ IsFirst(ActiveAt(old), i) <=> i = Len(old) /\ e.active_hash # None
         /\ old[i].status = "active" <=> i = Len(old) /\ e.active_hash # None
         /\ i = Len(old) /\ e.active_hash # None => old[i].hash # h
  <2>1. CASE e = EmptyEntry
    BY <2>1 DEF EmptyEntry
  <2>2. CASE EntryConsistent(e)
    BY <2>2, FirstActiveIsLast DEF EntryConsistent, StatusesAgree
  <2>3. QED
    BY <2>1, <2>2
<1> HIDE DEF n, new, R, old, r
<1>9. StatusesAgree(n)
  BY <1>2, <1>3, <1>4, <1>5, <1>7, <1>8, NewVersionFacts DEF StatusesAgree, new
<1>10. ChainIsLinked(n)
  <2> SUFFICES ASSUME NEW i \in 1..Len(new)
               PROVE  IF new[i].status = "superseded"
                      THEN /\ i < Len(new)
                           /\ new[i].by = new[i + 1].raw
                           /\ new[i].hash # new[i + 1].hash
                      ELSE new[i].by = None
    BY DEF ChainIsLinked, new
  <2>1. CASE i = Len(old) + 1
    BY <1>5, <2>1, NewVersionFacts
  <2>2. CASE i \in 1..Len(old)
    <3>1. e = EmptyEntry => Len(old) = 0
      BY DEF EmptyEntry, old
    <3>2. EntryConsistent(e)
      BY <1>2, <2>2, <3>1
    <3>3. IF old[i].status = "superseded"
          THEN /\ i < Len(old)
               /\ old[i].by = old[i + 1].raw
               /\ old[i].hash # old[i + 1].hash
          ELSE old[i].by = None
      BY <2>2, <3>2 DEF EntryConsistent, ChainIsLinked, old
    <3>4. CASE i = Len(old)
      BY <1>3, <1>5, <1>8, <2>2, <3>3, <3>4, NewVersionFacts DEF r
    <3>5. CASE i < Len(old)
      <4>1. i + 1 \in 1..Len(old)
        BY <1>2, <2>2, <3>5
      <4>2. ~ IsFirst(ActiveAt(old), i) /\ old[i].status # "active"
        BY <1>2, <1>8, <2>2, <3>5
      <4>3. /\ new[i].status = old[i].status /\ new[i].by = old[i].by
            /\ new[i].hash = old[i].hash
            /\ new[i + 1].raw = old[i + 1].raw /\ new[i + 1].hash = old[i + 1].hash
        BY <1>3, <1>5, <2>2, <4>1, <4>2
      <4>4. QED
        BY <1>2, <1>5, <2>2, <3>3, <4>3
    <3>6. QED
      BY <1>2, <2>2, <3>4, <3>5
  <2>3. QED
    BY <1>2, <1>5, <2>1, <2>2
<1>11. BlobsAreNamed(n)
  <2> SUFFICES ASSUME NEW i \in 1..Len(new)
               PROVE  /\ new[i].raw = RawIdOf[new[i].hash]
                      /\ new[i].path # None => IdOfFile(new[i].path) = new[i].raw
    BY DEF BlobsAreNamed, new
  <2>1. CASE i = Len(old) + 1
    BY <1>5, <2>1, NewVersionFacts DEF r
  <2>2. CASE i \in 1..Len(old)
    <3>1. e = EmptyEntry => Len(old) = 0
      BY DEF EmptyEntry, old
    <3>2. EntryConsistent(e)
      BY <1>2, <2>2, <3>1
    <3>3. /\ old[i].raw = RawIdOf[old[i].hash]
          /\ old[i].path # None => IdOfFile(old[i].path) = old[i].raw
      BY <2>2, <3>2 DEF EntryConsistent, BlobsAreNamed, old
    <3>4. QED
      BY <1>3, <1>5, <2>2, <3>3
  <2>3. QED
    BY <1>2, <1>5, <2>1, <2>2
<1>12. QED
  BY <1>3, <1>5, <1>6, <1>9, <1>10, <1>11, NewVersionFacts DEF EntryConsistent, n, new, old, r

(***************************************************************************)
(* tombstone retires the last version and leaves none active.              *)
(***************************************************************************)
LEMMA TombstonedEntryConsistent ==
    ASSUME NEW e \in Entry, EntryConsistent(e), HasActive(e.history)
    PROVE  /\ TombstonedEntry(e) \in Entry
           /\ EntryConsistent(TombstonedEntry(e))
           /\ Len(TombstonedEntry(e).history) = Len(e.history)
           /\ \A i \in 1..Len(e.history) :
                 TombstonedEntry(e).history[i].raw = e.history[i].raw
<1> DEFINE old == e.history
           n   == TombstonedEntry(e)
           R   == RetireActive(old, "tombstoned", None)
<1>1. old \in Seq(Version) /\ Len(old) \in Nat \ {0}
  BY FirstActiveIsLast DEF Entry, EntryConsistent
<1>2. n.history = R /\ n.active_hash = None
  BY DEF TombstonedEntry
<1>3. /\ R \in Seq(Version) /\ Len(R) = Len(old)
      /\ \A i \in 1..Len(old) :
            /\ R[i].raw = old[i].raw
            /\ R[i].hash = old[i].hash
            /\ R[i].path = old[i].path
            /\ R[i].status = IF IsFirst(ActiveAt(old), i) THEN "tombstoned" ELSE old[i].status
            /\ R[i].by = IF IsFirst(ActiveAt(old), i) THEN None ELSE old[i].by
  <2>1. "tombstoned" \in Status /\ None \in RawId \cup {None}
    BY DEF Status
  <2> HIDE DEF old
  <2>2. QED
    BY <1>1, <2>1, RetiredHistory, RetiredFields DEF R
<1>4. n \in Entry
  BY <1>2, <1>3 DEF TombstonedEntry, Entry
<1>5. \A i \in 1..Len(old) : IsFirst(ActiveAt(old), i) <=> i = Len(old)
  BY FirstActiveIsLast DEF EntryConsistent
<1>6. \A i \in 1..Len(old) :
         /\ old[i].status = "active" <=> i = Len(old)
         /\ IF old[i].status = "superseded"
            THEN /\ i < Len(old)
                 /\ old[i].by = old[i + 1].raw
                 /\ old[i].hash # old[i + 1].hash
            ELSE old[i].by = None
         /\ old[i].raw = RawIdOf[old[i].hash]
         /\ old[i].path # None => IdOfFile(old[i].path) = old[i].raw
  BY FirstActiveIsLast DEF EntryConsistent, StatusesAgree, ChainIsLinked, BlobsAreNamed
<1> HIDE DEF n, R, old
<1>7. R # <<>>
  BY <1>1, <1>3, EmptySeq
<1>8. StatusesAgree(n)
  BY <1>1, <1>2, <1>3, <1>5, <1>6, <1>7 DEF StatusesAgree
<1>9. ChainIsLinked(n)
  <2> SUFFICES ASSUME NEW i \in 1..Len(R)
               PROVE  IF R[i].status = "superseded"
                      THEN /\ i < Len(R)
                           /\ R[i].by = R[i + 1].raw
                           /\ R[i].hash # R[i + 1].hash
                      ELSE R[i].by = None
    BY <1>2 DEF ChainIsLinked
  <2>1. CASE i = Len(old)
    BY <1>3, <1>5, <2>1
  <2>2. CASE i # Len(old)
    <3>1. i \in 1..Len(old) /\ i + 1 \in 1..Len(old)
      BY <1>1, <1>3, <2>2
    <3>2. QED
      BY <1>3, <1>5, <1>6, <2>2, <3>1
  <2>3. QED
    BY <2>1, <2>2
<1>10. BlobsAreNamed(n)
  BY <1>2, <1>3, <1>6 DEF BlobsAreNamed
<1>11. QED
  BY <1>2, <1>3, <1>4, <1>8, <1>9, <1>10 DEF EntryConsistent, n, old

LEMMA MarkedEntryConsistent ==
    ASSUME NEW e \in Entry, EntryConsistent(e)
    PROVE  /\ MarkedEntry(e) \in Entry
           /\ EntryConsistent(MarkedEntry(e))
           /\ MarkedEntry(e).history = e.history
           /\ MarkedEntry(e).active_hash = e.active_hash
           /\ MarkedEntry(e).compiled_hash = e.active_hash
BY DEF MarkedEntry, Entry, EntryConsistent, StatusesAgree, ChainIsLinked, BlobsAreNamed

(***************************************************************************)
(* record_raw_path changes the path of one version, to a file with its id. *)
(***************************************************************************)
LEMMA LocatedEntryConsistent ==
    ASSUME NEW e \in Entry, EntryConsistent(e), NEW r \in RawId, NEW f \in File,
           IdOfFile(f) = r
    PROVE  /\ LocatedEntry(e, r, f) \in Entry
           /\ EntryConsistent(LocatedEntry(e, r, f))
           /\ Len(LocatedEntry(e, r, f).history) = Len(e.history)
           /\ \A i \in 1..Len(e.history) :
                 LocatedEntry(e, r, f).history[i].raw = e.history[i].raw
<1> DEFINE old == e.history
           n   == LocatedEntry(e, r, f)
           W   == WithPath(old, r, f)
<1>1. /\ old \in Seq(Version) /\ Len(old) \in Nat \ {0}
      /\ \A i \in 1..Len(old) : old[i] \in Version
  BY FirstActiveIsLast, HistoryFacts DEF Entry, EntryConsistent
<1>2. n.history = W /\ n.active_hash = e.active_hash
  BY DEF LocatedEntry
<1>3. \A i \in 1..Len(old) :
         /\ W[i] \in Version
         /\ W[i].raw = old[i].raw /\ W[i].hash = old[i].hash
         /\ W[i].status = old[i].status /\ W[i].by = old[i].by
         /\ W[i].path = old[i].path \/ (W[i].path = f /\ old[i].raw = r)
  <2> SUFFICES ASSUME NEW i \in 1..Len(old)
               PROVE  /\ W[i] \in Version
                      /\ W[i].raw = old[i].raw /\ W[i].hash = old[i].hash
                      /\ W[i].status = old[i].status /\ W[i].by = old[i].by
                      /\ W[i].path = old[i].path \/ (W[i].path = f /\ old[i].raw = r)
    OBVIOUS
  <2>1. CASE IsFirst(VersionsOf(old, r), i)
    <3>1. W[i] = Located(old[i], f)
      BY <2>1 DEF WithPath
    <3>2. old[i].raw = r
      BY <2>1 DEF IsFirst, VersionsOf
    <3>3. QED
      BY <1>1, <3>1, <3>2 DEF Located, Version
  <2>2. CASE ~ IsFirst(VersionsOf(old, r), i)
    <3>1. W[i] = old[i]
      BY <2>2 DEF WithPath
    <3>2. QED
      BY <1>1, <3>1
  <2>3. QED
    BY <2>1, <2>2
<1>4. W \in Seq(Version) /\ Len(W) = Len(old)
  <2>1. W \in [1..Len(old) -> Version]
    BY <1>3 DEF WithPath
  <2> HIDE DEF W, old
  <2>2. W \in Seq(Version)
    BY <1>1, <2>1, SeqDef
  <2>3. QED
    BY <1>1, <2>1, <2>2, LenProperties
<1>5. n \in Entry
  BY <1>2, <1>4 DEF LocatedEntry, Entry
<1>6. /\ StatusesAgree(e) /\ ChainIsLinked(e) /\ BlobsAreNamed(e)
  BY DEF EntryConsistent
<1> HIDE DEF W, n
<1>7. W # <<>>
  BY <1>1, <1>4, EmptySeq
<1>8. StatusesAgree(n)
  BY <1>1, <1>2, <1>3, <1>4, <1>6, <1>7 DEF StatusesAgree
<1>9. ChainIsLinked(n)
  <2> SUFFICES ASSUME NEW i \in 1..Len(old)
               PROVE  IF W[i].status = "superseded"
                      THEN /\ i < Len(W)
                           /\ W[i].by = W[i + 1].raw
                           /\ W[i].hash # W[i + 1].hash
                      ELSE W[i].by = None
    BY <1>2, <1>4 DEF ChainIsLinked
  <2>1. CASE old[i].status = "superseded"
    <3>1. i + 1 \in 1..Len(old)
      BY <1>1, <1>6, <2>1 DEF ChainIsLinked
    <3>2. QED
      BY <1>3, <1>4, <1>6, <2>1, <3>1 DEF ChainIsLinked
  <2>2. CASE old[i].status # "superseded"
    BY <1>3, <1>6, <2>2 DEF ChainIsLinked
  <2>3. QED
    BY <2>1, <2>2
<1>10. BlobsAreNamed(n)
  BY <1>2, <1>3, <1>4, <1>6 DEF BlobsAreNamed
<1>11. QED
  BY <1>2, <1>3, <1>4, <1>5, <1>8, <1>9, <1>10 DEF EntryConsistent, n

-----------------------------------------------------------------------------
(***************************************************************************)
(* The same for whole manifests.                                           *)
(***************************************************************************)
LEMMA EmptyManifestConsistent ==
    EmptyManifest \in ManifestType /\ ManifestConsistent(EmptyManifest)
BY DEF EmptyManifest, ManifestType, ManifestConsistent, Tracked

LEMMA EntryOrDefaultFacts ==
    ASSUME NEW m \in ManifestType, ManifestConsistent(m), NEW u \in Uri
    PROVE  /\ EntryOrDefault(m, u) \in Entry
           /\ EntryOrDefault(m, u) = EmptyEntry \/ EntryConsistent(EntryOrDefault(m, u))
           /\ Tracked(m, u) => m[u] \in Entry /\ EntryConsistent(m[u])
<1>1. EmptyEntry \in Entry
  <2>1. <<>> \in Seq(Version)
    BY EmptySeq
  <2>2. QED
    BY <2>1 DEF EmptyEntry, Entry
<1>2. Tracked(m, u) => m[u] \in Entry /\ EntryConsistent(m[u])
  BY DEF ManifestType, ManifestConsistent, Tracked
<1>3. QED
  BY <1>1, <1>2 DEF EntryOrDefault

LEMMA ReplacedEntry ==
    ASSUME NEW m \in ManifestType, ManifestConsistent(m), NEW u \in Uri,
           NEW e \in Entry, EntryConsistent(e)
    PROVE  /\ [m EXCEPT ![u] = e] \in ManifestType
           /\ ManifestConsistent([m EXCEPT ![u] = e])
BY DEF ManifestType, ManifestConsistent, Tracked

LEMMA RecordIngestConsistent ==
    ASSUME NEW m \in ManifestType, ManifestConsistent(m), NEW u \in Uri, NEW h \in Hash
    PROVE  /\ RecordIngest(m, u, h) \in ManifestType
           /\ ManifestConsistent(RecordIngest(m, u, h))
<1>1. CASE IsNoOp(m, u, h)
  BY <1>1 DEF RecordIngest
<1>2. CASE ~ IsNoOp(m, u, h)
  <2> DEFINE e == EntryOrDefault(m, u)
  <2>1. h # None
    BY SentinelAssumption
  <2>2. e.active_hash # h
    BY <1>2, <2>1 DEF IsNoOp, EntryOrDefault, EmptyEntry
  <2>3. e \in Entry /\ (e = EmptyEntry \/ EntryConsistent(e))
    BY EntryOrDefaultFacts
  <2>4. RecordIngest(m, u, h) = [m EXCEPT ![u] = IngestedEntry(e, h)]
    BY <1>2 DEF RecordIngest
  <2> HIDE DEF e
  <2>5. IngestedEntry(e, h) \in Entry /\ EntryConsistent(IngestedEntry(e, h))
    BY <2>2, <2>3, IngestedEntryConsistent
  <2> DEFINE new == IngestedEntry(e, h)
  <2> HIDE DEF new
  <2>6. QED
    BY <2>4, <2>5, ReplacedEntry DEF new
<1>3. QED
  BY <1>1, <1>2

LEMMA TombstoneConsistent ==
    ASSUME NEW m \in ManifestType, ManifestConsistent(m), NEW u \in Uri, CanTombstone(m, u)
    PROVE  /\ Tombstone(m, u) \in ManifestType
           /\ ManifestConsistent(Tombstone(m, u))
<1>1. m[u] \in Entry /\ EntryConsistent(m[u]) /\ HasActive(m[u].history)
  BY EntryOrDefaultFacts DEF CanTombstone
<1>2. QED
  BY <1>1, TombstonedEntryConsistent, ReplacedEntry DEF Tombstone

LEMMA PurgeConsistent ==
    ASSUME NEW m \in ManifestType, ManifestConsistent(m), NEW u \in Uri
    PROVE  /\ Purge(m, u) \in ManifestType
           /\ ManifestConsistent(Purge(m, u))
BY DEF Purge, ManifestType, ManifestConsistent, Tracked

LEMMA MarkCompiledConsistent ==
    ASSUME NEW m \in ManifestType, ManifestConsistent(m), NEW u \in Uri
    PROVE  /\ MarkCompiled(m, u) \in ManifestType
           /\ ManifestConsistent(MarkCompiled(m, u))
<1>1. CASE Tracked(m, u)
  BY <1>1, EntryOrDefaultFacts, MarkedEntryConsistent, ReplacedEntry DEF MarkCompiled
<1>2. CASE ~ Tracked(m, u)
  BY <1>2 DEF MarkCompiled
<1>3. QED
  BY <1>1, <1>2

LEMMA RecordRawPathConsistent ==
    ASSUME NEW m \in ManifestType, ManifestConsistent(m), NEW u \in Uri,
           NEW r \in RawId, NEW f \in File, IdOfFile(f) = r
    PROVE  /\ RecordRawPath(m, u, r, f) \in ManifestType
           /\ ManifestConsistent(RecordRawPath(m, u, r, f))
<1>1. CASE Tracked(m, u)
  <2>1. m[u] \in Entry /\ EntryConsistent(m[u])
    BY <1>1, EntryOrDefaultFacts
  <2>2. QED
    BY <1>1, <2>1, LocatedEntryConsistent, ReplacedEntry DEF RecordRawPath
<1>2. CASE ~ Tracked(m, u)
  BY <1>2 DEF RecordRawPath
<1>3. QED
  BY <1>1, <1>2

(***************************************************************************)
(* The version a compile or a synthesis works on is the one active_hash    *)
(* names.                                                                  *)
(***************************************************************************)
LEMMA ActiveVersionFacts ==
    ASSUME NEW m \in ManifestType, ManifestConsistent(m), NEW u \in ActiveUris(m)
    PROVE  /\ u \in Uri /\ Tracked(m, u)
           /\ ActiveVersion(m, u) = m[u].history[Len(m[u].history)]
           /\ ActiveVersion(m, u).hash \in Hash /\ ActiveVersion(m, u).raw \in RawId
           /\ ActiveVersion(m, u).hash = m[u].active_hash
<1>1. u \in Uri /\ Tracked(m, u) /\ HasActive(m[u].history)
  BY DEF ActiveUris
<1>2. m[u] \in Entry /\ EntryConsistent(m[u]) /\ StatusesAgree(m[u])
  BY <1>1, EntryOrDefaultFacts DEF EntryConsistent
<1> DEFINE e == m[u]
           n == Len(e.history)
<1>3. /\ n \in Nat \ {0} /\ e.active_hash # None
      /\ \A i \in 1..n : IsFirst(ActiveAt(e.history), i) <=> i = n
  BY <1>1, <1>2, FirstActiveIsLast
<1>4. (CHOOSE i \in 1..n : IsFirst(ActiveAt(e.history), i)) = n
  BY <1>3
<1>5. ActiveVersion(m, u) = e.history[n]
  BY <1>4 DEF ActiveVersion
<1>6. e.history[n].hash = e.active_hash
  BY <1>2, <1>3 DEF StatusesAgree
<1>7. e.active_hash \in Hash
  BY <1>2, <1>3 DEF Entry
<1>8. e.history[n].raw \in RawId
  <2>1. e.history[n] \in Version
    BY <1>2, <1>3, HistoryFacts DEF Entry
  <2>2. QED
    BY <2>1 DEF Version
<1>9. QED
  BY <1>1, <1>5, <1>6, <1>7, <1>8

-----------------------------------------------------------------------------
(***************************************************************************)
(* The strengthening: every snapshot of the manifest that a command holds  *)
(* in memory is as consistent as the one on disk, since it may become the  *)
(* one on disk, and a compile's list of sources names active ones of its   *)
(* snapshot.                                                               *)
(***************************************************************************)
CommandConsistent(c) ==
    /\ ManifestConsistent(c.mem)
    /\ c.at \in {"resolve", "create", "write"} => c.uri \in Uri /\ c.hash \in Hash
    /\ c.at \in {"llm", "mark", "reload", "submit"} => c.uri \in Uri /\ c.hash \in Readable
    /\ c.at \in {"dispatch", "llm", "mark"} => c.todo \subseteq ActiveUris(c.mem)
    /\ c.at = "llm" => c.uri \in c.todo

VaultInv ==
    /\ TypeOK
    /\ DiskConsistent
    /\ \A p \in Proc : CommandConsistent(cmd[p])

-----------------------------------------------------------------------------
LEMMA IdleConsistent == Idle \in Command /\ CommandConsistent(Idle)
<1>1. EmptyManifest \in ManifestType /\ ManifestConsistent(EmptyManifest)
  BY EmptyManifestConsistent
<1>2. <<>> \in Seq(RawId)
  BY EmptySeq
<1>3. QED
  BY <1>1, <1>2 DEF Idle, Command, Step, CommandConsistent

(***************************************************************************)
(* What the arguments of Become must be for a command to stay consistent.  *)
(***************************************************************************)
Fits(at, u, h, m, vs, ts) ==
    /\ at \in Step /\ u \in Uri \cup {None} /\ h \in Readable \cup {None}
    /\ m \in ManifestType /\ ManifestConsistent(m) /\ vs \in Seq(RawId) /\ ts \in SUBSET Uri
    /\ at \in {"resolve", "create", "write"} => u \in Uri /\ h \in Hash
    /\ at \in {"llm", "mark", "reload", "submit"} => u \in Uri /\ h \in Readable
    /\ at \in {"dispatch", "llm", "mark"} => ts \subseteq ActiveUris(m)
    /\ at = "llm" => u \in ts

LEMMA BecomeKeeps ==
    ASSUME VaultInv, NEW p \in Proc, NEW at, NEW u, NEW h, NEW m, NEW vs, NEW ts,
           Fits(at, u, h, m, vs, ts), Become(p, at, u, h, m, vs, ts)
    PROVE  /\ cmd' \in [Proc -> Command]
           /\ \A q \in Proc : CommandConsistent(cmd'[q])
           /\ cmd'[p] = [at |-> at, uri |-> u, hash |-> h, mem |-> m,
                         victims |-> vs, todo |-> ts]
           /\ \A q \in Proc \ {p} : cmd'[q] = cmd[q]
<1> DEFINE c == [at |-> at, uri |-> u, hash |-> h, mem |-> m, victims |-> vs, todo |-> ts]
<1>1. c \in Command
  BY DEF Command, Fits
<1>2. CommandConsistent(c)
  BY DEF CommandConsistent, Fits
<1>3. cmd' = [cmd EXCEPT ![p] = c] /\ cmd \in [Proc -> Command]
  BY DEF Become, VaultInv, TypeOK
<1> HIDE DEF c
<1>4. /\ cmd' \in [Proc -> Command]
      /\ cmd'[p] = c
      /\ \A q \in Proc \ {p} : cmd'[q] = cmd[q]
  BY <1>1, <1>3
<1>5. \A q \in Proc : CommandConsistent(cmd'[q])
  BY <1>2, <1>4 DEF VaultInv
<1>6. QED
  BY <1>4, <1>5 DEF c

LEMMA StopKeeps ==
    ASSUME VaultInv, NEW p \in Proc, Stop(p)
    PROVE  /\ cmd' \in [Proc -> Command]
           /\ \A q \in Proc : CommandConsistent(cmd'[q])
           /\ cmd'[p] = Idle
           /\ \A q \in Proc \ {p} : cmd'[q] = cmd[q]
<1>1. cmd' = [cmd EXCEPT ![p] = Idle] /\ cmd \in [Proc -> Command]
  BY DEF Stop, VaultInv, TypeOK
<1>2. /\ cmd' \in [Proc -> Command]
      /\ cmd'[p] = Idle
      /\ \A q \in Proc \ {p} : cmd'[q] = cmd[q]
  BY <1>1, IdleConsistent
<1>3. QED
  BY <1>2, IdleConsistent DEF VaultInv

(***************************************************************************)
(* What VaultInv says of a command and of the disk, in one place.          *)
(***************************************************************************)
LEMMA CommandFacts ==
    ASSUME VaultInv, NEW p \in Proc
    PROVE  /\ cmd[p].at \in Step
           /\ cmd[p].uri \in Uri \cup {None} /\ cmd[p].hash \in Readable \cup {None}
           /\ cmd[p].mem \in ManifestType /\ ManifestConsistent(cmd[p].mem)
           /\ cmd[p].victims \in Seq(RawId) /\ cmd[p].todo \in SUBSET Uri
           /\ disk \in ManifestType /\ ManifestConsistent(disk)
           /\ cmd[p].at \in {"resolve", "create", "write"}
                  => cmd[p].uri \in Uri /\ cmd[p].hash \in Hash
           /\ cmd[p].at \in {"llm", "mark", "reload", "submit"}
                  => cmd[p].uri \in Uri /\ cmd[p].hash \in Readable
           /\ cmd[p].at \in {"dispatch", "llm", "mark"}
                  => cmd[p].todo \subseteq ActiveUris(cmd[p].mem)
           /\ cmd[p].at = "llm" => cmd[p].uri \in cmd[p].todo
<1>1. cmd[p] \in Command /\ CommandConsistent(cmd[p])
  BY DEF VaultInv, TypeOK
<1>2. QED
  BY <1>1 DEF Command, CommandConsistent, VaultInv, TypeOK, DiskConsistent

LEMMA ResolvedFacts ==
    ASSUME VaultInv, NEW r \in RawId, NEW f \in Resolved(r)
    PROVE  f \in File /\ IdOfFile(f) = r /\ IsFile(f) /\ raw[f] \in Readable
<1> SUFFICES f \in File /\ IdOfFile(f) = r /\ IsFile(f)
  BY DEF VaultInv, TypeOK, IsFile
<1>1. disk \in ManifestType /\ ManifestConsistent(disk)
  BY DEF VaultInv, TypeOK, DiskConsistent
<1>2. CASE f \in FilesOf(r)
  BY <1>2 DEF FilesOf
<1>3. CASE f \in RawPathsFor(disk, r) /\ IsFile(f)
  <2>0. PICK u \in Uri :
            /\ Tracked(disk, u)
            /\ \E i \in 1..Len(disk[u].history) :
                  /\ IsFirst(VersionsOf(disk[u].history, r), i)
                  /\ f = disk[u].history[i].path /\ f # None
    BY <1>3 DEF RawPathsFor, FirstVersions
  <2>1. PICK i \in 1..Len(disk[u].history) :
            /\ IsFirst(VersionsOf(disk[u].history, r), i)
            /\ f = disk[u].history[i].path /\ f # None
    BY <2>0
  <2>2. disk[u].history[i].raw = r
    BY <2>1 DEF IsFirst, VersionsOf
  <2>3. disk[u] \in Entry /\ EntryConsistent(disk[u])
    BY <1>1, <2>0, EntryOrDefaultFacts
  <2>4. disk[u].history[i] \in Version
    BY <2>3, HistoryFacts DEF Entry
  <2>5. f \in File
    BY <2>1, <2>4 DEF Version
  <2>6. IdOfFile(f) = r
    BY <2>1, <2>2, <2>3 DEF EntryConsistent, BlobsAreNamed
  <2>7. QED
    BY <1>3, <2>5, <2>6
<1>4. QED
  BY <1>2, <1>3 DEF Resolved

LEMMA FileNameFacts ==
    ASSUME NEW u \in Uri, NEW h \in Hash
    PROVE  /\ RawIdOf[h] \in RawId
           /\ FileNameFor(u, h) \in File
           /\ IdOfFile(FileNameFor(u, h)) = RawIdOf[h]
BY HashAssumption, VaultAssumption DEF FileNameFor, File, IdOfFile

(***************************************************************************)
(* Marking a source compiled leaves the active sources what they were.     *)
(***************************************************************************)
LEMMA MarkCompiledActive ==
    ASSUME NEW m \in ManifestType, ManifestConsistent(m), NEW u \in Uri
    PROVE  ActiveUris(MarkCompiled(m, u)) = ActiveUris(m)
<1>1. CASE Tracked(m, u)
  <2>1. m[u] \in Entry /\ EntryConsistent(m[u])
    BY <1>1, EntryOrDefaultFacts
  <2>2. MarkedEntry(m[u]) \in Entry /\ MarkedEntry(m[u]).history = m[u].history
    BY <2>1, MarkedEntryConsistent
  <2>3. MarkCompiled(m, u) = [m EXCEPT ![u] = MarkedEntry(m[u])]
    BY <1>1 DEF MarkCompiled
  <2>4. QED
    BY <1>1, <2>2, <2>3, AbsentAssumption DEF ActiveUris, Tracked, ManifestType
<1>2. CASE ~ Tracked(m, u)
  BY <1>2 DEF MarkCompiled
<1>3. QED
  BY <1>1, <1>2

-----------------------------------------------------------------------------
(***************************************************************************)
(* Every step keeps VaultInv, one lemma per kind of command.               *)
(***************************************************************************)
LEMMA IngestKeeps ==
    ASSUME VaultInv, NEW p \in Proc, Ingest(p)
    PROVE  VaultInv'
<1> USE CommandFacts
<1>1. ASSUME NEW u \in Uri, NEW h \in Hash, IngestLoad(p, u, h)
      PROVE  VaultInv'
  <2>1. /\ RecordIngest(disk, u, h) \in ManifestType
        /\ ManifestConsistent(RecordIngest(disk, u, h))
    BY RecordIngestConsistent
  <2>2. <<>> \in Seq(RawId)
    BY EmptySeq
  <2>3. cmd' \in [Proc -> Command] /\ \A q \in Proc : CommandConsistent(cmd'[q])
    <3> DEFINE at == IF IsNoOp(disk, u, h) THEN "save" ELSE "resolve"
               m  == RecordIngest(disk, u, h)
    <3>1. Become(p, at, u, h, m, <<>>, {})
      BY <1>1 DEF IngestLoad
    <3>2. at \in {"save", "resolve"} /\ at \in Step
      BY DEF Step
    <3> HIDE DEF at, m
    <3>3. QED
      <4>1. Fits(at, u, h, m, <<>>, {})
        BY <2>1, <2>2, <3>1, <3>2 DEF Fits, m, Readable
      <4>2. QED
        BY <3>1, <4>1, BecomeKeeps
  <2>4. started' \in Nat
    BY <1>1 DEF IngestLoad, Begin, VaultInv, TypeOK
  <2>5. QED
    BY <1>1, <2>3, <2>4 DEF IngestLoad, VaultInv, TypeOK, DiskConsistent
<1>2. ASSUME NEW f \in File, IdOfFile(f) = RawIdOf[cmd[p].hash],
             cmd[p].at \in {"resolve", "write"}, BlobAt(p, f)
      PROVE  cmd' \in [Proc -> Command] /\ \A q \in Proc : CommandConsistent(cmd'[q])
  <2>1. cmd[p].uri \in Uri /\ cmd[p].hash \in Hash /\ RawIdOf[cmd[p].hash] \in RawId
    BY <1>2, HashAssumption
  <2> DEFINE m == RecordRawPath(cmd[p].mem, cmd[p].uri, RawIdOf[cmd[p].hash], f)
  <2>2. m \in ManifestType /\ ManifestConsistent(m)
    BY <1>2, <2>1, RecordRawPathConsistent
  <2>3. <<>> \in Seq(RawId) /\ "save" \in Step
    BY EmptySeq DEF Step
  <2>4. Become(p, "save", cmd[p].uri, cmd[p].hash, m, <<>>, {})
    BY <1>2 DEF BlobAt
  <2> HIDE DEF m
  <2>5. QED
    <3>1. Fits("save", cmd[p].uri, cmd[p].hash, m, <<>>, {})
      BY <2>1, <2>2, <2>3, <2>4 DEF Fits
    <3>2. QED
      BY <2>4, <3>1, BecomeKeeps
<1>3. CASE IngestReuse(p)
  <2>1. PICK f \in Resolved(RawIdOf[cmd[p].hash]) : BlobAt(p, f)
    BY <1>3 DEF IngestReuse
  <2>2. RawIdOf[cmd[p].hash] \in RawId /\ cmd[p].at = "resolve"
    BY <1>3, HashAssumption DEF IngestReuse
  <2>3. f \in File /\ IdOfFile(f) = RawIdOf[cmd[p].hash]
    BY <2>1, <2>2, ResolvedFacts
  <2>4. QED
    BY <1>2, <1>3, <2>1, <2>2, <2>3 DEF IngestReuse, VaultInv, TypeOK, DiskConsistent
<1>4. ASSUME NEW at \in {"create", "write"}, cmd[p].at \in {"resolve", "create"}, GoTo(p, at)
      PROVE  cmd' \in [Proc -> Command] /\ \A q \in Proc : CommandConsistent(cmd'[q])
  <2>1. Become(p, at, cmd[p].uri, cmd[p].hash, cmd[p].mem, cmd[p].victims, cmd[p].todo)
    BY <1>4 DEF GoTo
  <2>2. at \in Step
    BY DEF Step
  <2>3. QED
    <3>1. Fits(at, cmd[p].uri, cmd[p].hash, cmd[p].mem, cmd[p].victims, cmd[p].todo)
      BY <1>4, <2>1, <2>2 DEF Fits
    <3>2. QED
      BY <2>1, <3>1, BecomeKeeps
<1>5. CASE IngestFresh(p)
  BY <1>4, <1>5 DEF IngestFresh, VaultInv, TypeOK, DiskConsistent
<1>6. CASE IngestCreate(p)
  <2>1. FileNameFor(cmd[p].uri, cmd[p].hash) \in File
    BY <1>6, FileNameFacts DEF IngestCreate
  <2>2. raw' \in [File -> Readable \cup {None}]
    BY <1>6, <2>1 DEF IngestCreate, VaultInv, TypeOK, Readable
  <2>3. cmd' \in [Proc -> Command] /\ \A q \in Proc : CommandConsistent(cmd'[q])
    BY <1>4, <1>6 DEF IngestCreate
  <2>4. QED
    BY <1>6, <2>2, <2>3 DEF IngestCreate, VaultInv, TypeOK, DiskConsistent
<1>7. CASE IngestWrite(p)
  <2> DEFINE f == FileNameFor(cmd[p].uri, cmd[p].hash)
  <2>1. f \in File /\ IdOfFile(f) = RawIdOf[cmd[p].hash] /\ cmd[p].hash \in Hash
    BY <1>7, FileNameFacts DEF IngestWrite
  <2>2. cmd[p].at = "write" /\ BlobAt(p, f) /\ raw' = [raw EXCEPT ![f] = cmd[p].hash]
    BY <1>7 DEF IngestWrite
  <2> HIDE DEF f
  <2>3. raw' \in [File -> Readable \cup {None}]
    BY <2>1, <2>2 DEF VaultInv, TypeOK, Readable
  <2>4. cmd' \in [Proc -> Command] /\ \A q \in Proc : CommandConsistent(cmd'[q])
    BY <1>2, <2>1, <2>2
  <2>5. QED
    BY <1>7, <2>3, <2>4 DEF IngestWrite, VaultInv, TypeOK, DiskConsistent
<1>8. QED
  BY <1>1, <1>3, <1>5, <1>6, <1>7 DEF Ingest

LEMMA DeleteKeeps ==
    ASSUME VaultInv, NEW p \in Proc, Delete(p)
    PROVE  VaultInv'
<1> USE CommandFacts
<1>0. <<>> \in Seq(RawId) /\ {"save", "unlink"} \subseteq Step
  BY EmptySeq DEF Step
<1>1. ASSUME NEW u \in Uri, TombstoneLoad(p, u)
      PROVE  VaultInv'
  <2> DEFINE m == Tombstone(disk, u)
  <2>1. m \in ManifestType /\ ManifestConsistent(m)
    BY <1>1, TombstoneConsistent DEF TombstoneLoad
  <2>2. Become(p, "save", u, None, m, <<>>, {})
    BY <1>1 DEF TombstoneLoad
  <2> HIDE DEF m
  <2>3. cmd' \in [Proc -> Command] /\ \A q \in Proc : CommandConsistent(cmd'[q])
    <3>1. Fits("save", u, None, m, <<>>, {})
      BY <1>0, <2>1, <2>2 DEF Fits
    <3>2. QED
      BY <2>2, <3>1, BecomeKeeps
  <2>4. QED
    BY <1>1, <2>3 DEF TombstoneLoad, Begin, VaultInv, TypeOK, DiskConsistent
<1>2. ASSUME NEW u \in Uri, PurgeLoad(p, u)
      PROVE  VaultInv'
  <2> DEFINE m  == Purge(disk, u)
             vs == RawIdsOf(disk[u].history)
  <2>1. m \in ManifestType /\ ManifestConsistent(m)
    BY PurgeConsistent
  <2>2. vs \in Seq(RawId)
    <3>1. disk[u].history \in Seq(Version)
      BY <1>2, EntryOrDefaultFacts DEF PurgeLoad, Entry
    <3>2. /\ Len(disk[u].history) \in Nat
          /\ \A i \in 1..Len(disk[u].history) : disk[u].history[i] \in Version
      BY <3>1, HistoryFacts
    <3>3. vs \in [1..Len(disk[u].history) -> RawId]
      BY <3>2 DEF RawIdsOf, Version
    <3>4. QED
      BY <3>2, <3>3, SeqDef
  <2>3. Become(p, "unlink", u, None, m, vs, {})
    BY <1>2 DEF PurgeLoad
  <2> HIDE DEF m, vs
  <2>4. cmd' \in [Proc -> Command] /\ \A q \in Proc : CommandConsistent(cmd'[q])
    <3>1. Fits("unlink", u, None, m, vs, {})
      BY <1>0, <2>1, <2>2, <2>3 DEF Fits
    <3>2. QED
      BY <2>3, <3>1, BecomeKeeps
  <2>5. QED
    BY <1>2, <2>4 DEF PurgeLoad, Begin, VaultInv, TypeOK, DiskConsistent
<1>3. CASE PurgeUnlink(p)
  <2> DEFINE at == IF Len(cmd[p].victims) = 1 THEN "save" ELSE "unlink"
             vs == Tail(cmd[p].victims)
  <2>1. at \in {"save", "unlink"} /\ at \in Step
    BY DEF Step
  <2>2. vs \in Seq(RawId) /\ Head(cmd[p].victims) \in RawId
    BY <1>3, HeadTailProperties DEF PurgeUnlink
  <2>3. Become(p, at, cmd[p].uri, None, cmd[p].mem, vs, {})
    BY <1>3 DEF PurgeUnlink
  <2> HIDE DEF at, vs
  <2>4. cmd' \in [Proc -> Command] /\ \A q \in Proc : CommandConsistent(cmd'[q])
    <3>1. Fits(at, cmd[p].uri, None, cmd[p].mem, vs, {})
      BY <2>1, <2>2, <2>3 DEF Fits
    <3>2. QED
      BY <2>3, <3>1, BecomeKeeps
  <2>5. raw' \in [File -> Readable \cup {None}]
    <3>1. Unlink(Head(cmd[p].victims)) /\ raw \in [File -> Readable \cup {None}]
      BY <1>3 DEF PurgeUnlink, VaultInv, TypeOK
    <3>2. QED
      BY <2>2, <3>1 DEF Unlink
  <2>6. QED
    BY <1>3, <2>4, <2>5 DEF PurgeUnlink, VaultInv, TypeOK, DiskConsistent
<1>4. QED
  BY <1>1, <1>2, <1>3 DEF Delete

LEMMA CompileKeeps ==
    ASSUME VaultInv, NEW p \in Proc, Compile(p)
    PROVE  VaultInv'
<1> USE CommandFacts
<1>0. <<>> \in Seq(RawId) /\ {"dispatch", "llm", "mark"} \subseteq Step
  BY EmptySeq DEF Step
<1>1. CASE CompileLoad(p)
  <2>1. PICK diffOnly \in BOOLEAN, cited \in SUBSET RawId :
            Become(p, "dispatch", None, None, disk, <<>>, SelectSources(disk, diffOnly, cited))
    BY <1>1 DEF CompileLoad
  <2> DEFINE ts == SelectSources(disk, diffOnly, cited)
  <2>2. ts \subseteq ActiveUris(disk) /\ ts \in SUBSET Uri
    BY DEF SelectSources, ActiveUris
  <2> HIDE DEF ts
  <2>3. cmd' \in [Proc -> Command] /\ \A q \in Proc : CommandConsistent(cmd'[q])
    <3>1. Fits("dispatch", None, None, disk, <<>>, SelectSources(disk, diffOnly, cited))
      BY <1>0, <2>2 DEF Fits, ts
    <3>2. QED
      BY <2>1, <3>1, BecomeKeeps
  <2>4. QED
    BY <1>1, <2>3 DEF CompileLoad, Begin, VaultInv, TypeOK, DiskConsistent
<1>2. ASSUME NEW u, cmd[p].at \in {"dispatch", "llm", "mark"}, Done(p, u)
      PROVE  cmd' \in [Proc -> Command] /\ \A q \in Proc : CommandConsistent(cmd'[q])
  <2> DEFINE ts == cmd[p].todo \ {u}
  <2>1. ts \subseteq ActiveUris(cmd[p].mem) /\ ts \in SUBSET Uri
    BY <1>2
  <2>2. Become(p, "dispatch", None, None, cmd[p].mem, <<>>, ts)
    BY <1>2 DEF Done
  <2> HIDE DEF ts
  <2>3. QED
    <3>1. Fits("dispatch", None, None, cmd[p].mem, <<>>, ts)
      BY <1>0, <2>1, <2>2 DEF Fits
    <3>2. QED
      BY <2>2, <3>1, BecomeKeeps
<1>3. ASSUME NEW u \in Uri, CompileRead(p, u)
      PROVE  VaultInv'
  <2>1. u \in cmd[p].todo /\ cmd[p].todo \subseteq ActiveUris(cmd[p].mem)
    BY <1>3 DEF CompileRead
  <2>2. ActiveVersion(cmd[p].mem, u).raw \in RawId
    BY <2>1, ActiveVersionFacts
  <2>3. PICK h \in Readable : Become(p, "llm", u, h, cmd[p].mem, <<>>, cmd[p].todo)
    BY <1>3, <2>2, ResolvedFacts DEF CompileRead
  <2>4. cmd' \in [Proc -> Command] /\ \A q \in Proc : CommandConsistent(cmd'[q])
    <3>1. Fits("llm", u, h, cmd[p].mem, <<>>, cmd[p].todo)
      BY <1>0, <2>1, <2>3 DEF Fits
    <3>2. QED
      BY <2>3, <3>1, BecomeKeeps
  <2>5. QED
    BY <1>3, <2>4 DEF CompileRead, VaultInv, TypeOK, DiskConsistent
<1>4. ASSUME NEW u \in Uri, CompileUnreadable(p, u)
      PROVE  VaultInv'
  BY <1>2, <1>4 DEF CompileUnreadable, VaultInv, TypeOK, DiskConsistent
<1>5. CASE CompileApply(p)
  <2> DEFINE m == MarkCompiled(cmd[p].mem, cmd[p].uri)
  <2>1. cmd[p].at = "llm" /\ cmd[p].uri \in Uri /\ cmd[p].hash \in Readable
    BY <1>5 DEF CompileApply
  <2>2. m \in ManifestType /\ ManifestConsistent(m)
    BY <2>1, MarkCompiledConsistent
  <2>3. cmd[p].todo \subseteq ActiveUris(m)
    BY <2>1, MarkCompiledActive
  <2>4. Become(p, "mark", cmd[p].uri, cmd[p].hash, m, <<>>, cmd[p].todo)
    BY <1>5 DEF CompileApply
  <2> HIDE DEF m
  <2>5. cmd' \in [Proc -> Command] /\ \A q \in Proc : CommandConsistent(cmd'[q])
    <3>1. Fits("mark", cmd[p].uri, cmd[p].hash, m, <<>>, cmd[p].todo)
      BY <1>0, <2>1, <2>2, <2>3, <2>4 DEF Fits
    <3>2. QED
      BY <2>4, <3>1, BecomeKeeps
  <2>6. synth' \in [Uri -> SUBSET Readable]
    BY <1>5, <2>1 DEF CompileApply, VaultInv, TypeOK
  <2>7. QED
    BY <1>5, <2>5, <2>6 DEF CompileApply, VaultInv, TypeOK, DiskConsistent
<1>6. CASE CompileFail(p)
  BY <1>2, <1>6 DEF CompileFail, VaultInv, TypeOK, DiskConsistent
<1>7. CASE CompileSave(p)
  <2>1. cmd' \in [Proc -> Command] /\ \A q \in Proc : CommandConsistent(cmd'[q])
    BY <1>2, <1>7 DEF CompileSave
  <2>2. disk' \in ManifestType /\ ManifestConsistent(disk')
    BY <1>7 DEF CompileSave
  <2>3. QED
    BY <1>7, <2>1, <2>2 DEF CompileSave, VaultInv, TypeOK, DiskConsistent
<1>8. CASE CompileEnd(p)
  BY <1>8, StopKeeps DEF CompileEnd, VaultInv, TypeOK, DiskConsistent
<1>9. QED
  BY <1>1, <1>3, <1>4, <1>5, <1>6, <1>7, <1>8 DEF Compile

LEMMA SynthesizeKeeps ==
    ASSUME VaultInv, NEW p \in Proc, Synthesize(p)
    PROVE  VaultInv'
<1> USE CommandFacts
<1>0. <<>> \in Seq(RawId) /\ {"reload", "submit"} \subseteq Step
  BY EmptySeq DEF Step
<1>1. ASSUME NEW u \in Uri, SynthesizeNext(p, u)
      PROVE  VaultInv'
  <2>1. ActiveVersion(disk, u).raw \in RawId
    BY <1>1, ActiveVersionFacts DEF SynthesizeNext
  <2>2. jobs' \in SUBSET (Uri \X Readable)
    BY <1>1, <2>1, ResolvedFacts DEF SynthesizeNext, VaultInv, TypeOK
  <2>3. QED
    BY <1>1, <2>2 DEF SynthesizeNext, Begin, VaultInv, TypeOK, DiskConsistent
<1>2. ASSUME NEW job \in jobs, SynthesizeSubmit(p, job)
      PROVE  VaultInv'
  <2>1. job[1] \in Uri /\ job[2] \in Readable
    BY DEF VaultInv, TypeOK
  <2>2. cmd' \in [Proc -> Command] /\ \A q \in Proc : CommandConsistent(cmd'[q])
    <3>1. Fits("reload", job[1], job[2], EmptyManifest, <<>>, {})
      BY <1>0, <2>1, EmptyManifestConsistent DEF Fits
    <3>2. QED
      BY <1>2, <3>1, BecomeKeeps DEF SynthesizeSubmit
  <2>3. synth' \in [Uri -> SUBSET Readable]
    BY <1>2, <2>1 DEF SynthesizeSubmit, VaultInv, TypeOK
  <2>4. QED
    BY <1>2, <2>2, <2>3 DEF SynthesizeSubmit, Begin, VaultInv, TypeOK, DiskConsistent
<1>3. CASE SynthesizeMark(p)
  <2> DEFINE m == MarkCompiled(disk, cmd[p].uri)
  <2>1. cmd[p].uri \in Uri /\ cmd[p].hash \in Readable
    BY <1>3 DEF SynthesizeMark
  <2>2. m \in ManifestType /\ ManifestConsistent(m)
    BY <2>1, MarkCompiledConsistent
  <2>3. Become(p, "submit", cmd[p].uri, cmd[p].hash, m, <<>>, {})
    BY <1>3 DEF SynthesizeMark
  <2> HIDE DEF m
  <2>4. cmd' \in [Proc -> Command] /\ \A q \in Proc : CommandConsistent(cmd'[q])
    <3>1. Fits("submit", cmd[p].uri, cmd[p].hash, m, <<>>, {})
      BY <1>0, <2>1, <2>2, <2>3 DEF Fits
    <3>2. QED
      BY <2>3, <3>1, BecomeKeeps
  <2>5. QED
    BY <1>3, <2>4 DEF SynthesizeMark, VaultInv, TypeOK, DiskConsistent
<1>4. CASE SynthesizeSave(p)
  <2>1. cmd' \in [Proc -> Command] /\ \A q \in Proc : CommandConsistent(cmd'[q])
    BY <1>4, StopKeeps DEF SynthesizeSave
  <2>2. disk' \in ManifestType /\ ManifestConsistent(disk')
    BY <1>4 DEF SynthesizeSave
  <2>3. QED
    BY <1>4, <2>1, <2>2 DEF SynthesizeSave, VaultInv, TypeOK, DiskConsistent
<1>5. QED
  BY <1>1, <1>2, <1>3, <1>4 DEF Synthesize

LEMMA InitKeeps == Init => VaultInv
<1> SUFFICES ASSUME Init PROVE VaultInv
  OBVIOUS
<1>1. disk \in ManifestType /\ ManifestConsistent(disk)
  BY EmptyManifestConsistent DEF Init
<1>2. cmd \in [Proc -> Command] /\ \A p \in Proc : CommandConsistent(cmd[p])
  BY IdleConsistent DEF Init
<1>3. QED
  BY <1>1, <1>2 DEF Init, VaultInv, TypeOK, DiskConsistent

LEMMA NextKeeps == VaultInv /\ [Next]_vars => VaultInv'
<1> SUFFICES ASSUME VaultInv, [Next]_vars PROVE VaultInv'
  OBVIOUS
<1>1. ASSUME NEW p \in Proc, SaveManifest(p)
      PROVE  VaultInv'
  <2>1. cmd' \in [Proc -> Command] /\ \A q \in Proc : CommandConsistent(cmd'[q])
    BY <1>1, StopKeeps DEF SaveManifest
  <2>2. disk' \in ManifestType /\ ManifestConsistent(disk')
    BY <1>1, CommandFacts DEF SaveManifest
  <2>3. QED
    BY <1>1, <2>1, <2>2 DEF SaveManifest, VaultInv, TypeOK, DiskConsistent
<1>2. ASSUME NEW p \in Proc, Interrupt(p)
      PROVE  VaultInv'
  BY <1>2, StopKeeps DEF Interrupt, VaultInv, TypeOK, DiskConsistent
<1>3. CASE UNCHANGED vars
  BY <1>3 DEF vars, VaultInv, TypeOK, DiskConsistent
<1>4. QED
  BY <1>1, <1>2, <1>3, IngestKeeps, DeleteKeeps, CompileKeeps, SynthesizeKeeps DEF Next

(***************************************************************************)
(* The manifest on disk stays well typed and consistent however commands   *)
(* interleave and wherever they are interrupted.                           *)
(***************************************************************************)
THEOREM AlwaysConsistent == Spec => [](TypeOK /\ DiskConsistent)
<1>1. VaultInv => TypeOK /\ DiskConsistent
  BY DEF VaultInv
<1>2. QED
  BY InitKeeps, NextKeeps, <1>1, PTL DEF Spec

-----------------------------------------------------------------------------
(***************************************************************************)
(* A promise of the vault that all commands keep but one: every recorded   *)
(* version has a blob as long as nobody purges.                            *)
(***************************************************************************)

RawIds(m) ==
    {r \in RawId : \E u \in Uri : /\ Tracked(m, u)
                                  /\ \E i \in 1..Len(m[u].history) : m[u].history[i].raw = r}

Pending(c, r) == c.at \in {"resolve", "create", "write"} /\ r = RawIdOf[c.hash]

(***************************************************************************)
(* The blob is written before the manifest is saved: what a snapshot names *)
(* exists, but for the one version its command has still to write.         *)
(***************************************************************************)
HasFile(files, r) == \E f \in File : IdOfFile(f) = r /\ files[f] # None

Covered(c, files) == \A r \in RawIds(c.mem) : HasFile(files, r) \/ Pending(c, r)

BlobInv ==
    /\ \A r \in RawIds(disk) : HasFile(raw, r)
    /\ \A p \in Proc : cmd[p].at # "unlink" /\ Covered(cmd[p], raw)

FilesStay(old, new) == \A f \in File : old[f] # None => new[f] # None

-----------------------------------------------------------------------------
LEMMA RawIdsOfEmpty == RawIds(EmptyManifest) = {}
BY DEF RawIds, EmptyManifest, Tracked

LEMMA RawIdsAfterIngest ==
    ASSUME NEW m \in ManifestType, ManifestConsistent(m), NEW u \in Uri, NEW h \in Hash
    PROVE  RawIds(RecordIngest(m, u, h)) \subseteq RawIds(m) \cup {RawIdOf[h]}
<1>1. CASE IsNoOp(m, u, h)
  BY <1>1 DEF RecordIngest
<1>2. CASE ~ IsNoOp(m, u, h)
  <2> DEFINE e == EntryOrDefault(m, u)
             n == IngestedEntry(e, h)
             k == RecordIngest(m, u, h)
  <2>1. h # None
    BY SentinelAssumption
  <2>2. e.active_hash # h
    BY <1>2, <2>1 DEF IsNoOp, EntryOrDefault, EmptyEntry
  <2>3. e \in Entry /\ (e = EmptyEntry \/ EntryConsistent(e))
    BY EntryOrDefaultFacts
  <2>4. k = [m EXCEPT ![u] = n]
    BY <1>2 DEF RecordIngest
  <2>5. Len(e.history) \in Nat
    BY <2>3, HistoryFacts DEF Entry
  <2>6. ~ Tracked(m, u) => Len(e.history) = 0
    BY DEF EntryOrDefault, EmptyEntry
  <2>7. Tracked(m, u) => e = m[u]
    BY DEF EntryOrDefault
  <2> HIDE DEF e
  <2>8. /\ n \in Entry
        /\ Len(n.history) = Len(e.history) + 1
        /\ \A i \in 1..Len(e.history) : n.history[i].raw = e.history[i].raw
        /\ n.history[Len(e.history) + 1].raw = RawIdOf[h]
    BY <2>2, <2>3, IngestedEntryConsistent
  <2> HIDE DEF n, k
  <2>9. ASSUME NEW r \in RawIds(k), r # RawIdOf[h]
        PROVE  r \in RawIds(m)
    <3>1. PICK w \in Uri : Tracked(k, w) /\ \E i \in 1..Len(k[w].history) :
                                               k[w].history[i].raw = r
      BY DEF RawIds
    <3>2. CASE w = u
      <4>1. k[w] = n
        BY <2>4, <3>2 DEF ManifestType
      <4>2. PICK i \in 1..Len(n.history) : n.history[i].raw = r
        BY <3>1, <4>1
      <4>3. i \in 1..Len(e.history)
        BY <2>5, <2>8, <2>9, <4>2
      <4>4. Tracked(m, u) /\ m[u].history[i].raw = r /\ i \in 1..Len(m[u].history)
        BY <2>6, <2>7, <2>8, <4>2, <4>3
      <4>5. QED
        BY <4>4 DEF RawIds
    <3>3. CASE w # u
      BY <2>4, <3>1, <3>3 DEF RawIds, ManifestType, Tracked
    <3>4. QED
      BY <3>2, <3>3
  <2>10. QED
    BY <2>9 DEF k
<1>3. QED
  BY <1>1, <1>2

(***************************************************************************)
(* The other transitions replace an entry by one with the same raw_ids.    *)
(***************************************************************************)
LEMMA RawIdsAfterReplace ==
    ASSUME NEW m \in ManifestType, NEW u \in Uri, Tracked(m, u), NEW e \in Entry,
           Len(e.history) = Len(m[u].history),
           \A i \in 1..Len(m[u].history) : e.history[i].raw = m[u].history[i].raw
    PROVE  RawIds([m EXCEPT ![u] = e]) \subseteq RawIds(m)
BY DEF RawIds, ManifestType, Tracked

LEMMA RawIdsAfterTombstone ==
    ASSUME NEW m \in ManifestType, ManifestConsistent(m), NEW u \in Uri, CanTombstone(m, u)
    PROVE  RawIds(Tombstone(m, u)) \subseteq RawIds(m)
<1>1. /\ Tracked(m, u) /\ m[u] \in Entry /\ EntryConsistent(m[u])
      /\ HasActive(m[u].history)
  BY EntryOrDefaultFacts DEF CanTombstone
<1>2. /\ TombstonedEntry(m[u]) \in Entry
      /\ Len(TombstonedEntry(m[u]).history) = Len(m[u].history)
      /\ \A i \in 1..Len(m[u].history) :
            TombstonedEntry(m[u]).history[i].raw = m[u].history[i].raw
  BY <1>1, TombstonedEntryConsistent
<1>3. QED
  BY <1>1, <1>2, RawIdsAfterReplace DEF Tombstone

LEMMA RawIdsAfterMark ==
    ASSUME NEW m \in ManifestType, ManifestConsistent(m), NEW u \in Uri
    PROVE  RawIds(MarkCompiled(m, u)) \subseteq RawIds(m)
<1>1. CASE Tracked(m, u)
  <2>1. m[u] \in Entry /\ EntryConsistent(m[u])
    BY <1>1, EntryOrDefaultFacts
  <2>2. MarkedEntry(m[u]) \in Entry /\ MarkedEntry(m[u]).history = m[u].history
    BY <2>1, MarkedEntryConsistent
  <2>3. MarkCompiled(m, u) = [m EXCEPT ![u] = MarkedEntry(m[u])]
    BY <1>1 DEF MarkCompiled
  <2>4. QED
    BY <1>1, <2>2, <2>3, RawIdsAfterReplace
<1>2. CASE ~ Tracked(m, u)
  BY <1>2 DEF MarkCompiled
<1>3. QED
  BY <1>1, <1>2

LEMMA RawIdsAfterPath ==
    ASSUME NEW m \in ManifestType, ManifestConsistent(m), NEW u \in Uri,
           NEW r \in RawId, NEW f \in File, IdOfFile(f) = r
    PROVE  RawIds(RecordRawPath(m, u, r, f)) \subseteq RawIds(m)
<1>1. CASE Tracked(m, u)
  <2>1. m[u] \in Entry /\ EntryConsistent(m[u])
    BY <1>1, EntryOrDefaultFacts
  <2> DEFINE n == LocatedEntry(m[u], r, f)
  <2>2. /\ n \in Entry /\ Len(n.history) = Len(m[u].history)
        /\ \A i \in 1..Len(m[u].history) : n.history[i].raw = m[u].history[i].raw
    BY <2>1, LocatedEntryConsistent
  <2>3. RecordRawPath(m, u, r, f) = [m EXCEPT ![u] = n]
    BY <1>1 DEF RecordRawPath
  <2> HIDE DEF n
  <2>4. QED
    BY <1>1, <2>2, <2>3, RawIdsAfterReplace
<1>2. CASE ~ Tracked(m, u)
  BY <1>2 DEF RecordRawPath
<1>3. QED
  BY <1>1, <1>2

(***************************************************************************)
(* When no file vanishes and one command changes, BlobInv needs a look at  *)
(* that command alone.                                                     *)
(***************************************************************************)
LEMMA FilesStayFacts ==
    ASSUME NEW old, NEW new, FilesStay(old, new), NEW r, HasFile(old, r)
    PROVE  HasFile(new, r)
BY DEF FilesStay, HasFile

LEMMA BlobInvKept ==
    ASSUME VaultInv, BlobInv, NEW p \in Proc, FilesStay(raw, raw'),
           disk' = disk \/ (disk' = cmd[p].mem /\ cmd[p].at \in {"save", "mark", "submit"}),
           NEW c, cmd' = [cmd EXCEPT ![p] = c], c.at # "unlink", Covered(c, raw')
    PROVE  BlobInv'
<1>1. cmd'[p] = c /\ \A q \in Proc \ {p} : cmd'[q] = cmd[q]
  BY DEF VaultInv, TypeOK
<1>2. \A r : HasFile(raw, r) => HasFile(raw', r)
  BY FilesStayFacts
<1>3. \A r \in RawIds(cmd[p].mem) : cmd[p].at \in {"save", "mark", "submit"} => HasFile(raw, r)
  BY DEF BlobInv, Covered, Pending
<1>4. \A r \in RawIds(disk') : HasFile(raw', r)
  BY <1>2, <1>3 DEF BlobInv
<1>5. ASSUME NEW q \in Proc
      PROVE  cmd'[q].at # "unlink" /\ Covered(cmd'[q], raw')
  <2>1. CASE q = p
    BY <1>1, <2>1
  <2>2. CASE q # p
    BY <1>1, <1>2, <2>2 DEF BlobInv, Covered
  <2>3. QED
    BY <2>1, <2>2
<1>6. QED
  BY <1>4, <1>5 DEF BlobInv

LEMMA BlobStep ==
    ASSUME VaultInv, BlobInv, "purge" \notin Ops, Next
    PROVE  BlobInv'
<1> USE CommandFacts
<1> PICK p \in Proc : \/ Ingest(p) \/ Delete(p) \/ Compile(p) \/ Synthesize(p)
                      \/ SaveManifest(p) \/ Interrupt(p)
  BY DEF Next
<1> DEFINE c == cmd'[p]
<1>0. ASSUME NEW at, NEW u, NEW h, NEW m, NEW vs, NEW ts, Become(p, at, u, h, m, vs, ts)
      PROVE  /\ cmd' = [cmd EXCEPT ![p] = c]
             /\ c.at = at /\ c.hash = h /\ c.mem = m
  BY <1>0 DEF Become, VaultInv, TypeOK
<1>1. ASSUME NEW at \in Step \ {"unlink"}, GoTo(p, at)
      PROVE  /\ cmd' = [cmd EXCEPT ![p] = c]
             /\ c.at = at /\ c.hash = cmd[p].hash /\ c.mem = cmd[p].mem
  BY <1>0, <1>1 DEF GoTo
<1>2. ASSUME Stop(p)
      PROVE  cmd' = [cmd EXCEPT ![p] = c] /\ c.at = "idle" /\ RawIds(c.mem) = {}
  BY <1>2, RawIdsOfEmpty DEF Stop, VaultInv, TypeOK, Idle
<1>3. FilesStay(raw, raw)
  BY DEF FilesStay
<1>4. \A r \in RawIds(disk) : HasFile(raw, r)
  BY DEF BlobInv
<1>5. Covered(cmd[p], raw)
  BY DEF BlobInv
<1> HIDE DEF c
<1>6. ASSUME NEW u \in Uri, NEW h \in Hash, IngestLoad(p, u, h)
      PROVE  BlobInv'
  <2> DEFINE at == IF IsNoOp(disk, u, h) THEN "save" ELSE "resolve"
  <2>1. /\ cmd' = [cmd EXCEPT ![p] = c]
        /\ c.at = at /\ c.hash = h /\ c.mem = RecordIngest(disk, u, h)
    <3>1. Become(p, at, u, h, RecordIngest(disk, u, h), <<>>, {})
      BY <1>6 DEF IngestLoad
    <3> HIDE DEF at
    <3>2. QED
      BY <1>0, <3>1
  <2>2. disk' = disk /\ raw' = raw /\ FilesStay(raw, raw')
    BY <1>3, <1>6 DEF IngestLoad
  <2>3. Covered(c, raw)
    <3>1. CASE IsNoOp(disk, u, h)
      BY <1>4, <2>1, <3>1 DEF RecordIngest, Covered
    <3>2. CASE ~ IsNoOp(disk, u, h)
      <4>1. RawIds(c.mem) \subseteq RawIds(disk) \cup {RawIdOf[h]}
        BY <2>1, RawIdsAfterIngest
      <4>2. QED
        BY <1>4, <2>1, <3>2, <4>1 DEF Covered, Pending
    <3>3. QED
      BY <3>1, <3>2
  <2>4. c.at # "unlink"
    BY <2>1
  <2>5. QED
    BY <2>1, <2>2, <2>3, <2>4, BlobInvKept
<1>7. ASSUME NEW f \in File, IdOfFile(f) = RawIdOf[cmd[p].hash], raw'[f] # None,
             cmd[p].at \in {"resolve", "write"}, BlobAt(p, f), disk' = disk,
             FilesStay(raw, raw')
      PROVE  BlobInv'
  <2> DEFINE r0 == RawIdOf[cmd[p].hash]
             m  == RecordRawPath(cmd[p].mem, cmd[p].uri, r0, f)
  <2>1. cmd' = [cmd EXCEPT ![p] = c] /\ c.at = "save" /\ c.mem = m
    BY <1>0, <1>7 DEF BlobAt
  <2>2. cmd[p].uri \in Uri /\ r0 \in RawId
    BY <1>7, HashAssumption
  <2>3. RawIds(m) \subseteq RawIds(cmd[p].mem)
    BY <1>7, <2>2, RawIdsAfterPath
  <2>4. HasFile(raw', r0)
    BY <1>7 DEF HasFile
  <2>5. \A r : HasFile(raw, r) => HasFile(raw', r)
    BY <1>7, FilesStayFacts
  <2> HIDE DEF m
  <2>6. Covered(c, raw')
    BY <1>5, <2>1, <2>3, <2>4, <2>5 DEF Covered, Pending
  <2>7. QED
    BY <1>7, <2>1, <2>6, BlobInvKept
<1>8. CASE IngestReuse(p)
  <2>1. PICK f \in Resolved(RawIdOf[cmd[p].hash]) : BlobAt(p, f)
    BY <1>8 DEF IngestReuse
  <2>2. /\ cmd[p].at = "resolve" /\ RawIdOf[cmd[p].hash] \in RawId
        /\ disk' = disk /\ raw' = raw
    BY <1>8, HashAssumption DEF IngestReuse
  <2>3. f \in File /\ IdOfFile(f) = RawIdOf[cmd[p].hash] /\ raw[f] # None
    BY <2>1, <2>2, ResolvedFacts DEF IsFile
  <2>4. QED
    BY <1>3, <1>7, <2>1, <2>2, <2>3
<1>9. ASSUME NEW at \in {"create", "write"}, cmd[p].at \in {"resolve", "create"},
              GoTo(p, at), disk' = disk, FilesStay(raw, raw')
       PROVE  BlobInv'
  <2>1. at \in Step \ {"unlink"}
    BY DEF Step
  <2>2. /\ cmd' = [cmd EXCEPT ![p] = c]
        /\ c.at = at /\ c.hash = cmd[p].hash /\ c.mem = cmd[p].mem
    BY <1>1, <1>9, <2>1
  <2>3. \A r : HasFile(raw, r) => HasFile(raw', r)
    BY <1>9, FilesStayFacts
  <2>4. Covered(c, raw')
    BY <1>5, <1>9, <2>2, <2>3 DEF Covered, Pending
  <2>5. c.at # "unlink"
    BY <2>1, <2>2
  <2>6. QED
    BY <1>9, <2>2, <2>4, <2>5, BlobInvKept
<1>10. CASE IngestFresh(p)
  BY <1>3, <1>9, <1>10 DEF IngestFresh
<1>11. CASE IngestCreate(p)
  <2>1. FilesStay(raw, raw')
    BY <1>11, VaultAssumption DEF IngestCreate, FilesStay, VaultInv, TypeOK
  <2>2. QED
    BY <1>9, <1>11, <2>1 DEF IngestCreate
<1>12. CASE IngestWrite(p)
  <2> DEFINE f == FileNameFor(cmd[p].uri, cmd[p].hash)
  <2>1. /\ f \in File /\ IdOfFile(f) = RawIdOf[cmd[p].hash]
        /\ cmd[p].hash \in Hash /\ cmd[p].hash # None
    BY <1>12, FileNameFacts, SentinelAssumption DEF IngestWrite
  <2>2. /\ cmd[p].at = "write" /\ BlobAt(p, f) /\ disk' = disk
        /\ raw' = [raw EXCEPT ![f] = cmd[p].hash]
    BY <1>12 DEF IngestWrite
  <2> HIDE DEF f
  <2>3. raw'[f] # None /\ FilesStay(raw, raw')
    BY <2>1, <2>2 DEF FilesStay, VaultInv, TypeOK
  <2>4. QED
    BY <1>7, <2>1, <2>2, <2>3
(***************************************************************************)
(* The commands that leave raw/ alone and hold a part of the disk.         *)
(***************************************************************************)
<1>13. ASSUME raw' = raw, disk' = disk, NEW at, at # "unlink",
              NEW u, NEW h, NEW m, NEW vs, NEW ts,
              RawIds(m) \subseteq RawIds(disk), Become(p, at, u, h, m, vs, ts)
       PROVE  BlobInv'
  <2>1. cmd' = [cmd EXCEPT ![p] = c] /\ c.at = at /\ c.mem = m
    BY <1>0, <1>13
  <2>2. Covered(c, raw')
    BY <1>4, <1>13, <2>1 DEF Covered
  <2>3. QED
    BY <1>3, <1>13, <2>1, <2>2, BlobInvKept
<1>14. ASSUME raw' = raw, disk' = disk \/ (disk' = cmd[p].mem /\ cmd[p].at = "mark"),
              cmd[p].at \in {"dispatch", "llm", "mark"},
              NEW at, at # "unlink", NEW u, NEW h, NEW m, NEW vs, NEW ts,
              RawIds(m) \subseteq RawIds(cmd[p].mem), Become(p, at, u, h, m, vs, ts)
       PROVE  BlobInv'
  <2>1. cmd' = [cmd EXCEPT ![p] = c] /\ c.at = at /\ c.mem = m
    BY <1>0, <1>14
  <2>2. Covered(c, raw')
    BY <1>5, <1>14, <2>1 DEF Covered, Pending
  <2>3. QED
    BY <1>3, <1>14, <2>1, <2>2, BlobInvKept
<1>15. CASE Delete(p)
  <2>1. PICK u \in Uri : TombstoneLoad(p, u)
    BY <1>15 DEF Delete, PurgeLoad, PurgeUnlink, Begin, BlobInv
  <2>2. CanTombstone(disk, u) /\ disk' = disk /\ raw' = raw
    BY <2>1 DEF TombstoneLoad
  <2>3. RawIds(Tombstone(disk, u)) \subseteq RawIds(disk)
    BY <2>2, RawIdsAfterTombstone
  <2>4. Become(p, "save", u, None, Tombstone(disk, u), <<>>, {})
    BY <2>1 DEF TombstoneLoad
  <2>5. QED
    BY <1>13, <2>2, <2>3, <2>4
<1>16. CASE Compile(p)
  <2>1. CASE CompileLoad(p)
    <3>1. PICK ts : Become(p, "dispatch", None, None, disk, <<>>, ts)
      BY <2>1 DEF CompileLoad
    <3>2. QED
      BY <1>13, <2>1, <3>1 DEF CompileLoad
  <2>2. ASSUME NEW u \in Uri, CompileRead(p, u)
        PROVE  BlobInv'
    BY <1>14, <2>2 DEF CompileRead
  <2>3. ASSUME NEW u, Done(p, u), raw' = raw, cmd[p].at \in {"dispatch", "llm", "mark"},
               disk' = disk \/ (disk' = cmd[p].mem /\ cmd[p].at = "mark")
        PROVE  BlobInv'
    <3>1. Become(p, "dispatch", None, None, cmd[p].mem, <<>>, cmd[p].todo \ {u})
      BY <2>3 DEF Done
    <3>2. QED
      BY <1>14, <2>3, <3>1
  <2>4. ASSUME NEW u \in Uri, CompileUnreadable(p, u)
        PROVE  BlobInv'
    BY <2>3, <2>4 DEF CompileUnreadable
  <2>5. CASE CompileFail(p)
    BY <2>3, <2>5 DEF CompileFail
  <2>6. CASE CompileSave(p)
    BY <2>3, <2>6 DEF CompileSave
  <2>7. CASE CompileApply(p)
    <3> DEFINE m == MarkCompiled(cmd[p].mem, cmd[p].uri)
    <3>1. RawIds(m) \subseteq RawIds(cmd[p].mem)
      BY <2>7, RawIdsAfterMark DEF CompileApply
    <3>2. Become(p, "mark", cmd[p].uri, cmd[p].hash, m, <<>>, cmd[p].todo)
      BY <2>7 DEF CompileApply
    <3> HIDE DEF m
    <3>3. QED
      BY <1>14, <2>7, <3>1, <3>2 DEF CompileApply
  <2>8. CASE CompileEnd(p)
    <3>1. raw' = raw /\ disk' = disk /\ Stop(p)
      BY <2>8 DEF CompileEnd
    <3>2. QED
      BY <1>2, <1>3, <3>1, BlobInvKept DEF Covered
  <2>9. QED
    BY <1>16, <2>1, <2>2, <2>4, <2>5, <2>6, <2>7, <2>8 DEF Compile
<1>17. CASE Synthesize(p)
  <2>1. ASSUME NEW u \in Uri, SynthesizeNext(p, u)
        PROVE  BlobInv'
    BY <2>1 DEF SynthesizeNext, BlobInv
  <2>2. ASSUME NEW job \in jobs, SynthesizeSubmit(p, job)
        PROVE  BlobInv'
    <3>1. Become(p, "reload", job[1], job[2], EmptyManifest, <<>>, {})
      BY <2>2 DEF SynthesizeSubmit
    <3>2. QED
      BY <1>13, <2>2, <3>1, RawIdsOfEmpty DEF SynthesizeSubmit
  <2>3. CASE SynthesizeMark(p)
    <3> DEFINE m == MarkCompiled(disk, cmd[p].uri)
    <3>1. RawIds(m) \subseteq RawIds(disk)
      BY <2>3, RawIdsAfterMark DEF SynthesizeMark
    <3>2. Become(p, "submit", cmd[p].uri, cmd[p].hash, m, <<>>, {})
      BY <2>3 DEF SynthesizeMark
    <3> HIDE DEF m
    <3>3. QED
      BY <1>13, <2>3, <3>1, <3>2 DEF SynthesizeMark
  <2>4. CASE SynthesizeSave(p)
    <3>1. raw' = raw /\ Stop(p) /\ disk' = cmd[p].mem /\ cmd[p].at = "submit"
      BY <2>4 DEF SynthesizeSave
    <3>2. QED
      BY <1>2, <1>3, <3>1, BlobInvKept DEF Covered
  <2>5. QED
    BY <1>17, <2>1, <2>2, <2>3, <2>4 DEF Synthesize
<1>18. CASE SaveManifest(p) \/ Interrupt(p)
  <2>1. raw' = raw /\ Stop(p) /\ (disk' = disk \/ (disk' = cmd[p].mem /\ cmd[p].at = "save"))
    BY <1>18 DEF SaveManifest, Interrupt
  <2>2. QED
    BY <1>2, <1>3, <2>1, BlobInvKept DEF Covered
<1>19. QED
  BY <1>6, <1>8, <1>10, <1>11, <1>12, <1>15, <1>16, <1>17, <1>18 DEF Ingest

(***************************************************************************)
(* As long as nobody purges, every version the manifest on disk records    *)
(* has a blob, however ingests, tombstones, compiles and syntheses         *)
(* interleave and wherever they are interrupted.                           *)
(***************************************************************************)
THEOREM RecordedBlobsStay ==
    ASSUME "purge" \notin Ops
    PROVE  Spec => []RecordedBlobExists
<1>1. Init => BlobInv
  <2>1. Idle.mem = EmptyManifest /\ Idle.at = "idle"
    BY DEF Idle
  <2>2. QED
    BY <2>1, RawIdsOfEmpty DEF Init, BlobInv, Covered
<1>2. VaultInv /\ BlobInv /\ [Next]_vars => BlobInv'
  <2>1. VaultInv /\ BlobInv /\ Next => BlobInv'
    BY BlobStep
  <2>2. BlobInv /\ UNCHANGED vars => BlobInv'
    BY DEF BlobInv, vars
  <2>3. QED
    BY <2>1, <2>2
<1>3. VaultInv /\ BlobInv => RecordedBlobExists
  <2> SUFFICES ASSUME VaultInv, BlobInv, NEW u \in Uri, Tracked(disk, u),
                      NEW i \in 1..Len(disk[u].history)
               PROVE  FilesOf(disk[u].history[i].raw) # {}
    BY DEF RecordedBlobExists
  <2>1. disk[u] \in Entry
    BY DEF VaultInv, TypeOK, ManifestType, Tracked
  <2>2. disk[u].history[i] \in Version
    BY <2>1, HistoryFacts DEF Entry
  <2>3. disk[u].history[i].raw \in RawIds(disk)
    BY <2>2 DEF RawIds, Version
  <2>4. QED
    BY <2>3 DEF BlobInv, HasFile, FilesOf, IsFile
<1>4. QED
  BY <1>1, <1>2, <1>3, InitKeeps, NextKeeps, PTL DEF Spec

-----------------------------------------------------------------------------
(***************************************************************************)
(* What makes RecordedBlobIntact inductive: every file, recorded or not,   *)
(* holds a content its name is made of, or is empty while some ingest is   *)
(* about to fill it.                                                       *)
(***************************************************************************)
ContentInv ==
    \A f \in File : /\ raw[f] \in Hash => RawIdOf[raw[f]] = IdOfFile(f)
                    /\ raw[f] = Torn => BeingWritten(f)

(***************************************************************************)
(* A file being written stays so until the command that writes it moves.   *)
(***************************************************************************)
LEMMA WritersStay ==
    ASSUME VaultInv, NEW p \in Proc, cmd[p].at # "write",
           NEW c, cmd' = [cmd EXCEPT ![p] = c], NEW f, BeingWritten(f)
    PROVE  BeingWritten(f)'
<1>1. PICK q \in Proc : cmd[q].at = "write" /\ f = FileNameFor(cmd[q].uri, cmd[q].hash)
  BY DEF BeingWritten
<1>2. q # p /\ cmd'[q] = cmd[q]
  BY <1>1 DEF VaultInv, TypeOK
<1>3. QED
  BY <1>1, <1>2 DEF BeingWritten

LEMMA ContentInvKept ==
    ASSUME VaultInv, ContentInv, NEW p \in Proc, cmd[p].at # "write",
           NEW c, cmd' = [cmd EXCEPT ![p] = c],
           \A f \in File : raw'[f] = raw[f] \/ raw'[f] = None
    PROVE  ContentInv'
<1> SUFFICES ASSUME NEW f \in File
             PROVE  /\ raw'[f] \in Hash => RawIdOf[raw'[f]] = IdOfFile(f)
                    /\ raw'[f] = Torn => BeingWritten(f)'
  BY DEF ContentInv
<1>1. None \notin Hash /\ None # Torn
  BY SentinelAssumption, VaultAssumption
<1>2. CASE raw'[f] = None
  BY <1>1, <1>2
<1>3. CASE raw'[f] = raw[f]
  BY <1>3, WritersStay DEF ContentInv
<1>4. QED
  BY <1>2, <1>3

(***************************************************************************)
(* The steps of a command that is not writing replace its state alone, and *)
(* the only ones that touch a file are the creation of a blob and a purge. *)
(***************************************************************************)
StepOf(p) ==
    \/ Ingest(p) \/ Delete(p) \/ Compile(p) \/ Synthesize(p)
    \/ SaveManifest(p) \/ Interrupt(p)

LEMMA StepsMoveOne ==
    ASSUME VaultInv, NEW p \in Proc, StepOf(p)
    PROVE  \E c : cmd' = [cmd EXCEPT ![p] = c]
<1>1. CASE \E u \in Uri : SynthesizeNext(p, u)
  <2>1. cmd' = [cmd EXCEPT ![p] = cmd[p]]
    BY <1>1 DEF SynthesizeNext, VaultInv, TypeOK
  <2>2. QED
    BY <2>1
<1>2. CASE ~ \E u \in Uri : SynthesizeNext(p, u)
  BY <1>2 DEF StepOf, Ingest, IngestLoad, IngestReuse, IngestFresh, IngestCreate, IngestWrite, BlobAt,
         Delete, TombstoneLoad, PurgeLoad, PurgeUnlink,
         Compile, CompileLoad, CompileRead, CompileUnreadable, CompileApply, CompileFail,
         CompileSave, CompileEnd, Done, Synthesize, SynthesizeSubmit,
         SynthesizeMark, SynthesizeSave, SaveManifest, Interrupt, GoTo, Become, Stop
<1>3. QED
  BY <1>1, <1>2

LEMMA StepsThatTouchFiles ==
    ASSUME VaultInv, NEW p \in Proc, StepOf(p), ~ Interrupts
    PROVE  \/ IngestCreate(p) \/ IngestWrite(p) \/ PurgeUnlink(p)
           \/ raw' = raw /\ cmd[p].at # "write"
BY DEF StepOf, Ingest, IngestLoad, IngestReuse, IngestFresh, Begin,
       Delete, TombstoneLoad, PurgeLoad,
       Compile, CompileLoad, CompileRead, CompileUnreadable, CompileApply, CompileFail,
       CompileSave, CompileEnd, Synthesize, SynthesizeNext, SynthesizeSubmit,
       SynthesizeMark, SynthesizeSave, SaveManifest, Interrupt

LEMMA ContentStep ==
    ASSUME VaultInv, ContentInv, ~ Interrupts, NEW p \in Proc, StepOf(p)
    PROVE  ContentInv'
<1> PICK c : cmd' = [cmd EXCEPT ![p] = c]
  BY StepsMoveOne
<1>0. raw \in [File -> Readable \cup {None}] /\ cmd \in [Proc -> Command]
  BY DEF VaultInv, TypeOK
<1> DEFINE g == FileNameFor(cmd[p].uri, cmd[p].hash)
<1>1. CASE raw' = raw /\ cmd[p].at # "write"
  BY <1>1, ContentInvKept
<1>2. CASE PurgeUnlink(p)
  <2>1. cmd[p].at = "unlink" /\ Unlink(Head(cmd[p].victims))
    BY <1>2 DEF PurgeUnlink
  <2>2. \A f \in File : raw'[f] = raw[f] \/ raw'[f] = None
    BY <1>0, <2>1 DEF Unlink
  <2>3. QED
    BY <2>1, <2>2, ContentInvKept
<1>3. CASE IngestCreate(p)
  <2>1. /\ cmd[p].at = "create" /\ raw' = [raw EXCEPT ![g] = Torn]
        /\ cmd'[p].at = "write" /\ cmd'[p].uri = cmd[p].uri /\ cmd'[p].hash = cmd[p].hash
    BY <1>0, <1>3 DEF IngestCreate, GoTo, Become
  <2>2. g \in File /\ Torn \notin Hash
    BY <2>1, CommandFacts, FileNameFacts, VaultAssumption
  <2> SUFFICES ASSUME NEW f \in File
               PROVE  /\ raw'[f] \in Hash => RawIdOf[raw'[f]] = IdOfFile(f)
                      /\ raw'[f] = Torn => BeingWritten(f)'
    BY DEF ContentInv
  <2>3. CASE f = g
    <3>1. BeingWritten(f)'
      BY <2>1, <2>3 DEF BeingWritten
    <3>2. raw'[f] = Torn
      <4> HIDE DEF g
      <4>1. QED
        BY <1>0, <2>1, <2>2, <2>3
    <3>3. QED
      BY <2>2, <3>1, <3>2
  <2>4. CASE f # g
    <3>1. raw'[f] = raw[f]
      <4> HIDE DEF g
      <4>1. QED
        BY <1>0, <2>1, <2>4
    <3>2. QED
      BY <2>1, <3>1, WritersStay DEF ContentInv
  <2>5. QED
    BY <2>3, <2>4
<1>4. CASE IngestWrite(p)
  <2>1. cmd[p].at = "write" /\ raw' = [raw EXCEPT ![g] = cmd[p].hash]
    BY <1>4 DEF IngestWrite
  <2>2. /\ g \in File /\ IdOfFile(g) = RawIdOf[cmd[p].hash]
        /\ cmd[p].hash \in Hash /\ Torn \notin Hash
    BY <2>1, CommandFacts, FileNameFacts, VaultAssumption
  <2> SUFFICES ASSUME NEW f \in File
               PROVE  /\ raw'[f] \in Hash => RawIdOf[raw'[f]] = IdOfFile(f)
                      /\ raw'[f] = Torn => BeingWritten(f)'
    BY DEF ContentInv
  <2>3. CASE f = g
    <3> HIDE DEF g
    <3>1. raw'[f] = cmd[p].hash
      BY <1>0, <2>1, <2>3
    <3>2. QED
      BY <2>2, <2>3, <3>1
  <2>4. CASE f # g
    <3>1. raw'[f] = raw[f]
      <4> HIDE DEF g
      <4>1. QED
        BY <1>0, <2>1, <2>4
    <3>2. ASSUME BeingWritten(f)
          PROVE  BeingWritten(f)'
      <4>1. PICK q \in Proc : /\ cmd[q].at = "write"
                              /\ f = FileNameFor(cmd[q].uri, cmd[q].hash)
        BY <3>2 DEF BeingWritten
      <4>2. q # p /\ cmd'[q] = cmd[q]
        BY <1>0, <2>4, <4>1
      <4>3. QED
        BY <4>1, <4>2 DEF BeingWritten
    <3>3. QED
      BY <3>1, <3>2 DEF ContentInv
  <2>5. QED
    BY <2>3, <2>4
<1>5. QED
  BY <1>1, <1>2, <1>3, <1>4, StepsThatTouchFiles

(***************************************************************************)
(* A blob that a recorded version resolves to holds that version, all of   *)
(* it, unless an ingest is at this moment writing it: for commands that    *)
(* interleave in any way, purges among them, as long as none is killed     *)
(* half-way and no two contents share the first ten digits of their hash.  *)
(***************************************************************************)
THEOREM BlobsAreIntact ==
    ASSUME ~ Interrupts, \A h, k \in Hash : RawIdOf[h] = RawIdOf[k] => h = k
    PROVE  Spec => []RecordedBlobIntact
<1> DEFINE Inv == VaultInv /\ ContentInv
<1>1. Init => Inv
  <2> SUFFICES ASSUME Init PROVE ContentInv
    BY InitKeeps
  <2>1. QED
    BY SentinelAssumption, VaultAssumption DEF Init, ContentInv
<1>2. Inv /\ [Next]_vars => Inv'
  <2> SUFFICES ASSUME VaultInv, ContentInv, [Next]_vars PROVE ContentInv'
    BY NextKeeps
  <2>1. CASE Next
    <3>1. PICK p \in Proc : StepOf(p)
      BY <2>1 DEF Next, StepOf
    <3>2. QED
      BY <3>1, ContentStep
  <2>2. CASE UNCHANGED vars
    BY <2>2 DEF vars, ContentInv, BeingWritten
  <2>3. QED
    BY <2>1, <2>2
<1>3. Inv => RecordedBlobIntact
  <2> SUFFICES ASSUME VaultInv, ContentInv, NEW u \in Uri, Tracked(disk, u),
                      NEW i \in 1..Len(disk[u].history),
                      NEW f \in FilesOf(disk[u].history[i].raw)
               PROVE  raw[f] = disk[u].history[i].hash \/ (raw[f] = Torn /\ BeingWritten(f))
    BY DEF RecordedBlobIntact
  <2> DEFINE v == disk[u].history[i]
  <2>1. disk[u] \in Entry /\ EntryConsistent(disk[u])
    BY EntryOrDefaultFacts DEF VaultInv, TypeOK, DiskConsistent
  <2>2. v \in Version /\ v.raw = RawIdOf[v.hash]
    BY <2>1, HistoryFacts DEF Entry, EntryConsistent, BlobsAreNamed
  <2>3. f \in File /\ IdOfFile(f) = v.raw /\ raw[f] # None
    BY DEF FilesOf, IsFile
  <2>4. raw[f] \in Hash \cup {Torn}
    BY <2>3 DEF VaultInv, TypeOK, Readable
  <2> HIDE DEF v
  <2>5. v.hash \in Hash
    BY <2>2 DEF Version
  <2>6. CASE raw[f] \in Hash
    BY <2>2, <2>3, <2>5, <2>6 DEF ContentInv, v
  <2>7. CASE raw[f] = Torn
    BY <2>3, <2>7 DEF ContentInv
  <2>8. QED
    BY <2>4, <2>6, <2>7
<1> HIDE DEF Inv
<1>4. QED
  BY <1>1, <1>2, <1>3, PTL DEF Spec

-----------------------------------------------------------------------------
(***************************************************************************)
(* One command at a time, a vault is the ledger of Ledger.tla.  What a     *)
(* transition of the manifest does to one source of the ledger: nothing,   *)
(* or what Learn, Retire, Forget or Understand do.                         *)
(***************************************************************************)
Learned(a, h) ==
    IF a = Absent THEN [contents |-> <<h>>, live |-> TRUE, compiled |-> None]
    ELSE [contents |-> Append(a.contents, h), live |-> TRUE, compiled |-> a.compiled]

IsNews(a, h) == a # Absent => (a.live => L!Current(a) # h)

Lawful(l, k) ==
    \/ k = l
    \/ \E u \in Uri, h \in Hash : IsNews(l[u], h) /\ k = [l EXCEPT ![u] = Learned(l[u], h)]
    \/ \E u \in Uri :
          /\ l[u] # Absent
          /\ \/ k = [l EXCEPT ![u] = Absent]
             \/ l[u].live /\ k = [l EXCEPT ![u].live = FALSE]
             \/ k = [l EXCEPT ![u].compiled = IF l[u].live THEN L!Current(l[u]) ELSE None]

LEMMA SourceOfFacts ==
    ASSUME NEW e \in Entry
    PROVE  /\ SourceOf(e) \in L!Source /\ SourceOf(e) # Absent
           /\ Len(SourceOf(e).contents) = Len(e.history)
           /\ SourceOf(e).contents \in [1..Len(e.history) -> Hash]
<1>1. /\ Len(e.history) \in Nat
      /\ \A i \in 1..Len(e.history) : e.history[i] \in Version
  BY HistoryFacts DEF Entry
<1> DEFINE C == [i \in 1..Len(e.history) |-> e.history[i].hash]
<1>2. C \in [1..Len(e.history) -> Hash]
  BY <1>1 DEF Version
<1>3. C \in Seq(Hash)
  <2> HIDE DEF C
  <2>1. QED
    BY <1>1, <1>2, SeqDef
<1>4. Len(C) = Len(e.history)
  <2> HIDE DEF C
  <2>1. QED
    BY <1>1, <1>2, <1>3, LenProperties
<1>5. SourceOf(e) = [contents |-> C, live |-> e.active_hash # None, compiled |-> e.compiled_hash]
  BY DEF SourceOf
<1> HIDE DEF C
<1>6. (e.active_hash # None) \in BOOLEAN /\ e.compiled_hash \in Hash \cup {None}
  BY DEF Entry
<1>7. SourceOf(e) \in L!Source
  BY <1>3, <1>5, <1>6 DEF L!Source
<1>8. QED
  BY <1>2, <1>4, <1>5, <1>7, AbsentIsNoSource

LEMMA CurrentIsActive ==
    ASSUME NEW e \in Entry, EntryConsistent(e), e.active_hash # None
    PROVE  L!Current(SourceOf(e)) = e.active_hash
<1>1. Len(e.history) \in Nat \ {0}
  BY FirstActiveIsLast DEF EntryConsistent
<1>2. SourceOf(e).contents[Len(e.history)] = e.history[Len(e.history)].hash
  BY <1>1 DEF SourceOf
<1>3. QED
  BY <1>2, SourceOfFacts DEF L!Current, EntryConsistent, StatusesAgree

LEMMA ViewOfChanged ==
    ASSUME NEW m \in ManifestType, NEW u \in Uri, NEW x, NEW s,
           s = IF x # Absent THEN SourceOf(x) ELSE Absent
    PROVE  LedgerView([m EXCEPT ![u] = x]) = [LedgerView(m) EXCEPT ![u] = s]
<1> DEFINE k == [m EXCEPT ![u] = x]
           A == LedgerView(k)
           B == [LedgerView(m) EXCEPT ![u] = s]
<1>1. \A w \in Uri : k[w] = IF w = u THEN x ELSE m[w]
  BY DEF ManifestType
<1> HIDE DEF k
<1>2. \A w \in Uri : A[w] = B[w]
  BY <1>1 DEF LedgerView, Tracked
<1>3. /\ A = [w \in Uri |-> A[w]]
      /\ B = [w \in Uri |-> B[w]]
  BY DEF LedgerView
<1> HIDE DEF A, B
<1>4. A = B
  BY <1>2, <1>3
<1>5. QED
  BY <1>4 DEF A, B, k

LEMMA ViewOfReplaced ==
    ASSUME NEW m \in ManifestType, NEW u \in Uri, NEW e \in Entry
    PROVE  LedgerView([m EXCEPT ![u] = e]) = [LedgerView(m) EXCEPT ![u] = SourceOf(e)]
<1>1. SourceOf(e) = IF e # Absent THEN SourceOf(e) ELSE Absent
  BY AbsentAssumption
<1> DEFINE s == SourceOf(e)
<1> HIDE DEF s
<1>2. s = IF e # Absent THEN SourceOf(e) ELSE Absent
  BY <1>1 DEF s
<1>3. LedgerView([m EXCEPT ![u] = e]) = [LedgerView(m) EXCEPT ![u] = s]
  BY <1>2, ViewOfChanged
<1>4. QED
  BY <1>3 DEF s

LEMMA ViewFacts ==
    ASSUME NEW m \in ManifestType, NEW u \in Uri
    PROVE  /\ LedgerView(m)[u] = IF Tracked(m, u) THEN SourceOf(m[u]) ELSE Absent
           /\ Tracked(m, u) <=> LedgerView(m)[u] # Absent
<1>1. Tracked(m, u) => m[u] \in Entry
  BY DEF ManifestType, Tracked
<1>2. QED
  BY <1>1, SourceOfFacts DEF LedgerView

LEMMA LiveIsActive ==
    ASSUME NEW e
    PROVE  /\ SourceOf(e).live = (e.active_hash # None)
           /\ SourceOf(e).compiled = e.compiled_hash
BY Zenon DEF SourceOf

(***************************************************************************)
(* Two entries with the same hashes differ, for the ledger, in the other   *)
(* two fields only.                                                        *)
(***************************************************************************)
LEMMA SameContents ==
    ASSUME NEW e \in Entry, NEW n \in Entry, Len(n.history) = Len(e.history),
           \A i \in 1..Len(e.history) : n.history[i].hash = e.history[i].hash
    PROVE  SourceOf(n) = [contents |-> SourceOf(e).contents, live |-> n.active_hash # None,
                          compiled |-> n.compiled_hash]
<1>1. [i \in 1..Len(n.history) |-> n.history[i].hash] =
      [i \in 1..Len(e.history) |-> e.history[i].hash]
  OBVIOUS
<1>2. SourceOf(e).contents = [i \in 1..Len(e.history) |-> e.history[i].hash]
  BY DEF SourceOf
<1>3. SourceOf(n) = [contents |-> [i \in 1..Len(n.history) |-> n.history[i].hash],
                     live |-> n.active_hash # None, compiled |-> n.compiled_hash]
  BY DEF SourceOf
<1>4. QED
  BY <1>1, <1>2, <1>3, Zenon

LEMMA IngestedContents ==
    ASSUME NEW e \in Entry, NEW h \in Hash
    PROVE  SourceOf(IngestedEntry(e, h)) =
               [contents |-> Append(SourceOf(e).contents, h), live |-> TRUE,
                compiled |-> e.compiled_hash]
<1> DEFINE n   == Len(e.history)
           R   == RetireActive(e.history, "superseded", RawIdOf[h])
           new == Append(R, NewVersion(h))
           C   == SourceOf(e).contents
           D   == [i \in 1..Len(new) |-> new[i].hash]
<1>1. e.history \in Seq(Version) /\ n \in Nat /\ h # None
  BY HistoryFacts, SentinelAssumption DEF Entry
<1>2. "superseded" \in Status /\ RawIdOf[h] \in RawId \cup {None}
  BY HashAssumption DEF Status
<1>3. R \in Seq(Version) /\ Len(R) = n /\ \A i \in 1..n : R[i].hash = e.history[i].hash
  <2>1. R \in Seq(Version) /\ Len(R) = n
    BY <1>1, <1>2, RetiredHistory
  <2>2. QED
    BY <1>1, <1>2, <2>1, RetiredFields
<1>4. \A i \in 1..n : C[i] = e.history[i].hash
  BY DEF SourceOf
<1>5. C \in Seq(Hash) /\ Len(C) = n
  BY SourceOfFacts DEF L!Source
<1>6. IngestedEntry(e, h) = [active_hash |-> h, compiled_hash |-> e.compiled_hash,
                             history |-> new]
  BY DEF IngestedEntry
<1> HIDE DEF R
<1>7. /\ Len(new) = n + 1 /\ new[n + 1].hash = h
      /\ \A i \in 1..n : new[i] = R[i]
  BY <1>1, <1>3, AppendFacts, NewVersionFacts
<1> HIDE DEF C, new
<1>8. Append(C, h) \in [1..n + 1 -> Hash]
  <2> DEFINE A == Append(C, h)
  <2>1. A \in Seq(Hash) /\ Len(A) = n + 1
    BY <1>5, AppendProperties
  <2> HIDE DEF A
  <2>2. A \in [1..n + 1 -> Hash]
    BY <2>1, LenProperties
  <2>3. QED
    BY <2>2 DEF A
<1>9. \A i \in 1..n + 1 : D[i] = Append(C, h)[i]
  BY <1>1, <1>3, <1>4, <1>5, <1>7, AppendProperties
<1>10. D = [i \in 1..n + 1 |-> D[i]]
  BY <1>7
<1> HIDE DEF D
<1>11. D = Append(C, h)
  BY <1>8, <1>9, <1>10
<1>12. SourceOf(IngestedEntry(e, h)) = [contents |-> D, live |-> h # None,
                                        compiled |-> e.compiled_hash]
  BY <1>6 DEF SourceOf, D
<1>13. QED
  BY <1>1, <1>11, <1>12 DEF C

(***************************************************************************)
(* record_ingest of news is Learn; a tombstone is Retire, a purge Forget,  *)
(* and marking an active source Understand; recording a path is nothing.   *)
(***************************************************************************)
LEMMA IngestIsLearn ==
    ASSUME NEW m \in ManifestType, ManifestConsistent(m), NEW u \in Uri, NEW h \in Hash
    PROVE  Lawful(LedgerView(m), LedgerView(RecordIngest(m, u, h)))
<1>1. CASE IsNoOp(m, u, h)
  BY <1>1 DEF RecordIngest, Lawful
<1>2. CASE ~ IsNoOp(m, u, h)
  <2> DEFINE e == EntryOrDefault(m, u)
             l == LedgerView(m)
             k == LedgerView(RecordIngest(m, u, h))
  <2>1. h # None
    BY SentinelAssumption
  <2>2. e.active_hash # h
    BY <1>2, <2>1 DEF IsNoOp, EntryOrDefault, EmptyEntry
  <2>3. e \in Entry /\ (e = EmptyEntry \/ EntryConsistent(e))
    BY EntryOrDefaultFacts
  <2>4. RecordIngest(m, u, h) = [m EXCEPT ![u] = IngestedEntry(e, h)]
    BY <1>2 DEF RecordIngest
  <2>5. /\ Tracked(m, u) => e = m[u] /\ EntryConsistent(e) /\ l[u] = SourceOf(e) /\ l[u] # Absent
        /\ ~ Tracked(m, u) => e = EmptyEntry /\ l[u] = Absent
    BY ViewFacts, EntryOrDefaultFacts DEF EntryOrDefault
  <2> HIDE DEF e
  <2> DEFINE s == SourceOf(IngestedEntry(e, h))
  <2>6. k = [l EXCEPT ![u] = s]
    <3> DEFINE n == IngestedEntry(e, h)
    <3>1. n \in Entry
      BY <2>2, <2>3, IngestedEntryConsistent
    <3> HIDE DEF n
    <3>2. LedgerView([m EXCEPT ![u] = n]) = [l EXCEPT ![u] = SourceOf(n)]
      BY <3>1, ViewOfReplaced
    <3>3. QED
      BY <2>4, <3>2 DEF n
  <2>7. s = [contents |-> Append(SourceOf(e).contents, h), live |-> TRUE,
             compiled |-> e.compiled_hash]
    BY <2>3, IngestedContents
  <2> HIDE DEF s
  <2>8. s = Learned(l[u], h)
    <3>1. CASE Tracked(m, u)
      <4>1. SourceOf(e).compiled = e.compiled_hash
        BY DEF SourceOf
      <4>2. QED
        BY <2>5, <2>7, <3>1, <4>1 DEF Learned
    <3>2. CASE ~ Tracked(m, u)
      <4>1. SourceOf(EmptyEntry).contents = <<>>
        BY DEF SourceOf, EmptyEntry
      <4>2. Append(<<>>, h) = <<h>>
        OBVIOUS
      <4>3. EmptyEntry.compiled_hash = None
        BY DEF EmptyEntry
      <4>4. QED
        BY <2>5, <2>7, <3>2, <4>1, <4>2, <4>3 DEF Learned
    <3>3. QED
      BY <3>1, <3>2
  <2>9. IsNews(l[u], h)
    <3> SUFFICES ASSUME l[u] # Absent, l[u].live PROVE L!Current(l[u]) # h
      BY DEF IsNews
    <3>1. Tracked(m, u)
      BY <2>5
    <3>2. e.active_hash # None
      BY <2>5, <3>1, LiveIsActive
    <3>3. QED
      BY <2>2, <2>3, <2>5, <3>1, <3>2, CurrentIsActive
  <2> HIDE DEF l, k
  <2>10. Lawful(l, k)
    BY <2>6, <2>8, <2>9 DEF Lawful
  <2>11. QED
    BY <2>10 DEF l, k
<1>3. QED
  BY <1>1, <1>2

LEMMA WithLive ==
    ASSUME NEW a, NEW b, NEW c, NEW f
    PROVE  [[contents |-> a, live |-> b, compiled |-> c] EXCEPT !.live = f] =
               [contents |-> a, live |-> f, compiled |-> c]
OBVIOUS

LEMMA TombstoneIsRetire ==
    ASSUME NEW m \in ManifestType, ManifestConsistent(m), NEW u \in Uri, CanTombstone(m, u)
    PROVE  Lawful(LedgerView(m), LedgerView(Tombstone(m, u)))
<1> DEFINE e == m[u]
           l == LedgerView(m)
           k == LedgerView(Tombstone(m, u))
           n == TombstonedEntry(e)
<1>1. Tracked(m, u) /\ HasActive(e.history) /\ e \in Entry /\ EntryConsistent(e)
  BY EntryOrDefaultFacts DEF CanTombstone
<1>2. n \in Entry /\ Len(n.history) = Len(e.history) /\ Len(e.history) \in Nat
  BY <1>1, TombstonedEntryConsistent, FirstActiveIsLast DEF EntryConsistent
<1>3. l[u] = SourceOf(e) /\ l[u] # Absent
  BY <1>1, ViewFacts
<1>4. k = [l EXCEPT ![u] = SourceOf(n)]
  BY <1>1, <1>2, ViewOfReplaced DEF Tombstone
<1>5. e.active_hash # None
  BY <1>1, FirstActiveIsLast DEF EntryConsistent
<1>6. \A i \in 1..Len(e.history) : n.history[i].hash = e.history[i].hash
  <2>1. e.history \in Seq(Version) /\ "tombstoned" \in Status /\ None \in RawId \cup {None}
    BY <1>1 DEF Entry, Status
  <2>2. n.history = RetireActive(e.history, "tombstoned", None)
    BY DEF TombstonedEntry
  <2>3. QED
    BY <2>1, <2>2, RetiredFields
<1>7. n.active_hash = None /\ n.compiled_hash = e.compiled_hash
  BY DEF TombstonedEntry
<1> HIDE DEF n, e
<1>8. SourceOf(n) = [SourceOf(e) EXCEPT !.live = FALSE]
  <2>1. SourceOf(n) = [contents |-> SourceOf(e).contents, live |-> n.active_hash # None,
                       compiled |-> n.compiled_hash]
    BY <1>1, <1>2, <1>6, SameContents
  <2>2. (n.active_hash # None) = FALSE
    BY <1>7
  <2>3. SourceOf(n) = [contents |-> SourceOf(e).contents, live |-> FALSE,
                       compiled |-> SourceOf(e).compiled]
    <3>1. n.compiled_hash = SourceOf(e).compiled
      BY ONLY <1>7 DEF SourceOf
    <3> QED  BY ONLY <2>1, <2>2, <3>1, Zenon
  <2> DEFINE t == SourceOf(e)
             C == t.contents
             B == t.live
             K == t.compiled
             off == FALSE
  <2>4. t = [contents |-> C, live |-> B, compiled |-> K]
    BY DEF SourceOf
  <2>5. SourceOf(n) = [contents |-> C, live |-> off, compiled |-> K]
    BY <2>3
  <2> HIDE DEF C, B, K, off
  <2>6. [[contents |-> C, live |-> B, compiled |-> K] EXCEPT !.live = off] =
            [contents |-> C, live |-> off, compiled |-> K]
    BY ONLY WithLive
  <2> HIDE DEF t
  <2>7. SourceOf(n) = [t EXCEPT !.live = off]
    BY ONLY <2>4, <2>5, <2>6, Zenon
  <2>8. QED
    BY <2>7, Zenon DEF t, off
<1>9. l[u].live
  BY <1>3, <1>5, LiveIsActive
<1>10. k = [l EXCEPT ![u].live = FALSE]
  BY <1>3, <1>4, <1>8
<1> HIDE DEF l, k
<1>11. Lawful(l, k)
  BY <1>3, <1>9, <1>10 DEF Lawful
<1>12. QED
  BY <1>11 DEF l, k

LEMMA PurgeIsForget ==
    ASSUME NEW m \in ManifestType, NEW u \in Uri, Tracked(m, u)
    PROVE  Lawful(LedgerView(m), LedgerView(Purge(m, u)))
<1> DEFINE l == LedgerView(m)
           k == LedgerView(Purge(m, u))
<1>1. l[u] # Absent /\ k = [l EXCEPT ![u] = Absent]
  BY ViewFacts, ViewOfChanged DEF Purge
<1> HIDE DEF l, k
<1>2. Lawful(l, k)
  BY <1>1 DEF Lawful
<1>3. QED
  BY <1>2 DEF l, k

LEMMA MarkIsUnderstand ==
    ASSUME NEW m \in ManifestType, ManifestConsistent(m), NEW u \in Uri, Tracked(m, u)
    PROVE  Lawful(LedgerView(m), LedgerView(MarkCompiled(m, u)))
<1> DEFINE e == m[u]
           l == LedgerView(m)
           k == LedgerView(MarkCompiled(m, u))
           n == MarkedEntry(e)
<1>1. e \in Entry /\ EntryConsistent(e)
  BY EntryOrDefaultFacts
<1>2. /\ n \in Entry /\ n.history = e.history /\ n.active_hash = e.active_hash
      /\ n.compiled_hash = e.active_hash
  BY <1>1, MarkedEntryConsistent
<1>3. l[u] = SourceOf(e) /\ l[u] # Absent
  BY <1>1, ViewFacts
<1>4. k = [l EXCEPT ![u] = SourceOf(n)]
  BY <1>1, <1>2, ViewOfReplaced DEF MarkCompiled
<1>5. e.active_hash = IF SourceOf(e).live THEN L!Current(SourceOf(e)) ELSE None
  BY <1>1, CurrentIsActive, LiveIsActive
<1> HIDE DEF n, e
<1>6. SourceOf(n) = [SourceOf(e) EXCEPT !.compiled = e.active_hash]
  <2>1. SourceOf(n) = [contents |-> SourceOf(e).contents, live |-> n.active_hash # None,
                       compiled |-> n.compiled_hash]
    BY <1>1, <1>2, SameContents
  <2>2. SourceOf(n) = [contents |-> SourceOf(e).contents, live |-> SourceOf(e).live,
                       compiled |-> e.active_hash]
    BY <1>2, <2>1, LiveIsActive, Zenon
  <2>3. SourceOf(e) \in L!Source
    BY <1>1, SourceOfFacts
  <2>4. QED
    BY <2>2, <2>3 DEF L!Source
<1>7. k = [l EXCEPT ![u].compiled = IF l[u].live THEN L!Current(l[u]) ELSE None]
  BY <1>3, <1>4, <1>5, <1>6
<1> HIDE DEF l, k
<1>8. Lawful(l, k)
  BY <1>3, <1>7 DEF Lawful
<1>9. QED
  BY <1>8 DEF l, k

LEMMA PathIsSilent ==
    ASSUME NEW m \in ManifestType, ManifestConsistent(m), NEW u \in Uri,
           NEW r \in RawId, NEW f \in File, IdOfFile(f) = r
    PROVE  LedgerView(RecordRawPath(m, u, r, f)) = LedgerView(m)
<1>1. CASE ~ Tracked(m, u)
  BY <1>1 DEF RecordRawPath
<1>2. CASE Tracked(m, u)
  <2> DEFINE e == m[u]
             n == LocatedEntry(e, r, f)
             l == LedgerView(m)
  <2>1. e \in Entry /\ EntryConsistent(e)
    BY <1>2, EntryOrDefaultFacts
  <2>2. n \in Entry /\ Len(n.history) = Len(e.history) /\ Len(e.history) \in Nat
    BY <2>1, LocatedEntryConsistent, FirstActiveIsLast DEF EntryConsistent
  <2>3. \A i \in 1..Len(e.history) : n.history[i].hash = e.history[i].hash
    BY DEF LocatedEntry, WithPath, Located
  <2>4. n.active_hash = e.active_hash /\ n.compiled_hash = e.compiled_hash
    BY DEF LocatedEntry
  <2>5. l[u] = SourceOf(e)
    BY <1>2, ViewFacts
  <2>6. RecordRawPath(m, u, r, f) = [m EXCEPT ![u] = n]
    BY <1>2 DEF RecordRawPath
  <2> HIDE DEF n, e
  <2>7. LedgerView([m EXCEPT ![u] = n]) = [l EXCEPT ![u] = SourceOf(n)]
    BY <2>2, ViewOfReplaced
  <2>8. SourceOf(n) = SourceOf(e)
    <3>1. SourceOf(n) = [contents |-> SourceOf(e).contents, live |-> n.active_hash # None,
                         compiled |-> n.compiled_hash]
      BY <2>1, <2>2, <2>3, SameContents
    <3>2. SourceOf(e) = [contents |-> SourceOf(e).contents, live |-> e.active_hash # None,
                         compiled |-> e.compiled_hash]
      BY <2>1, SameContents
    <3>3. QED
      BY <2>4, <3>1, <3>2, Zenon
  <2>9. l = [l EXCEPT ![u] = l[u]]
    BY DEF LedgerView
  <2> HIDE DEF l
  <2>10. LedgerView([m EXCEPT ![u] = n]) = l
    BY <2>5, <2>7, <2>8, <2>9
  <2>11. QED
    BY <2>6, <2>10 DEF l
<1>3. QED
  BY <1>1, <1>2

(***************************************************************************)
(* What makes a manifest a lawful successor of another: the ledger takes   *)
(* one of its actions, and every history that both have has only grown.    *)
(***************************************************************************)
Grew(d, m) ==
    \A u \in Uri : Tracked(d, u) /\ Tracked(m, u) => Extends(d[u].history, m[u].history)

Succeeds(d, m) == Lawful(LedgerView(d), LedgerView(m)) /\ Grew(d, m)

LEMMA Unchanging == \A d \in ManifestType : Succeeds(d, d)
<1> SUFFICES ASSUME NEW d \in ManifestType, NEW u \in Uri, Tracked(d, u)
             PROVE  Extends(d[u].history, d[u].history)
  BY DEF Succeeds, Lawful, Grew
<1>1. Len(d[u].history) \in Nat
  BY HistoryFacts DEF ManifestType, Entry, Tracked
<1>2. QED
  BY <1>1 DEF Extends

LEMMA GrewAfterReplace ==
    ASSUME NEW d \in ManifestType, NEW u \in Uri, NEW e \in Entry,
           Tracked(d, u) => Extends(d[u].history, e.history)
    PROVE  Grew(d, [d EXCEPT ![u] = e])
<1> DEFINE m == [d EXCEPT ![u] = e]
<1>1. m[u] = e /\ \A w \in Uri \ {u} : m[w] = d[w]
  BY DEF ManifestType
<1>2. \A w \in Uri : Tracked(d, w) => Extends(d[w].history, d[w].history)
  BY Unchanging DEF Succeeds, Grew
<1> HIDE DEF m
<1>3. Grew(d, m)
  BY <1>1, <1>2 DEF Grew, Tracked
<1>4. QED
  BY <1>3 DEF m

LEMMA RetiredExtends ==
    ASSUME NEW h \in Seq(Version), NEW s \in Status, NEW by \in RawId \cup {None}
    PROVE  Extends(h, RetireActive(h, s, by))
<1>1. Len(h) \in Nat /\ Len(RetireActive(h, s, by)) = Len(h)
  BY HistoryFacts, RetiredHistory
<1>2. \A i \in 1..Len(h) : h[i].status # "active" => ~ IsFirst(ActiveAt(h), i)
  BY DEF IsFirst, ActiveAt
<1>3. QED
  BY <1>1, <1>2, RetiredFields DEF Extends

LEMMA IngestSucceeds ==
    ASSUME NEW m \in ManifestType, ManifestConsistent(m), NEW u \in Uri, NEW h \in Hash
    PROVE  Succeeds(m, RecordIngest(m, u, h))
<1>1. CASE IsNoOp(m, u, h)
  BY <1>1, Unchanging DEF RecordIngest
<1>2. CASE ~ IsNoOp(m, u, h)
  <2> DEFINE e == EntryOrDefault(m, u)
             n == IngestedEntry(e, h)
             R == RetireActive(e.history, "superseded", RawIdOf[h])
  <2>1. h # None
    BY SentinelAssumption
  <2>2. e.active_hash # h
    BY <1>2, <2>1 DEF IsNoOp, EntryOrDefault, EmptyEntry
  <2>3. e \in Entry /\ (e = EmptyEntry \/ EntryConsistent(e))
    BY EntryOrDefaultFacts
  <2>4. RecordIngest(m, u, h) = [m EXCEPT ![u] = n] /\ (Tracked(m, u) => e = m[u])
    BY <1>2 DEF RecordIngest, EntryOrDefault
  <2> HIDE DEF e
  <2>5. n \in Entry
    BY <2>2, <2>3, IngestedEntryConsistent
  <2>6. n.history = Append(R, NewVersion(h))
    BY DEF IngestedEntry
  <2>7. /\ e.history \in Seq(Version) /\ Len(e.history) \in Nat
        /\ "superseded" \in Status /\ RawIdOf[h] \in RawId \cup {None}
    BY <2>3, HistoryFacts, HashAssumption DEF Entry, Status
  <2>8. Extends(e.history, R) /\ R \in Seq(Version) /\ Len(R) = Len(e.history)
    BY <2>7, RetiredExtends, RetiredHistory
  <2> HIDE DEF R, n
  <2>9. Extends(e.history, n.history)
    BY <2>6, <2>7, <2>8, AppendFacts, NewVersionFacts DEF Extends
  <2>10. Grew(m, [m EXCEPT ![u] = n])
    BY <2>4, <2>5, <2>9, GrewAfterReplace
  <2>11. QED
    BY <2>4, <2>10, IngestIsLearn DEF Succeeds
<1>3. QED
  BY <1>1, <1>2

LEMMA TombstoneSucceeds ==
    ASSUME NEW m \in ManifestType, ManifestConsistent(m), NEW u \in Uri, CanTombstone(m, u)
    PROVE  Succeeds(m, Tombstone(m, u))
<1> DEFINE n == TombstonedEntry(m[u])
<1>1. m[u] \in Entry /\ EntryConsistent(m[u]) /\ HasActive(m[u].history)
  BY EntryOrDefaultFacts DEF CanTombstone
<1>2. n \in Entry
  BY <1>1, TombstonedEntryConsistent
<1>3. n.history = RetireActive(m[u].history, "tombstoned", None)
  BY DEF TombstonedEntry
<1>4. m[u].history \in Seq(Version) /\ "tombstoned" \in Status /\ None \in RawId \cup {None}
  BY <1>1 DEF Entry, Status
<1> HIDE DEF n
<1>5. Extends(m[u].history, n.history)
  BY <1>3, <1>4, RetiredExtends
<1>6. Grew(m, [m EXCEPT ![u] = n])
  BY <1>2, <1>5, GrewAfterReplace
<1>7. QED
  BY <1>6, TombstoneIsRetire DEF Succeeds, Tombstone, n

LEMMA PurgeSucceeds ==
    ASSUME NEW m \in ManifestType, NEW u \in Uri, Tracked(m, u)
    PROVE  Succeeds(m, Purge(m, u))
<1>1. \A w \in Uri : Tracked(m, w) => Extends(m[w].history, m[w].history)
  BY Unchanging DEF Succeeds, Grew
<1>2. Grew(m, Purge(m, u))
  BY <1>1 DEF Grew, Purge, Tracked, ManifestType
<1>3. QED
  BY <1>2, PurgeIsForget DEF Succeeds

LEMMA MarkSucceeds ==
    ASSUME NEW m \in ManifestType, ManifestConsistent(m), NEW u \in Uri
    PROVE  Succeeds(m, MarkCompiled(m, u))
<1>1. CASE ~ Tracked(m, u)
  BY <1>1, Unchanging DEF MarkCompiled
<1>2. CASE Tracked(m, u)
  <2> DEFINE n == MarkedEntry(m[u])
  <2>1. m[u] \in Entry /\ EntryConsistent(m[u])
    BY <1>2, EntryOrDefaultFacts
  <2>2. n \in Entry /\ n.history = m[u].history
    BY <2>1, MarkedEntryConsistent
  <2>3. Extends(m[u].history, m[u].history)
    BY <1>2, Unchanging DEF Succeeds, Grew
  <2> HIDE DEF n
  <2>4. Grew(m, [m EXCEPT ![u] = n])
    BY <2>2, <2>3, GrewAfterReplace
  <2>5. QED
    BY <1>2, <2>4, MarkIsUnderstand DEF Succeeds, MarkCompiled, n
<1>3. QED
  BY <1>1, <1>2

LEMMA PathSucceeds ==
    ASSUME NEW d, NEW m \in ManifestType, ManifestConsistent(m), Succeeds(d, m), NEW u \in Uri,
           NEW r \in RawId, NEW f \in File, IdOfFile(f) = r
    PROVE  Succeeds(d, RecordRawPath(m, u, r, f))
<1>1. CASE ~ Tracked(m, u)
  BY <1>1 DEF RecordRawPath
<1>2. CASE Tracked(m, u)
  <2> DEFINE n == LocatedEntry(m[u], r, f)
             k == RecordRawPath(m, u, r, f)
  <2>1. m[u] \in Entry /\ EntryConsistent(m[u])
    BY <1>2, EntryOrDefaultFacts
  <2>2. n \in Entry /\ Len(n.history) = Len(m[u].history) /\ Len(m[u].history) \in Nat
    BY <2>1, LocatedEntryConsistent, FirstActiveIsLast DEF EntryConsistent
  <2>3. \A i \in 1..Len(m[u].history) :
           /\ n.history[i].hash = m[u].history[i].hash
           /\ n.history[i].raw = m[u].history[i].raw
           /\ n.history[i].status = m[u].history[i].status
           /\ n.history[i].by = m[u].history[i].by
    BY DEF LocatedEntry, WithPath, Located
  <2>4. k = [m EXCEPT ![u] = n]
    BY <1>2 DEF RecordRawPath
  <2> HIDE DEF n
  <2>5. k[u] = n /\ \A w \in Uri \ {u} : k[w] = m[w]
    BY <2>4 DEF ManifestType
  <2> HIDE DEF k
  <2>6. ASSUME NEW w \in Uri, Tracked(d, w), Tracked(k, w)
        PROVE  Extends(d[w].history, k[w].history)
    <3>1. CASE w = u
      <4>1. Extends(d[u].history, m[u].history)
        BY <1>2, <2>6, <3>1 DEF Succeeds, Grew
      <4>2. Extends(d[u].history, n.history)
        BY <2>2, <2>3, <4>1 DEF Extends
      <4>3. QED
        BY <2>5, <3>1, <4>2
    <3>2. CASE w # u
      BY <2>5, <2>6, <3>2 DEF Succeeds, Grew, Tracked
    <3>3. QED
      BY <3>1, <3>2
  <2>7. Grew(d, k)
    BY <2>6 DEF Grew
  <2>8. QED
    BY <2>7, PathIsSilent DEF Succeeds, k
<1>3. QED
  BY <1>1, <1>2

(***************************************************************************)
(* The strengthening: at most one command runs, the manifest it holds is a *)
(* lawful successor of the one on disk, and until a compile has marked a   *)
(* source its snapshot is the manifest on disk.                            *)
(***************************************************************************)
Alone == \A p, q \in Running : p = q

Serves(c, d) ==
    /\ c.at \in {"resolve", "create", "write", "unlink", "save", "mark", "submit"}
           => Succeeds(d, c.mem)
    /\ c.at \in {"dispatch", "llm"} => c.mem = d

SerialInv == Alone /\ \A p \in Proc : Serves(cmd[p], disk)

LEMMA OthersIdle ==
    ASSUME VaultInv, Alone, MaxRunning <= 1, NEW p \in Proc, StepOf(p)
    PROVE  \A q \in Proc \ {p} : cmd[q].at = "idle"
<1> SUFFICES ASSUME NEW q \in Proc, q # p, cmd[q].at # "idle" PROVE FALSE
  OBVIOUS
<1>1. cmd[p].at = "idle"
  BY DEF Alone, Running
<1>2. Running = {q}
  BY DEF Alone, Running
<1>3. Cardinality(Running) = 1
  BY <1>2, FS_Singleton
<1>4. ~ (Cardinality(Running) < MaxRunning)
  BY <1>3, VaultAssumption
<1> HIDE DEF Running
<1>5. QED
  BY <1>1, <1>4
  DEF StepOf, Begin, Ingest, IngestLoad, IngestReuse, IngestFresh, IngestCreate, IngestWrite,
      Delete, TombstoneLoad, PurgeLoad, PurgeUnlink,
      Compile, CompileLoad, CompileRead, CompileUnreadable, CompileApply, CompileFail,
      CompileSave, CompileEnd, Synthesize, SynthesizeNext, SynthesizeSubmit,
      SynthesizeMark, SynthesizeSave, SaveManifest, Interrupt

LEMMA BecomeFacts ==
    ASSUME VaultInv, NEW p \in Proc, NEW at, NEW u, NEW h, NEW m, NEW vs, NEW ts,
           Become(p, at, u, h, m, vs, ts)
    PROVE  cmd'[p].at = at /\ cmd'[p].uri = u /\ cmd'[p].hash = h /\ cmd'[p].mem = m
BY DEF Become, VaultInv, TypeOK

(***************************************************************************)
(* What one step does to the command that takes it and to the ledger.      *)
(***************************************************************************)
Served(c, d, new) == Serves(c, new) /\ Succeeds(d, new)


LEMMA IngestServes ==
    ASSUME VaultInv, NEW p \in Proc, Serves(cmd[p], disk), Ingest(p)
    PROVE  Served(cmd'[p], disk, disk')
<1> USE CommandFacts
<1>1. ASSUME NEW u \in Uri, NEW h \in Hash, IngestLoad(p, u, h)
      PROVE  Served(cmd'[p], disk, disk')
  <2> DEFINE at == IF IsNoOp(disk, u, h) THEN "save" ELSE "resolve"
             m  == RecordIngest(disk, u, h)
  <2>1. Become(p, at, u, h, m, <<>>, {}) /\ disk' = disk
    BY <1>1 DEF IngestLoad
  <2>2. Succeeds(disk, m)
    BY IngestSucceeds
  <2>3. at \in {"save", "resolve"}
    OBVIOUS
  <2> HIDE DEF at, m
  <2>4. cmd'[p].at = at /\ cmd'[p].mem = m
    BY <2>1, BecomeFacts
  <2>5. QED
    BY <2>1, <2>2, <2>3, <2>4, Unchanging DEF Served, Serves
<1>2. ASSUME NEW f \in File, IdOfFile(f) = RawIdOf[cmd[p].hash],
             cmd[p].at \in {"resolve", "write"}, BlobAt(p, f), disk' = disk
      PROVE  Served(cmd'[p], disk, disk')
  <2> DEFINE m == RecordRawPath(cmd[p].mem, cmd[p].uri, RawIdOf[cmd[p].hash], f)
  <2>1. Become(p, "save", cmd[p].uri, cmd[p].hash, m, <<>>, {})
    BY <1>2 DEF BlobAt
  <2>2. Succeeds(disk, cmd[p].mem)
    BY <1>2 DEF Serves
  <2>3. Succeeds(disk, m)
    BY <1>2, <2>2, HashAssumption, PathSucceeds
  <2> HIDE DEF m
  <2>4. cmd'[p].at = "save" /\ cmd'[p].mem = m
    BY <2>1, BecomeFacts
  <2>5. QED
    BY <1>2, <2>3, <2>4, Unchanging DEF Served, Serves
<1>3. ASSUME NEW at \in {"create", "write"}, cmd[p].at \in {"resolve", "create"},
             GoTo(p, at), disk' = disk
      PROVE  Served(cmd'[p], disk, disk')
  <2>1. cmd'[p].at = at /\ cmd'[p].mem = cmd[p].mem
    BY <1>3, BecomeFacts DEF GoTo
  <2>2. QED
    BY <1>3, <2>1, Unchanging DEF Served, Serves
<1>4. CASE IngestReuse(p)
  <2>1. PICK f \in Resolved(RawIdOf[cmd[p].hash]) : BlobAt(p, f)
    BY <1>4 DEF IngestReuse
  <2>2. cmd[p].at = "resolve" /\ RawIdOf[cmd[p].hash] \in RawId /\ disk' = disk
    BY <1>4, HashAssumption DEF IngestReuse
  <2>3. f \in File /\ IdOfFile(f) = RawIdOf[cmd[p].hash]
    BY <2>1, <2>2, ResolvedFacts
  <2>4. QED
    BY <1>2, <2>1, <2>2, <2>3
<1>5. CASE IngestFresh(p)
  BY <1>3, <1>5 DEF IngestFresh
<1>6. CASE IngestCreate(p)
  BY <1>3, <1>6 DEF IngestCreate
<1>7. CASE IngestWrite(p)
  <2> DEFINE f == FileNameFor(cmd[p].uri, cmd[p].hash)
  <2>1. f \in File /\ IdOfFile(f) = RawIdOf[cmd[p].hash]
    BY <1>7, FileNameFacts DEF IngestWrite
  <2>2. cmd[p].at = "write" /\ BlobAt(p, f) /\ disk' = disk
    BY <1>7 DEF IngestWrite
  <2> HIDE DEF f
  <2>3. QED
    BY <1>2, <2>1, <2>2
<1>8. QED
  BY <1>1, <1>4, <1>5, <1>6, <1>7 DEF Ingest

LEMMA DeleteServes ==
    ASSUME VaultInv, NEW p \in Proc, Serves(cmd[p], disk), Delete(p)
    PROVE  Served(cmd'[p], disk, disk')
<1> USE CommandFacts
<1>1. ASSUME NEW u \in Uri, TombstoneLoad(p, u)
      PROVE  Served(cmd'[p], disk, disk')
  <2> DEFINE m == Tombstone(disk, u)
  <2>1. Succeeds(disk, m)
    BY <1>1, TombstoneSucceeds DEF TombstoneLoad
  <2>2. Become(p, "save", u, None, m, <<>>, {}) /\ disk' = disk
    BY <1>1 DEF TombstoneLoad
  <2> HIDE DEF m
  <2>3. cmd'[p].at = "save" /\ cmd'[p].mem = m
    BY <2>2, BecomeFacts
  <2>4. QED
    BY <2>1, <2>2, <2>3, Unchanging DEF Served, Serves
<1>2. ASSUME NEW u \in Uri, PurgeLoad(p, u)
      PROVE  Served(cmd'[p], disk, disk')
  <2> DEFINE m  == Purge(disk, u)
             vs == RawIdsOf(disk[u].history)
  <2>1. Succeeds(disk, m)
    BY <1>2, PurgeSucceeds DEF PurgeLoad
  <2>2. Become(p, "unlink", u, None, m, vs, {}) /\ disk' = disk
    BY <1>2 DEF PurgeLoad
  <2> HIDE DEF m, vs
  <2>3. cmd'[p].at = "unlink" /\ cmd'[p].mem = m
    BY <2>2, BecomeFacts
  <2>4. QED
    BY <2>1, <2>2, <2>3, Unchanging DEF Served, Serves
<1>3. CASE PurgeUnlink(p)
  <2> DEFINE at == IF Len(cmd[p].victims) = 1 THEN "save" ELSE "unlink"
             vs == Tail(cmd[p].victims)
  <2>1. /\ Become(p, at, cmd[p].uri, None, cmd[p].mem, vs, {})
        /\ disk' = disk /\ cmd[p].at = "unlink"
    BY <1>3 DEF PurgeUnlink
  <2>2. at \in {"save", "unlink"}
    OBVIOUS
  <2> HIDE DEF at, vs
  <2>3. cmd'[p].at = at /\ cmd'[p].mem = cmd[p].mem
    BY <2>1, BecomeFacts
  <2>4. Succeeds(disk, cmd[p].mem)
    BY <2>1 DEF Serves
  <2>5. QED
    BY <2>1, <2>2, <2>3, <2>4, Unchanging DEF Served, Serves
<1>4. QED
  BY <1>1, <1>2, <1>3 DEF Delete

LEMMA CompileServes ==
    ASSUME VaultInv, NEW p \in Proc, Serves(cmd[p], disk), Compile(p)
    PROVE  Served(cmd'[p], disk, disk')
<1> USE CommandFacts
<1>1. CASE CompileLoad(p)
  <2>1. PICK ts : Become(p, "dispatch", None, None, disk, <<>>, ts)
    BY <1>1 DEF CompileLoad
  <2>2. cmd'[p].at = "dispatch" /\ cmd'[p].mem = disk /\ disk' = disk
    BY <1>1, <2>1, BecomeFacts DEF CompileLoad
  <2>3. QED
    BY <2>2, Unchanging DEF Served, Serves
<1>2. ASSUME NEW u, Done(p, u), disk' = cmd[p].mem, cmd[p].at \in {"dispatch", "llm", "mark"}
      PROVE  Served(cmd'[p], disk, disk')
  <2>1. cmd'[p].at = "dispatch" /\ cmd'[p].mem = cmd[p].mem
    BY <1>2, BecomeFacts DEF Done
  <2>2. Succeeds(disk, cmd[p].mem)
    BY <1>2, Unchanging DEF Serves
  <2>3. QED
    BY <1>2, <2>1, <2>2 DEF Served, Serves
<1>3. ASSUME NEW u \in Uri, CompileRead(p, u)
      PROVE  Served(cmd'[p], disk, disk')
  <2>1. cmd'[p].at = "llm" /\ cmd'[p].mem = cmd[p].mem /\ disk' = disk
    BY <1>3, BecomeFacts DEF CompileRead
  <2>2. cmd[p].mem = disk
    BY <1>3 DEF CompileRead, Serves
  <2>3. QED
    BY <2>1, <2>2, Unchanging DEF Served, Serves
<1>4. ASSUME NEW u \in Uri, CompileUnreadable(p, u)
      PROVE  Served(cmd'[p], disk, disk')
  BY <1>2, <1>4 DEF CompileUnreadable, Serves
<1>5. CASE CompileApply(p)
  <2> DEFINE m == MarkCompiled(cmd[p].mem, cmd[p].uri)
  <2>1. /\ cmd[p].at = "llm" /\ disk' = disk
        /\ Become(p, "mark", cmd[p].uri, cmd[p].hash, m, <<>>, cmd[p].todo)
    BY <1>5 DEF CompileApply
  <2>2. cmd[p].mem = disk /\ cmd[p].uri \in Uri
    BY <2>1 DEF Serves
  <2>3. Succeeds(disk, m)
    BY <2>2, MarkSucceeds
  <2> HIDE DEF m
  <2>4. cmd'[p].at = "mark" /\ cmd'[p].mem = m
    BY <2>1, BecomeFacts
  <2>5. QED
    BY <2>1, <2>3, <2>4, Unchanging DEF Served, Serves
<1>6. CASE CompileFail(p)
  BY <1>2, <1>6 DEF CompileFail, Serves
<1>7. CASE CompileSave(p)
  BY <1>2, <1>7 DEF CompileSave
<1>8. CASE CompileEnd(p)
  <2>1. cmd'[p] = Idle /\ disk' = disk
    BY <1>8, StopKeeps DEF CompileEnd
  <2>2. QED
    BY <2>1, Unchanging DEF Served, Serves, Idle
<1>9. QED
  BY <1>1, <1>3, <1>4, <1>5, <1>6, <1>7, <1>8 DEF Compile

LEMMA SynthesizeServes ==
    ASSUME VaultInv, NEW p \in Proc, Serves(cmd[p], disk), Synthesize(p)
    PROVE  Served(cmd'[p], disk, disk')
<1> USE CommandFacts
<1>1. ASSUME NEW u \in Uri, SynthesizeNext(p, u)
      PROVE  Served(cmd'[p], disk, disk')
  BY <1>1, Unchanging DEF SynthesizeNext, Served
<1>2. ASSUME NEW job \in jobs, SynthesizeSubmit(p, job)
      PROVE  Served(cmd'[p], disk, disk')
  <2>1. cmd'[p].at = "reload" /\ disk' = disk
    BY <1>2, BecomeFacts DEF SynthesizeSubmit
  <2>2. QED
    BY <2>1, Unchanging DEF Served, Serves
<1>3. CASE SynthesizeMark(p)
  <2> DEFINE m == MarkCompiled(disk, cmd[p].uri)
  <2>1. Succeeds(disk, m)
    BY <1>3, MarkSucceeds DEF SynthesizeMark
  <2>2. Become(p, "submit", cmd[p].uri, cmd[p].hash, m, <<>>, {}) /\ disk' = disk
    BY <1>3 DEF SynthesizeMark
  <2> HIDE DEF m
  <2>3. cmd'[p].at = "submit" /\ cmd'[p].mem = m
    BY <2>2, BecomeFacts
  <2>4. QED
    BY <2>1, <2>2, <2>3, Unchanging DEF Served, Serves
<1>4. CASE SynthesizeSave(p)
  <2>1. cmd'[p] = Idle /\ disk' = cmd[p].mem /\ Succeeds(disk, cmd[p].mem)
    BY <1>4, StopKeeps DEF SynthesizeSave, Serves
  <2>2. QED
    BY <2>1 DEF Served, Serves, Idle
<1>5. QED
  BY <1>1, <1>2, <1>3, <1>4 DEF Synthesize

LEMMA SerialInit == Init => SerialInv
BY DEF Init, SerialInv, Alone, Running, Serves, Idle

LEMMA SerialStep ==
    ASSUME VaultInv, SerialInv, MaxRunning <= 1, NEW p \in Proc, StepOf(p)
    PROVE  SerialInv' /\ Succeeds(disk, disk')
<1>1. \A q \in Proc \ {p} : cmd[q].at = "idle"
  BY OthersIdle DEF SerialInv
<1>2. PICK c : cmd' = [cmd EXCEPT ![p] = c]
  BY StepsMoveOne
<1>3. \A q \in Proc \ {p} : cmd'[q].at = "idle"
  BY <1>1, <1>2 DEF VaultInv, TypeOK
<1>4. Alone'
  BY <1>3 DEF Alone, Running
<1>5. Serves(cmd[p], disk)
  BY DEF SerialInv
<1>6. CASE SaveManifest(p)
  <2>1. cmd[p].at = "save" /\ disk' = cmd[p].mem /\ cmd'[p].at = "idle"
    BY <1>6, StopKeeps DEF SaveManifest, Idle
  <2>2. QED
    BY <1>3, <1>4, <1>5, <2>1 DEF SerialInv, Serves
<1>7. CASE Interrupt(p)
  <2>1. disk' = disk /\ cmd'[p].at = "idle"
    BY <1>7, StopKeeps DEF Interrupt, Idle
  <2>2. QED
    BY <1>3, <1>4, <2>1, CommandFacts, Unchanging DEF SerialInv, Serves
<1>8. CASE Ingest(p) \/ Delete(p) \/ Compile(p) \/ Synthesize(p)
  <2>1. Served(cmd'[p], disk, disk')
    BY <1>5, <1>8, IngestServes, DeleteServes, CompileServes, SynthesizeServes
  <2>2. QED
    BY <1>3, <1>4, <2>1 DEF SerialInv, Served, Serves
<1>9. QED
  BY <1>6, <1>7, <1>8 DEF StepOf

(***************************************************************************)
(* A lawful change of the ledger is one of its actions, or a stutter.      *)
(***************************************************************************)
LEMMA LawfulIsNext ==
    ASSUME disk \in ManifestType, ManifestConsistent(disk),
           Lawful(LedgerView(disk), LedgerView(disk'))
    PROVE  [L!LedgerNext]_(LedgerView(disk))
<1> DEFINE l == LedgerView(disk)
           k == LedgerView(disk')
<1>0. l = [u \in Uri |-> l[u]] /\ \A u \in Uri : l[u] # Absent => l[u] \in L!Source
  <2>1. \A u \in Uri : disk[u] # Absent => disk[u] \in Entry
    BY DEF ManifestType
  <2>2. \A e \in Entry : SourceOf(e) \in L!Source
    BY SourceOfFacts
  <2>3. QED
    BY <2>1, <2>2 DEF LedgerView, Tracked
<1>1. CASE k = l
  BY <1>1
<1>2. ASSUME NEW u \in Uri, NEW h \in Hash, IsNews(l[u], h),
             k = [l EXCEPT ![u] = Learned(l[u], h)]
      PROVE  L!Learn(u, h)
  <2> HIDE DEF l, k
  <2>1. CASE l[u] = Absent
    <3>1. k = [l EXCEPT ![u] = [contents |-> <<h>>, live |-> TRUE, compiled |-> None]]
      BY <1>2, <2>1 DEF Learned
    <3>2. QED
      BY <2>1, <3>1 DEF L!Learn, L!Known, l, k
  <2>2. CASE l[u] # Absent
    <3> DEFINE a == l[u]
    <3>1. a = [contents |-> a.contents, live |-> a.live, compiled |-> a.compiled]
      BY <1>0, <2>2 DEF L!Source
    <3>2. k = [l EXCEPT ![u] = [contents |-> Append(a.contents, h), live |-> TRUE,
                                compiled |-> a.compiled]]
      BY <1>2, <2>2 DEF Learned
    <3>3. k = [l EXCEPT ![u].contents = Append(@, h), ![u].live = TRUE]
      BY <1>0, <3>1, <3>2
    <3>4. l[u].live => L!Current(l[u]) # h
      BY <1>2, <2>2 DEF IsNews
    <3>5. QED
      BY <2>2, <3>3, <3>4 DEF L!Learn, L!Known, l, k
  <2>3. QED
    BY <2>1, <2>2
<1>3. ASSUME NEW u \in Uri, l[u] # Absent,
             \/ k = [l EXCEPT ![u] = Absent]
             \/ l[u].live /\ k = [l EXCEPT ![u].live = FALSE]
             \/ k = [l EXCEPT ![u].compiled = IF l[u].live THEN L!Current(l[u]) ELSE None]
      PROVE  L!Forget(u) \/ L!Retire(u) \/ L!Understand(u)
  BY <1>3, Zenon DEF L!Forget, L!Retire, L!Understand, L!IsLive, L!Known
<1>4. QED
  BY <1>1, <1>2, <1>3, Zenon DEF Lawful, L!LedgerNext

(***************************************************************************)
(* One command at a time, interrupted at any step, a vault implements the  *)
(* ledger: every save is exactly one of Learn, Retire, Forget and          *)
(* Understand on one source, or changes nothing the ledger shows.          *)
(***************************************************************************)
THEOREM VaultIsALedger ==
    ASSUME MaxRunning <= 1
    PROVE  Spec => ImplementsLedger
<1> DEFINE Inv == VaultInv /\ SerialInv
<1>1. Init => Inv /\ L!LedgerInit
  <2> SUFFICES ASSUME Init PROVE SerialInv /\ L!LedgerInit
    BY InitKeeps
  <2>1. SerialInv
    BY SerialInit
  <2>2. L!LedgerInit
    BY DEF Init, L!LedgerInit, LedgerView, EmptyManifest, Tracked
  <2>3. QED
    BY <2>1, <2>2
<1>2. Inv /\ [Next]_vars => Inv' /\ [L!LedgerNext]_(LedgerView(disk))
  <2> SUFFICES ASSUME VaultInv, SerialInv, [Next]_vars
               PROVE  SerialInv' /\ [L!LedgerNext]_(LedgerView(disk))
    BY NextKeeps
  <2>1. CASE Next
    <3>1. PICK p \in Proc : StepOf(p)
      BY <2>1 DEF Next, StepOf
    <3>2. SerialInv' /\ Lawful(LedgerView(disk), LedgerView(disk'))
      BY <3>1, SerialStep DEF Succeeds
    <3>3. disk \in ManifestType /\ ManifestConsistent(disk)
      BY DEF VaultInv, TypeOK, DiskConsistent
    <3>4. QED
      BY <3>2, <3>3, LawfulIsNext
  <2>2. CASE UNCHANGED vars
    <3>1. disk' = disk /\ cmd' = cmd
      BY <2>2 DEF vars
    <3>2. QED
      BY <3>1 DEF SerialInv, Alone, Running
  <2>3. QED
    BY <2>1, <2>2
<1> HIDE DEF Inv
<1>3. QED
  BY <1>1, <1>2, PTL DEF Spec, ImplementsLedger, L!LedgerSpec

(***************************************************************************)
(* History is append-only one command at a time: no save drops or rewrites *)
(* a version, which two commands at once may do to each other.             *)
(***************************************************************************)
THEOREM HistoryOnlyGrows ==
    ASSUME MaxRunning <= 1
    PROVE  Spec => HistoryAppendOnly
<1> DEFINE Inv == VaultInv /\ SerialInv
           Kept == \A u \in Uri : Tracked(disk, u) /\ Tracked(disk', u)
                                     => Extends(disk[u].history, disk'[u].history)
<1>1. Init => Inv
  BY InitKeeps, SerialInit
<1>2. Inv /\ [Next]_vars => Inv' /\ [Kept]_vars
  <2> SUFFICES ASSUME VaultInv, SerialInv, [Next]_vars PROVE SerialInv' /\ [Kept]_vars
    BY NextKeeps
  <2>1. CASE Next
    <3>1. PICK p \in Proc : StepOf(p)
      BY <2>1 DEF Next, StepOf
    <3>2. SerialInv' /\ Grew(disk, disk')
      BY <3>1, SerialStep DEF Succeeds
    <3>3. QED
      BY <3>2 DEF Grew
  <2>2. CASE UNCHANGED vars
    <3>1. disk' = disk /\ cmd' = cmd
      BY <2>2 DEF vars
    <3>2. QED
      BY <2>2, <3>1 DEF SerialInv, Alone, Running
  <2>3. QED
    BY <2>1, <2>2
<1> HIDE DEF Inv
<1>3. QED
  BY <1>1, <1>2, PTL DEF Spec, HistoryAppendOnly
=============================================================================
