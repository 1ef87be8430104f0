------------------------------- MODULE Vault -------------------------------
(***************************************************************************)
(* A vault on disk, .okf/manifest.json and the blobs under raw/, and the   *)
(* commands that work on it: ingest, delete (soft and --purge), compile    *)
(* and the okf-synthesize-next / okf-synthesize-submit pair.  Each command *)
(* is a process: a CLI invocation or an MCP tool call.  Nothing locks the  *)
(* vault, so a step here is what a command does between two accesses to    *)
(* the disk, and commands interleave between any two steps.                *)
(*                                                                         *)
(* Saving the manifest is one step: SafeWrite.tla looks inside it.         *)
(* The wiki pages a compile writes are left to CompileRun.tla; here a      *)
(* compile matters for the manifest snapshot it holds while the LLM works. *)
(***************************************************************************)
EXTENDS Manifest, FiniteSets

CONSTANTS
    Proc,        \* commands that may be in progress at once
    Ops,         \* the kinds of command this instance runs
    SlugOf,      \* derive_slug: here, of a source whose text has no heading
    MaxRunning,  \* how many commands users run at once: 1 is one shell
    Interrupts,  \* whether a command may be killed or fail half-way
    Torn,        \* what a blob holds between the truncation and the write
    MaxHistory,  \* bound: versions per source
    MaxCommands  \* bound: commands started

OpKind == {"ingest", "tombstone", "purge", "compile", "synthesize"}

ASSUME VaultAssumption ==
    /\ Ops \subseteq OpKind
    /\ SlugOf \in [Uri -> Slug]
    /\ MaxRunning \in Nat
    /\ Interrupts \in BOOLEAN
    /\ Torn \notin Hash \cup {None}
    /\ MaxHistory \in Nat
    /\ MaxCommands \in Nat

VARIABLES
    disk,     \* .okf/manifest.json
    raw,      \* the files under raw/: their content, None where there is none
    cmd,      \* what each command is doing and holds in memory
    jobs,     \* what okf-synthesize-next has handed out, of which sources
    synth,    \* history: for each source, the contents an LLM has synthesised
    started   \* bound: how many commands have been started

vars == <<disk, raw, cmd, jobs, synth, started>>

-----------------------------------------------------------------------------
Step == {"idle", "resolve", "create", "write", "save", "unlink",
         "dispatch", "llm", "mark", "reload", "submit"}

\* What can be read of a blob.
Readable == Hash \cup {Torn}

(***************************************************************************)
(* mem is the manifest a command has loaded and is changing; victims the   *)
(* raw_ids a purge has still to unlink, todo the sources a compile has     *)
(* still to process, hash the version being ingested or what was read of   *)
(* the one being synthesised.                                              *)
(***************************************************************************)
Command == [at      : Step,
            uri     : Uri \cup {None},
            hash    : Readable \cup {None},
            mem     : ManifestType,
            victims : Seq(RawId),
            todo    : SUBSET Uri]

Idle == [at |-> "idle", uri |-> None, hash |-> None, mem |-> EmptyManifest,
         victims |-> <<>>, todo |-> {}]

TypeOK ==
    /\ disk \in ManifestType
    /\ raw \in [File -> Readable \cup {None}]
    /\ cmd \in [Proc -> Command]
    /\ jobs \in SUBSET (Uri \X Readable)
    /\ synth \in [Uri -> SUBSET Readable]
    /\ started \in Nat

(***************************************************************************)
(* The next state of one command: where it is and what it holds.           *)
(***************************************************************************)
Become(p, at, u, h, m, vs, ts) ==
    cmd' = [cmd EXCEPT ![p] = [at |-> at, uri |-> u, hash |-> h, mem |-> m,
                               victims |-> vs, todo |-> ts]]

GoTo(p, at) == Become(p, at, cmd[p].uri, cmd[p].hash, cmd[p].mem,
                      cmd[p].victims, cmd[p].todo)

Stop(p) == cmd' = [cmd EXCEPT ![p] = Idle]

Init ==
    /\ disk = EmptyManifest
    /\ raw = [f \in File |-> None]
    /\ cmd = [p \in Proc |-> Idle]
    /\ jobs = {}
    /\ synth = [u \in Uri |-> {}]
    /\ started = 0

-----------------------------------------------------------------------------
Running == {p \in Proc : cmd[p].at # "idle"}

Begin(p, op) ==
    /\ op \in Ops
    /\ cmd[p].at = "idle"
    /\ Cardinality(Running) < MaxRunning
    /\ started < MaxCommands
    /\ started' = started + 1

IsFile(f) == raw[f] # None

FilesOf(r) == {f \in File : IdOfFile(f) = r /\ IsFile(f)}

(***************************************************************************)
(* resolve_raw_path: the path the manifest on disk records, and when that  *)
(* is not a file, or none is recorded, any file under raw/ with this id.   *)
(***************************************************************************)
Resolved(r) ==
    LET recorded == RawPathsFor(disk, r)
        usable   == {f \in recorded : IsFile(f)}
    IN  usable \cup (IF recorded # {} /\ recorded = usable THEN {} ELSE FilesOf(r))

FileNameFor(u, h) == <<RawIdOf[h], SlugOf[u]>>

(***************************************************************************)
(* trace_source: what okf-trace-provenance may answer of a raw_id that a   *)
(* page cites.  A blob it cannot find, or whose front matter it cannot     *)
(* read, is an answer too.                                                 *)
(***************************************************************************)
Traced(r) ==
    LET found == FirstVersions(disk, r)
        known == IF found = {} THEN {"untracked"} ELSE {v.status : v \in found}
    IN  UNION {IF raw[f] = Torn THEN {"unresolvable"} ELSE known : f \in Resolved(r)}
            \cup (IF Resolved(r) = {} THEN {"unresolvable"} ELSE {})

\* okf-trace-provenance, of a page that cites these.
Provenance(cited) == [r \in cited |-> Traced(r)]

-----------------------------------------------------------------------------
(***************************************************************************)
(* ingest: process_ingest.  The content has been fetched; the manifest is  *)
(* loaded and the version recorded in memory.                              *)
(***************************************************************************)
IngestLoad(p, u, h) ==
    /\ Begin(p, "ingest")
    /\ Len(EntryOrDefault(disk, u).history) < MaxHistory
    /\ Become(p, IF IsNoOp(disk, u, h) THEN "save" ELSE "resolve",
              u, h, RecordIngest(disk, u, h), <<>>, {})
    /\ UNCHANGED <<disk, raw, jobs, synth>>

BlobAt(p, f) ==
    Become(p, "save", cmd[p].uri, cmd[p].hash,
           RecordRawPath(cmd[p].mem, cmd[p].uri, RawIdOf[cmd[p].hash], f), <<>>, {})

(***************************************************************************)
(* write_raw_blob: a file that is there already is reused as it is,        *)
(***************************************************************************)
IngestReuse(p) ==
    /\ cmd[p].at = "resolve"
    /\ \E f \in Resolved(RawIdOf[cmd[p].hash]) : BlobAt(p, f)
    /\ UNCHANGED <<disk, raw, jobs, synth, started>>

\* Wrong on purpose: the manifest is saved before the blob is written.
FreshSavesFirst(p) ==
    /\ cmd[p].at = "resolve"
    /\ Resolved(RawIdOf[cmd[p].hash]) = {}
    /\ BlobAt(p, FileNameFor(cmd[p].uri, cmd[p].hash))
    /\ UNCHANGED <<disk, raw, jobs, synth, started>>

IngestFresh(p) ==
    /\ cmd[p].at = "resolve"
    /\ Resolved(RawIdOf[cmd[p].hash]) = {}
    /\ GoTo(p, "create")
    /\ UNCHANGED <<disk, raw, jobs, synth, started>>

\* Wrong on purpose: the file is created and never filled.
CreateOnly(p) ==
    /\ cmd[p].at = "create"
    /\ raw' = [raw EXCEPT ![FileNameFor(cmd[p].uri, cmd[p].hash)] = Torn]
    /\ BlobAt(p, FileNameFor(cmd[p].uri, cmd[p].hash))
    /\ UNCHANGED <<disk, jobs, synth, started>>

(***************************************************************************)
(* and otherwise fs::write creates it, or truncates it, and then fills it. *)
(***************************************************************************)
IngestCreate(p) ==
    /\ cmd[p].at = "create"
    /\ raw' = [raw EXCEPT ![FileNameFor(cmd[p].uri, cmd[p].hash)] = Torn]
    /\ GoTo(p, "write")
    /\ UNCHANGED <<disk, jobs, synth, started>>

IngestWrite(p) ==
    /\ cmd[p].at = "write"
    /\ raw' = [raw EXCEPT ![FileNameFor(cmd[p].uri, cmd[p].hash)] = cmd[p].hash]
    /\ BlobAt(p, FileNameFor(cmd[p].uri, cmd[p].hash))
    /\ UNCHANGED <<disk, jobs, synth, started>>

-----------------------------------------------------------------------------
(***************************************************************************)
(* delete: a soft delete changes the manifest only,                        *)
(***************************************************************************)
TombstoneLoad(p, u) ==
    /\ Begin(p, "tombstone")
    /\ CanTombstone(disk, u)
    /\ Become(p, "save", u, None, Tombstone(disk, u), <<>>, {})
    /\ UNCHANGED <<disk, raw, jobs, synth>>

(***************************************************************************)
(* and --purge unlinks the blob of every version before it saves.          *)
(***************************************************************************)
RawIdsOf(h) == [i \in 1..Len(h) |-> h[i].raw]

PurgeLoad(p, u) ==
    /\ Begin(p, "purge")
    /\ Tracked(disk, u)
    /\ Become(p, "unlink", u, None, Purge(disk, u), RawIdsOf(disk[u].history), {})
    /\ UNCHANGED <<disk, raw, jobs, synth>>

Unlink(r) ==
    IF Resolved(r) = {}
    THEN UNCHANGED raw
    ELSE \E f \in Resolved(r) : raw' = [raw EXCEPT ![f] = None]

PurgeUnlink(p) ==
    /\ cmd[p].at = "unlink"
    /\ cmd[p].victims # <<>>
    /\ Unlink(Head(cmd[p].victims))
    /\ Become(p, IF Len(cmd[p].victims) = 1 THEN "save" ELSE "unlink",
              cmd[p].uri, None, cmd[p].mem, Tail(cmd[p].victims), {})
    /\ UNCHANGED <<disk, jobs, synth, started>>

-----------------------------------------------------------------------------
(***************************************************************************)
(* compile: the manifest is loaded once, and the selection made on it.     *)
(* diff_only skips a source that a wiki page cites or that is compiled at  *)
(* its current hash; which raw_ids the pages cite is not modelled here.    *)
(***************************************************************************)
SelectSources(m, diffOnly, cited) ==
    {u \in ActiveUris(m) :
        diffOnly => /\ ActiveVersion(m, u).raw \notin cited
                    /\ ~ IsCompiledAtCurrentHash(m, u)}

CompileLoad(p) ==
    /\ Begin(p, "compile")
    /\ \E diffOnly \in BOOLEAN, cited \in SUBSET RawId :
          Become(p, "dispatch", None, None, disk, <<>>,
                 SelectSources(disk, diffOnly, cited))
    /\ UNCHANGED <<disk, raw, jobs, synth>>

(***************************************************************************)
(* compile_one_source reads the blob of the version in the snapshot,       *)
(* whatever it holds, and waits for the LLM; a source whose blob is gone   *)
(* fails.                                                                  *)
(***************************************************************************)
Done(p, u) == Become(p, "dispatch", None, None, cmd[p].mem, <<>>, cmd[p].todo \ {u})

CompileRead(p, u) ==
    /\ cmd[p].at = "dispatch"
    /\ u \in cmd[p].todo
    /\ \E f \in Resolved(ActiveVersion(cmd[p].mem, u).raw) :
          Become(p, "llm", u, raw[f], cmd[p].mem, <<>>, cmd[p].todo)
    /\ UNCHANGED <<disk, raw, jobs, synth, started>>

CompileUnreadable(p, u) ==
    /\ cmd[p].at = "dispatch"
    /\ u \in cmd[p].todo
    /\ Resolved(ActiveVersion(cmd[p].mem, u).raw) = {}
    /\ Done(p, u)
    /\ UNCHANGED <<disk, raw, jobs, synth, started>>

(***************************************************************************)
(* The answer parses and all its operations apply: the on_result callback  *)
(* marks the source in the snapshot and saves the snapshot.                *)
(***************************************************************************)
CompileApply(p) ==
    /\ cmd[p].at = "llm"
    /\ synth' = [synth EXCEPT ![cmd[p].uri] = @ \cup {cmd[p].hash}]
    /\ Become(p, "mark", cmd[p].uri, cmd[p].hash,
              MarkCompiled(cmd[p].mem, cmd[p].uri), <<>>, cmd[p].todo)
    /\ UNCHANGED <<disk, raw, jobs, started>>

CompileFail(p) ==
    /\ cmd[p].at = "llm"
    /\ Done(p, cmd[p].uri)
    /\ UNCHANGED <<disk, raw, jobs, synth, started>>

CompileSave(p) ==
    /\ cmd[p].at = "mark"
    /\ disk' = cmd[p].mem
    /\ Done(p, cmd[p].uri)
    /\ UNCHANGED <<raw, jobs, synth, started>>

CompileEnd(p) ==
    /\ cmd[p].at = "dispatch"
    /\ cmd[p].todo = {}
    /\ Stop(p)
    /\ UNCHANGED <<disk, raw, jobs, synth, started>>

-----------------------------------------------------------------------------
(***************************************************************************)
(* okf-synthesize-next hands the blob of an active version to the client   *)
(* and remembers the source.  It has ended when the client works on it.    *)
(***************************************************************************)
SynthesizeNext(p, u) ==
    /\ Begin(p, "synthesize")
    /\ u \in ActiveUris(disk)
    /\ \E f \in Resolved(ActiveVersion(disk, u).raw) : jobs' = jobs \cup {<<u, raw[f]>>}
    /\ UNCHANGED <<disk, raw, cmd, synth>>

(***************************************************************************)
(* okf-synthesize-submit, another call, applies the answer, loads the      *)
(* manifest afresh, marks whatever version is active by then, and forgets  *)
(* the job when it has saved.                                              *)
(***************************************************************************)
SynthesizeSubmit(p, job) ==
    /\ Begin(p, "synthesize")
    /\ job \in jobs
    /\ synth' = [synth EXCEPT ![job[1]] = @ \cup {job[2]}]
    /\ Become(p, "reload", job[1], job[2], EmptyManifest, <<>>, {})
    /\ UNCHANGED <<disk, raw, jobs>>

SynthesizeMark(p) ==
    /\ cmd[p].at = "reload"
    /\ Become(p, "submit", cmd[p].uri, cmd[p].hash, MarkCompiled(disk, cmd[p].uri), <<>>, {})
    /\ UNCHANGED <<disk, raw, jobs, synth, started>>

SynthesizeSave(p) ==
    /\ cmd[p].at = "submit"
    /\ disk' = cmd[p].mem
    /\ jobs' = jobs \ {<<cmd[p].uri, cmd[p].hash>>}
    /\ Stop(p)
    /\ UNCHANGED <<raw, synth, started>>

-----------------------------------------------------------------------------
(***************************************************************************)
(* manifest::store::save, the last step of an ingest and of a delete: the  *)
(* file is replaced by the whole manifest the command loaded and changed.  *)
(***************************************************************************)
SaveManifest(p) ==
    /\ cmd[p].at = "save"
    /\ disk' = cmd[p].mem
    /\ Stop(p)
    /\ UNCHANGED <<raw, jobs, synth, started>>

(***************************************************************************)
(* A command is killed, the machine crashes, or a call returns an error    *)
(* that `?` propagates: what it did to the disk stays.                     *)
(***************************************************************************)
Interrupt(p) ==
    /\ Interrupts
    /\ cmd[p].at # "idle"
    /\ Stop(p)
    /\ UNCHANGED <<disk, raw, jobs, synth, started>>

Ingest(p) ==
    \/ \E u \in Uri, h \in Hash : IngestLoad(p, u, h)
    \/ IngestReuse(p) \/ IngestFresh(p) \/ IngestCreate(p) \/ IngestWrite(p)

Delete(p) ==
    \/ \E u \in Uri : TombstoneLoad(p, u) \/ PurgeLoad(p, u)
    \/ PurgeUnlink(p)

Compile(p) ==
    \/ CompileLoad(p)
    \/ \E u \in Uri : CompileRead(p, u) \/ CompileUnreadable(p, u)
    \/ CompileApply(p) \/ CompileFail(p) \/ CompileSave(p) \/ CompileEnd(p)

Synthesize(p) ==
    \/ \E u \in Uri : SynthesizeNext(p, u)
    \/ \E job \in jobs : SynthesizeSubmit(p, job)
    \/ SynthesizeMark(p) \/ SynthesizeSave(p)

Next ==
    \E p \in Proc : \/ Ingest(p) \/ Delete(p) \/ Compile(p) \/ Synthesize(p)
                    \/ SaveManifest(p) \/ Interrupt(p)

Spec == Init /\ [][Next]_vars
=============================================================================
