# okf-mcp in TLA+

`okf-mcp` keeps a *vault*: a directory in which sources (web pages and local files) are ingested as
content-addressed raw blobs, compiled by a language model into a wiki of linked Markdown pages,
checked, bundled, committed to git and searched. It is one binary: a command line, and an MCP server
whose tools are the same operations. This directory holds a model of it, what was checked of the
model with TLC and what was proved of it with TLAPS.

Contents: [the system](#the-system) · [the modules](#the-modules) · [the runs](#the-runs) ·
[fairness](#fairness) · [what is proved](#what-is-proved) ·
[what is only model-checked](#what-is-only-model-checked) · [where the code and its words differ](#where-the-code-and-its-words-differ) ·
[what is not modelled](#what-is-not-modelled) · [plan](#plan) · [running it](#running-it)

Paths like `driver.rs:502` are below `src/src/`.

## The system

Nothing in okf-mcp runs as a daemon beside the commands, and nothing locks a vault. Every command, and
every tool call of the server, loads what it needs from disk, works, and writes back. So the hard
behaviour is where it is in every program of this kind: between loading and saving, between two
files that must agree, and where a process is killed or a step fails half-way.

| Component | State | Operations | What makes it correct |
|---|---|---|---|
| Manifest (`manifest/model.rs`, `hash.rs`) | per URI: history of versions, active hash, hash last compiled | `record_ingest`, `record_raw_path`, `tombstone`, `purge`, `mark_compiled`, queries | one active version at most, statuses and the chain of supersessions agree with it; history only grows |
| Ingest and delete (`ingest/`, `cli/delete.rs`) | `raw/<raw_id>--<slug>.md` | ingest, soft delete, purge | a recorded version has a blob, whole and its own; one file per content |
| File replacement (`manifest/store.rs`, `compiler/operations.rs`) | a file and its `.tmp` | save, remove | a reader sees a whole old or a whole new file |
| Bounded runner (`compiler/concurrency.rs`) | permits, tasks, results | `run_bounded` | never more than the limit, every item once, no new start after a refusal, always returns |
| Compile driver (`compiler/driver.rs`) | the manifest it loaded, pages, marks | a run over the selected sources | only fully applied sources are marked, what succeeded is not redone, the report is true |
| Publishing (`cli/compile.rs`, `link_fix.rs`, `storage/`) | `okf.json`, `wiki/index.md`, git | `--fix`, lint gate, bundle, commit | what is published has no dangling links and is what was written |
| Synthesis jobs (`core/mcp_server.rs`, `synthesize.rs`) | a map of pending jobs with a TTL and a cap | `okf-synthesize-next`, `-submit` | bounded, results meet their jobs, a diligent client gets to "done" |
| Search (`search/`) | text index, SQLite with hashes, sections and vectors | reindex, hybrid search | tables agree, what is skipped is indexed, the index catches up, the ranking is sensible |
| Wiki links (`validator/rules.rs`, `explorer/graph.rs`) | none: functions of the pages | lint, graph and its measures | two readers of the same pages agree; the measures are what their names say |
| Explorer (`explorer/server.rs`, `render.rs`) | a table of servers per session, a graph per server | `okf-explore`, page requests, `/api/refresh` | one server per vault and session, a refresh is not undone, hits and links open |
| Prompt budget (`token_estimate.rs`, `driver.rs`) | none | truncate bodies, drop related pages | fits the budget; nothing dropped that had room |
| Vault registry (`core/vault_registry.rs`, `cli/vault.rs`) | `vaults.toml`, the directories | add, create, remove, delete, default | the default exists; a broken-off delete can be repeated |
| Credentials (`core/credential_storage.rs`, `setup_wizard.rs`, `auth_manager.rs`) | keychain, encrypted file, a copy in a server | wizard, clear, load | the last key saved is the key loaded |
| Configuration (`config_manager.rs`, `setup_wizard.rs`) | environment, `.env`, the local and the global file | the wizard, `load_config` | what is written is what loads; a key is in plain text only if that was asked for |
| Scrape client (`api_client.rs`, `circuit_breaker.rs`, `rate_limiter.rs`, `auth_manager.rs`) | a client per fetch, a cached token per process | `okf-ingest` of a URL | calls are held back, end, and carry the right token |
| LLM provider (`provider.rs`, `test_connection.rs`) | the environment of the process | resolve a provider, load its key, send | a key goes only where it was meant to go |
| The rest | see [what is not modelled](#what-is-not-modelled) | | |

How they interact:

- *ingest* writes a blob, then the manifest (load, change in memory, save whole);
- *compile* loads the manifest once, reads the blobs of the sources it selects, asks the model for
  page operations (several sources at once, through the bounded runner), applies them page by page
  through temporary files, marks each source in the manifest it holds and saves all of it after each;
  then the CLI fixes links, lints, bundles and commits;
- the *synthesis tools* do the same with the client's own model: one call hands out jobs, a later
  one applies the answers and loads and saves the manifest itself;
- *reindex* reads pages and manifest and updates two stores; *search* reads both stores;
- *lint* and the *explorer* read the pages; an explorer keeps the graph it built and looks pages up in it;
- registry, credentials and the global configuration belong to the user and are shared by all vaults;
- a prompt or a fetch takes its key from the environment of its process, or from the store when it is missing there.

What is shared is therefore shared by way of files: the manifest (ingest, delete, compile, submit),
the blobs (ingest, purge, compile), the pages (compile, `--fix`, submit, lint, reindex, explorer), and
the git index. In memory, the tool calls of one server share the map of jobs, the table of explorers, the
`AuthManager` and the environment of the process.
`PROJECT.json` lists the hazards this makes, each at its line, with the properties that cover it.

## The modules

Each component has a module with its state and actions, which ends with the properties of the component, or has a
`...Properties` module for them where they need definitions of their own. Theorems and their proofs are in the
`...Proofs` modules, each for one component or for a few that stand close. An `MC...` module gives the constants values.

| Component modules, each extending the one before it | Implements | Properties in | Proofs in | Checked in |
|---|---|---|---|---|
| `Manifest`, `Vault` | `Ledger` | `VaultProperties` | `VaultProofs` | `MCVault`, `MCSerial`, `MCRaces` |
| `Wiki`, `CompileRun`, `Publish` | | `CompileRunProperties`, `PublishProperties` | `CompileProofs` | `MCPublish`, `MCSerial` |
| `Wiki`, `Synthesize` | | `SynthesizeProperties` | `SynthesizeProofs` | `MCParts` |
| `SearchIndex`, `Search` | | `SearchProperties` | `SearchProofs` | `MCRaces` |
| `RunBounded` | `ForLoop` | its own | `PartsProofs` | `MCParts` |
| `SafeWrite` | `Register` | its own | `PartsProofs` | `MCParts` |
| `CircuitBreaker`, `Fetch` | | their own | `PartsProofs` | `MCParts` |
| `PromptBudget` | | its own | `PartsProofs` | `MCSerial` |
| `Provider` | | its own | `PartsProofs` | `MCHome` |
| `VaultRegistry` and `Credentials`, `Home` | | their own | `HomeProofs` | `MCHome` |
| `Settings` | | its own | `HomeProofs` | `MCHome` |
| `PageLinks`, `LinkGraph` | | `LinkGraphProperties` | `ExplorerProofs`, `BrandesProofs` | `MCExplorer` |
| `PageLinks`, `Explorer` | | its own | `ExplorerProofs` | `MCExplorer` |

`MCSerial`, `MCRaces`, `MCParts`, `MCHome` and `MCExplorer` each hold several components that share no state. A
variable `part`, chosen at the start, says which of them a behaviour is about; the others stand still in one
initial state. So each run is the union of the state spaces of its parts, not their product.

Some modules define an operator just before the one it resembles, such as `DeliverOkBatched` or
`RemovedOnly`: a plausible mistake in the same place (the manifest saved once at the end, the default
not cleared). No specification uses them. Each property of each run is tried against one of them in
place of the real definition and is violated by it, so that no property is one the code could not
break; `PROJECT.json` lists the pairs under `mutants`.

### The vault: Manifest, Vault, Ledger

`Manifest.tla` has the transitions of `model.rs` as functions from manifests to manifests, under the
names of the code: `RecordIngest`, `Tombstone`, `Purge`, `MarkCompiled`, `RecordRawPath`. A version is
its hash, raw id, status, successor and blob; time stamps and reasons are left out, as nothing reads them.
`raw_id` is the first digits of the hash, so `RawIdOf` may map two hashes to one raw id; in the runs it
does not.

`Vault.tla` puts them beside the disk. A command is a process in `Proc` with its own copy of the
manifest (`cmd[p].mem`), and a step is what it does between two accesses to the disk:

- ingest: `IngestLoad` (load, `record_ingest`), `IngestReuse` or `IngestFresh` (`resolve_raw_path`
  finds a file or not), `IngestCreate` and `IngestWrite` (the blob is created empty, then filled),
  `SaveManifest`;
- delete: `TombstoneLoad`, or `PurgeLoad` and `PurgeUnlink` file by file; then `SaveManifest`;
- compile: `CompileLoad`, `CompileRead`/`CompileUnreadable` per source, `CompileApply`/`CompileFail`
  when the model answers, `CompileSave` after each, `CompileEnd`. What is read is what the file holds,
  a truncated blob included, not what the manifest says of it;
- synthesize: two commands with anything between them. `SynthesizeNext` hands out what the file holds and ends; `jobs`
  remembers what was handed out. `SynthesizeSubmit` applies an answer, then `SynthesizeMark` loads the manifest and marks
  what is active by then, then `SynthesizeSave` saves it and drops the job;
- `Interrupt`: the process is killed, or the step fails and the command returns, anywhere.

`Ledger.tla` is what a vault promises, with no files, statuses or steps: for each source the contents
it had, whether it is live, what it was last compiled at; ingest, delete, purge and the mark of a compile are one step
each. A late submit may also mark a retired source, which leaves it marked at nothing (`Understand`). `ImplementsLedger` is the refinement, with `LedgerView(disk)` as the mapping: a command takes
effect when it saves.

### Saving a file: SafeWrite, Register

One action per system call of `ManifestStore::save` and of a page write: create or truncate the `.tmp` beside
the file, write, rename. Names refer to inodes and so do open descriptors, so that a writer whose temporary file
was renamed under it goes on writing to what is by now the real file. `Register.tla` is an atomic
register; `IsAtomic` is the refinement. `Exclusive` says whether saves overlap.

### The bounded runner: RunBounded, ForLoop

`run_bounded` step by step: the caller primes the window, joins a task, calls `on_result`, spawns
the next; tasks run, release their permit (when the permit is dropped) and end (when the task is
joinable) as two separate steps, or panic. `ForLoop.tla` is the comment of `concurrency.rs` as a
specification: with a limit of one it is a plain loop.

### Compiling and publishing: Wiki, CompileRun, Publish

`Wiki.tla` says what a page is to everything that reads it back: which sources it cites and which pages
it links to. `CompileRun.tla` is a sequence of runs: `Select` (all, or those not marked and not cited),
`StartSource`, `Respond`, `ApplyOp` page by page, `DeliverOk`/`DeliverErr` (the callback of the
runner: mark, save, go on or refuse), `FinishSources` (the index), `Kill`. In place of `RunBounded` it
has what is proved there: in order, at most `Window` in flight, each delivered once, none started
after a refusal. `Publish.tla` adds `report_and_commit`. What the last lint found is a state of its own, `linted`: the lint that ends
`compile()`, the one `--fix` works through, the one after it (`cli/compile.rs:131`). `FixPage` takes the missing
pages of that list one by one, `Gate` asks for failures and then for `linted`, and only `WriteBundle` (`:174`) and `Commit` look
at the pages themselves, with git reduced to an index, tracked paths and a last tree.

### Synthesis jobs: Synthesize

The tool calls of a session overlap and share the map of jobs, locked for each look and each change,
not across a call. `NextBatch` reads the vault and picks a batch; `Mint` takes a number from `synthesize_job_counter`, which
all calls of the session share and which starts at 1 (`mcp_server.rs:398`, `:557`); `Insert` evicts (TTL, then cap) and
adds. `Submit` holds a list of results; each is looked up (`Lookup`), applied operation by operation (`ApplyOperation`), then the manifest is
loaded and marked (`LoadManifest`) and saved whole (`SaveManifest`), and the job removed (`Settle`); `ApplyFails` is
any of them failing. So two submits can lose each other's marks here, as two commands can in `Vault.tla`. `handed` is what the
client was given, so that the model can answer a job twice, late or after it expired. The counter never starts over in the code;
in the run it does when no number is in use anywhere (`StartOver`), to keep the states finite while jobs go on being asked for.

### Search: SearchIndex, Search

`SearchIndex.tla` has a reindex statement by statement: collect the documents, replace the text
index in one commit, then for each document compare the hash, store it, delete vectors, delete sections, and
insert each section and its vector. A vault that changes (`Change`) runs beside it and `Fail` ends it
between any two statements. `Search.tla` has a search as its two fetches, with any relevance order, and
`rrf_merge` with fractions in place of floating point.

### Links: PageLinks, LinkGraph, Explorer

`PageLinks.tla` has what lint and the graph make of the same files as operators (they differ in slugs,
anchors, pages that do not parse, directories). `LinkGraph.tla` runs Brandes and the iterative Tarjan
over the graph, one action per turn of a loop. `LinkGraphProperties.tla` defines the same measures from
paths and from reachability.

`Explorer.tla` has sessions with their table of explorers and its lock (`Ask`, `Reuse`, `Bind`, `Build`, `Spawn`,
`ServeFails`: the lock is held across `serve`), servers that end, and refreshes that overlap. A graph is built file by
file (`ReadNext`) while others write (`WritePage`), so it can show a vault that never was; `seen` is a count of
the writes to each file, to tell which version was read. A graph also keeps the file each cited raw source was resolved to when it was built
(`Resolved`; there may be several under one raw id, `Blob` and `RawIdOf`), and a page request opens that file and no other
(`PageView`). What a search hit is opened as is `Hit`, what links a page has is `WikilinkTargets`, those into other vaults
(`[[other::x]]`) included, how a link is drawn is `DrawnMissing`, and what an agent reads is `ReadConcept`.

### Prompts: PromptBudget

What one source's prompt contains, in characters and estimated tokens: `Share` the budget among the
bodies (`AddPage` having collected the related pages), `DropPage` until it `Fits`, `Send`.

### What leaves the process: CircuitBreaker, Fetch, Provider

`CircuitBreaker.tla` is the breaker and the limiter as operators on values, then as tasks that share one client
with a clock. `Fetch.tla` uses the same operators for the client each fetch makes: `okf-ingest` waits in a queue for
the lock of the `AuthManager`, reads a local file or takes a token (`Authorize`: the header of its caller, the cached
one, the exported one, the saved one), enters the breaker and sends, and sends again when there is no answer. The process
is a command line or a server on stdio or on HTTP, with the transport its configuration names, which need
not be the one it was started with.

`Provider.tla` resolves a model to a provider (overrides of the vault, the custom providers, the caller),
finds the variable of its key, loads a saved key into it when it is not meaningfully set (`LoadSavedKey`, then `SetVar`)
and reads it again when the request is built (`Send`). Prompts overlap, as the sources of a compile do.

### The home directory: VaultRegistry, Credentials, Home, Settings

`VaultRegistry.tla` has the vault commands with their load, the truncation and the write of `vaults.toml`, and the
steps on the directory (`Scaffold`, `Unlink`, `UnlinkFails`). `Credentials.tla` has both stores, the wizard
account by account, clear, and `AuthManager` with what a server keeps. `Home.tla` runs them side by side.

`Settings.tla` has the layers of `load_config` as functions and the wizard question by question: custom providers and keys
in the order they are given, `SaveNewKeys`, one `AnswerReveal` for each key, then `WriteDotenv` or
`WriteConfigYaml` or none. `LoadConfig` fails as a whole when one setting is not valid, as after an edit by hand
(`EditFile`). `.env` is read by the operator's shell, which the wizard tells them to do: `Sourced` is what the shell makes of it,
`InShell` of each value, which is written without quotes. Environment variables have names that the code derives: `UrlEnv`
and `NameIn` are the two directions, and need not be inverse to each other. `agreed` is a history: the keys that the last run
which asked for them and wrote `.env` let into it.

## The runs

`PROJECT.json` lists them; every one of them finishes. All say `CHECK_DEADLOCK FALSE`, because every
system here may stop: users stop typing commands, a run of compile ends, the bound on commands is
reached. No run has a state constraint; bounds are in the guards and named. Two runs use symmetry, of sets that
nothing in their modules tells the members of apart, and check no liveness: `MCHome_commands` (directories, prompts) and
`MCExplorer_readers` (explorers, calls, refreshes, the files of the raw source).

| Run | Asks | Bounds | States |
|---|---|---|---|
| `MCSerial_one_process` | One process at a time, killed or failing anywhere. *vault*: is it the ledger? `DiskConsistent`, `ImplementsLedger`. *compile*: two runs with faults and `--fix`: `MarkedIsApplied`, `ReportIsTrue`, `NoRework`, and what is published: `BundleIsClosed`, `CommitIsWiki`. *prompt*: `PromptFits`, `NothingCutNeedlessly` | 2 sources, 2 contents, all kinds of command, 6 commands, 3 versions per source; 3 sources, 2 pages, window 2, 2 runs; budget 5 tokens of 3 characters, bodies up to 22 characters, 3 pages | 2 860 000 |
| `MCRaces_two_at_once` | Two at once. *vault*: two commands, none killed and nothing purged: `RecordedBlobExists`, `RecordedBlobIntact`. *index*: a reindex broken off anywhere, searches and a changing vault: `TablesAgree`, `HashMeansEmbedded`, `ConsensusRespected`, `CatchesUp` | 4 commands; 2 documents of up to 2 sections, limit 1 | 909 000 |
| `MCVault_lost_update` | *expected violation*: `HistoryAppendOnly` when a compile and ingests overlap | 3 commands | |
| `MCVault_traced` | *expected violation*: `ActiveIsTraced` when a source returns to a content it had | 3 ingests | |
| `MCVault_marked` | *expected violation*: `CompiledIsSynthesised` when a source is ingested again between `okf-synthesize-next` and `-submit`, one call at a time | 6 commands | |
| `MCPublish_uncommitted` | *expected violation*: `HeadIsClosed` | 2 sources, window 1, 2 runs, no `--fix` | |
| `MCParts_each` | *runner*: every order of ends, panics and refusals: `BoundedInFlight`, `OncePerItem`, `Ends`. *writer*: saves that exclude each other, interrupted anywhere: `IsAtomic`. *breaker*: `CallsAreHeldBack`. *fetch*: `RequestsCarryTheRightToken`, `EveryIngestEnds`. *jobs*: overlapping synthesis calls: `ResultMeetsItsJob`, `JobsReachDone` | 5 items, limit 3; 2 writers, 3 contents, 3 inodes; 2 tasks, threshold, limit, period and reset 2, 5 ticks; 2 ingests, 2 tokens, 1 retry, 1 change of the saved token; 1 source, 2 pages, 2 calls, 2 numbers that start over, cap 1, batch 1, one passing of the TTL | 464 000 |
| `MCParts_breaker` | *expected violation*: `BreakerOpens` | 3 ingests, threshold 2 | |
| `MCExplorer_readers` | *graph*: `BetweennessIsExact`, `ArticulationIsCut`, `LintAgreesWithGraph`. *explorer*: `RunningIsListed`, `RefreshIsKept`, `HitsOpen`, `LinksOpen` | two families of wikis of up to 4 pages; 3 files with one text or none, 2 files of a raw source, 2 explorers, 2 calls, 2 refreshes, 2 writes | 484 000 |
| `MCHome_commands` | *home*: `DefaultIsRegistered`, `BrokenOffDeleteCanBeRetried`, `SavedIsLoaded`. *settings*: `WhatWasWrittenLoads`, `ProvidersStay`, `RevealIsOptIn`. *provider*: `KeysAreVouchedFor`, `ConfiguredIsKeyed` | 2 shells, 2 names, 2 directories, a user and a server, 2 accounts, 2 secrets, 4 commands; Firecrawl and 2 custom providers, 2 runs of the wizard or edits, a value the shell does not take; 3 providers, 2 vaults, 2 prompts, 1 change of a saved key | 2 456 000 |
| `MCHome_one_variable` | *expected violation*: `RevealIsOptIn` when two providers share a variable | as *settings*, 1 endpoint, 2 keys | |
| `MCHome_declined` | *expected violation*: `DeclinedIsRemoved` when a later run writes another file | as *settings*, 1 endpoint, 2 keys | |

Why the bounds are enough for the case in question to happen:

- **Vault.** A second source matters because the sources of a vault share blobs when their contents
  are equal; a second content, because a source must change, come back to what it had, and differ from
  another; a third version, because that is the shortest history that goes to another content and back.
  Six commands are enough for ingest, change, delete, ingest again, compile and purge in any order. For
  interleavings three commands suffice: one that holds an old snapshot, one that changes the disk, and one
  before them so that there is something to change.
- **runner.** More items than the limit, so that respawning happens, and a limit above two, so that
  more than one task is under way when one is refused.
- **writer.** An inode for the file, one for the temporary file, one left over by an interrupted
  save.
- **compile.** Three sources with a window of two: one is in flight and one has not started when one is
  refused. Two runs: one leaves something behind and one meets it. Two pages: a link needs two ends.
  Responses are nothing, a page, a page with a link, two pages, a removal.
- **jobs.** A cap of one with a batch of one makes two calls evict each other's jobs. One source
  and two pages give a job of either kind and a dangling link after it. Two numbers: the job that is out and the one a second
  call makes beside it; a third is only made when both are settled, expired or evicted and nobody holds them.
- **index.** Two documents share sections, so that hits tie and both lists overlap; one document
  shrinks, so that sections must go; one comes and goes. A limit of one makes a fetch
  of two of the up to three embeddings.
- **graph.** Every undirected graph of five nodes is among those with tags as the fifth node, and
  five nodes are enough for two shortest paths of length two, for cuts at the root of a Tarjan tree and below, and
  for cycles that hide one. The second family has what is read differently: one slug in two
  directories, files that do not parse, anchors, self-links, raw sources and links to other
  vaults. `ExactMax` is larger than any graph here, as 4000 (`BETWEENNESS_EXACT_MAX`) is larger than most wikis; with `ExactMax` 3 and two
  pivots, the sampled sources, the same run passes too.
- **prompt.** An odd budget, so that the half is rounded; bodies below, at and above the half, the
  budget and twice the budget; pages of no tokens, few and more than the budget.
- **home.** Two of everything that can be confused with another of its kind, and four events: save, lose
  the keychain, save again, look.
- **breaker.** A threshold of two and two tasks: one call is under way when the other opens the breaker, and comes back while it is
  open or half open. Five ticks: open, wait, try, open again.
- **fetch.** Two calls, so that one waits and finds what the other cached; two tokens, so that two callers over HTTP
  differ and a saved token differs from the exported one; one retry.
- **explorer.** Two files of one name in two directories, the case where a page hides another; two refreshes, so that the
  one that read first can store last; two writes, one before and one after a file is read. The text links to a page
  that is there, one that comes and goes, one by its former name, none, and a concept of another vault, and cites a raw source of which
  there may be no file, one, or two: the shortest way to have a graph that knows a file that is gone while another is there.
- **settings.** Two runs: one leaves something in a file or in `.env` and one meets it. One value that
  is a number and one that is not, for a setting that must be one. One endpoint that a shell makes nothing of. Two endpoints, so that a name can change its own.
- **provider.** One provider of each kind: known with a key, known without key and endpoint, custom. A vault
  makes two of them share a variable, the case where a key loaded for one is there for the other.

The seven expected violations are the findings listed in `PROJECT.json`:

1. `MCVault_lost_update`. `manifest/model.rs:96` says the history is append-only. `compile_sources` loads the manifest
   once and saves it whole after every source (`driver.rs:502`). An ingest in between, by another terminal or by
   a tool call of the same server, is recorded, saved, and gone with the next save of the compile; its
   blob stays. The counterexample: a compile loads, an ingest saves a version, the compile saves.
2. `MCPublish_uncommitted`. `cli/compile.rs:74` says a broken run's state must never land in git history
   and `:81` that such a source is only bundled and committed by "a subsequent clean run". The clean run stages only the
   paths *it* touched (`:175`), so pages of the earlier run stay uncommitted, and pages that link to
   them are committed without them.
3. `MCVault_traced`. `find_version` (`model.rs:237`) returns the first version with a raw id. A source that is ingested as A, B
   and A again has an active version that `okf-trace-provenance` reports as superseded by B; its
   description (`mcp_server.rs:879`) promises "each source's current manifest status".
4. `MCVault_marked`. `okf-synthesize-submit` marks what is active when it is called (`mcp_server.rs:649`), whatever body was handed
   out. A call hands out A, an ingest records B, a submit applies the answer to A and marks B: nobody has synthesised B, and a
   diff compile skips it. `model.rs:50` calls the hash the one "at which this source last *fully* compiled without error".
   No two commands overlap in this.
5. `MCParts_breaker`. A client, and with it a breaker and a limiter, is made for every fetch (`ingest/web.rs:17`).
   Whatever failed before, the next fetch is sent, while the repository's `README.md:300` says the breaker "opens after 5
   consecutive failures". `CallsAreHeldBack` is what the breaker and the limiter do for whoever keeps a client.
6. `MCHome_one_variable`. Two custom providers whose names differ in a `-` for a `_` have one environment
   variable, and the answers of the wizard are kept by variable (`setup_wizard.rs:565`): yes for the key of one writes
   the key of the other, for which the answer was no. The comment there (`:543`) calls the question the sole gate.
7. `MCHome_declined`. A key that was let into `.env` and is declined in a later run is taken out of it, by the comment at
   `setup_wizard.rs:727` so that no plain text stays "stale on disk". But only the branch that writes `.env` does so (`:746`): a run that is
   told no and writes `config.yml`, or prints, leaves the key where it was. `RevealIsOptIn` promises only what is left.

## Fairness

Safety properties need none. Liveness is checked of four components, in runs with several parts:
the fairness of a component asks nothing of behaviours that are about another (`RunnerFairness`, `FetchFairness` and `JobsFairness`
in `MCParts`, `part = "index" => IndexFairness` in `MCRaces`). Each of its conjuncts is about one actor:

- `RunBounded`: weak fairness of the caller (its task is polled by the runtime when what it awaits is
  there), of a task's release of its permit and of its end. That the tasks end at all is what the caller
  of `run_bounded` must provide: the provider's HTTP client has a timeout. Panics and refusals are never forced.
- `Synthesize`: weak fairness of each tool call, step by step (the server runs it to its end), strong fairness of asking for
  more and of submitting all that was handed out: this is the client, and what the tool description tells it to do
  (`mcp_server.rs:544`, "Call repeatedly"). Strong, because it is only possible while a call is free. And not everything that is
  submitted fails to apply for ever: if infinitely often something is being applied, then infinitely often something was.
  `ReachesDone` has two more premises, stated in it: at last the client asks for more only when all jobs are settled (otherwise with
  a cap this small it can evict its own jobs for ever), and it is not for ever answered "fix" without a job. What follows is that it is
  told "done" again and again. `JobsReachDone` is `ReachesDone` for the behaviours of `MCParts` that are about jobs.
- `SearchIndex`: weak fairness of a reindex under way and strong fairness of starting one with
  embeddings, which is the user who goes on calling `okf-reindex`. `CatchesUp` says what follows when documents at some point
  stop changing and no reindex is broken off any more.
- `Fetch`: weak fairness of the step an ingest is at, `Proceed(c)`: the server runs it on, and a send that gets no
  answer is ended by the timeout of `reqwest` (`api_client.rs`). Nothing says that a send succeeds. `EveryIngestEnds` is what
  the queue of the lock gives on top of that.

## What is proved

Forty theorems in eight modules, for every value of the constants that satisfies the named
assumptions of the modules. TLC evaluates those assumptions in the runs,
and the properties listed with the theorems in `PROJECT.json` are checked by them on small instances. Every property of
a passing run is proved but the four that [stay with TLC](#what-is-only-model-checked). A theorem that needs more than the
assumptions of its module says so in an `ASSUME`, and where we know that the property fails without it, the text below says so.

**`VaultProofs`, the manifest.** `RecordIngest`, `Tombstone`, `Purge`, `MarkCompiled`, `RecordRawPath` keep a
manifest consistent: well typed, statuses agreeing with the active hash, the chain of supersessions
linked, blobs named after their raw id. Stated per entry, then lifted to manifests. Assumes only that
the sentinels are not hashes or raw ids. These are the lemmas the next theorems cite.

**`VaultProofs`, the vault.**
- `AlwaysConsistent`: `Spec => [](TypeOK /\ DiskConsistent)`. What is on disk was in some
  command's memory before, so `DiskConsistent` alone is not inductive: `VaultInv` adds that
  every command's snapshot is consistent (`CommandConsistent`). It holds under every
  interleaving and interruption, lost updates included: overlapping commands lose each other's versions, but
  never leave a manifest that contradicts itself.
- `RecordedBlobsStay`: without purges, every recorded version has a blob.
  `BlobInv` says it of every snapshot, but for the one blob its command has yet to write; the order of
  `process_ingest`, blob first and manifest second, is what makes it inductive.
- `BlobsAreIntact`: what a recorded version resolves to is that version, or is being written at this moment: if no
  command is killed half-way and no two contents share a raw id. `ContentInv` says it of every file, recorded or not: it
  has the content its name says, or a command stands at its write. Purges and any number of commands at once are allowed.
- `VaultIsALedger`: one command at a time (`MaxRunning <= 1`), interrupted anywhere, `Spec => ImplementsLedger`, the whole
  refinement. `SerialInv` is that at most one command is not idle (`Alone`) and that what it is about to save is one step of
  the ledger away from the disk (`Serves`, with `Succeeds` for that one step). Every transition of the manifest
  is shown to be such a step, one lemma each, and a save then takes it.
- `HistoryOnlyGrows`: with the same invariant, `HistoryAppendOnly`, which `MCVault_lost_update` violates with two commands. So what
  the comment in `model.rs:96` says is true exactly as long as commands do not overlap.

**`CompileProofs`**: any sources, pages, runs, window and answers; faults and kills anywhere.
- `OnlyAppliedIsMarked`, `ReportsAreTrue` and `NothingIsRedone` share `RunInv`: `Accounted` says of every source of
  a run under way that it is waiting, in flight or reported, and of those reported well that they are on disk or that a
  save failed; a task that is done applied everything it was answered.
- `BundlesAreClosed`: the lint that decides is older than `okf.json`, and what it says is still true of the pages described there. `BundleInv` says so
  from the end of `compile()` on: what `linted` has are the broken links there are, unless `--fix` is at work, which ends with a lint of its
  own. This is where the order of `report_and_commit` comes in: each of its steps either leaves the pages alone or lints after
  it. It is said of one command: pages written by another one between the lint and the bundle are not in this model.
- `CommitsAreWhole`: `CommitInv` says where the pages that differ from the last commit are noted: in what the run touched,
  with a task in hand, or in what `--fix` wrote; and after a source that failed there is no commit to be wrong. That the index
  is regenerated before `--fix` is the exception the property has.

**`SynthesizeProofs!ResultsMeetTheirJobs`**: any calls, ids, sources and pages, jobs that expire, are crowded out,
or are answered twice. Numbers are not assumed to be new: they come from the counter, and `JobInv` says that it is above every number that
still is anywhere, in the map, with the client or in a call under way (`IdsAreTaken`), so that each means one job (`IdsMeanJobs`); a call about
to apply a result holds the job of that number; what is marked, and what a call is about to save as marked, was answered.

**`PartsProofs`, the bounded runner.** `BoundedAndOnce`: at most `Window` tasks spawned and not joined, a permit at hand
whenever one is waited for (so the loop cannot hang on the semaphore), each item reported once, and after
a refusal only the siblings in flight. `ToldOncePerItem`: when the call returns, every item has been reported exactly once, and
after a refusal nothing is dispatched any more. `BoundedInv` counts: permits left and permits held are the window,
held permits belong to spawned tasks, tasks are spawned in order. `LimitOneIsForLoop`: with a window of
one, `Spec => Loop!Spec`; its strengthening is that at most the last item spawned is unreported.

**`PartsProofs`, saving a file**: `OneAtATimeIsAtomic`: if saves exclude each other, the file is never partial and
implements the register, interrupted wherever. `AtomicInv`: one writer at most is under way, the temporary
file is never the inode the file's name refers to, and its content is what its stage says.

**`PartsProofs`, prompts.** `PromptsFit` and `NothingIsWasted`, for any budget, characters per token,
bodies and pages. The work is in lemmas on rounded division: `Tokens` is monotone and subadditive,
cutting to a budget gives at most the budget, the two shares add up to it. `Inv` is a case per stage.

**`SearchProofs`.** `TablesAlwaysAgree` (`SearchSpec => []TablesAgree`) and `HashesMeanEmbedded` (`SearchSpec =>
[]HashMeansEmbedded`), for any documents, contents, sections and reindexers, each broken off at any statement, and searches
beside them. Both assume `Exclusive`: with two reindexes that embed at once they fail. `Staged` says what the rows of a
document are at every statement of `replace_sections` (so many sections listed, so many embedded, the rest gone) and `OneEmbeds`
that no second reindexer is at such a statement, so that the stages of the others do not depend on the tables. That deleting
only the vectors whose key is in table `sections` deletes all of a document is `VectorsHaveSections` itself.
`MergesRespectConsensus` is `ConsensusRespected`, for any two lists of hits and any limit. `Sorted` is a choice, so it has to be shown that
there is something to choose: each member of a finite ordered set has a place of its own, one after as many as are before it
(`PlacesAreDistinct`). Scores are fractions, compared crosswise (`AheadOrders`, `PlusMonotone`).

**`HomeProofs`.** `TypeCorrect`, `DefaultStaysRegistered`, `KeysAreKept`, `DeletesCanBeRetried`. `HomeInv`:
every registry in a command's memory has its default among its vaults, as the one on disk has; what
is known of a key is in the store a load looks at first, the other one being empty; while a directory is being
unlinked, its vault is registered if users wait for each command.

**`HomeProofs`, configuration**: any settings, providers, files and environment variables, and any number of runs of the wizard.
- `OnlyLetInIsInDotenv`: a key in `.env` was let in by the last run that asked for it and wrote `.env`. `WizardInv` says of a run under way
  that it has one answer per provider, that the keys of all it newly adds were asked for, and that what it offers to reveal is
  among those. It needs `KeysOfTheirOwn`, that no two owners have one variable.
- `WrittenIsLoaded`: `WhatWasWrittenLoads`, whichever of the files was chosen and whatever the layers above and below say, valid or not:
  what could be loaded still can, and if it can, what the wizard wrote is what is found. From `.env`, a shell stands in between: a value counts
  only if the shell takes it as it is, an endpoint only if its variable is read back as its provider's name. It needs
  `SettingsOfTheirOwn` and `NamesComeBack`.
- `ProvidersAreMerged`: a file that is written keeps its custom providers and those of the layers above it. Those of a lower file
  it may hide: that is [how the layers are merged](#where-the-code-and-its-words-differ).
- The names of variables are parameters, and what the code's prefixes and suffixes do for them are those three hypotheses. The
  names in `MCHome_commands` have all of them; those in `MCHome_one_variable` have not the first, and there `RevealIsOptIn` fails.

**`PartsProofs`, requests**: which secrets leave the process, for any numbers of providers, vaults, prompts, callers and keys.
`PromptKeysAreVouchedFor` (`ProviderSpec => []KeysAreVouchedFor`) is said of a request that is out; `KeyInv` says it of
the variable the key was read from (`VariablesVouched`), of what the operator exported (`ExportedStays`) and of a key between the
store and the variable (`LoadsVouched`, with `SavedIsEverSaved`). It needs that the variable a provider's key is kept in is
computed the same way each time, and nothing of the order of prompts. `ConfiguredProvidersAreKeyed` follows a prompt
through its stages: `KeyedInv` says what the variable holds at each. `ScrapesCarryTheRightToken`: `TokenInv` says that
what is cached is the operator's, that a server on HTTP has the transport that passes over the cache, and that a
call that may be sent has the right token; the work is at `Authorize`, the other steps carry its result along.
`BreakerAndLimiterHold` is `CallsAreHeldBack`, for any thresholds, limits and times: `BreakerInv` says
that a breaker that is not closed opened when the last failure came in, late failures included, and is half open only
after its time (`NothingCallsAnOpenBreaker`). `LimiterInv` says that the calls let through within the window can be paired off with
the time stamps the limiter keeps, so that counting these (`FS_PigeonHole`) counts those.

**`ExplorerProofs`, the explorers**: any numbers of sessions, calls, explorers, refreshes and files. `OneExplorerPerSession`
(`ExplorerSpec => []RunningIsListed`): `LockInv` says that a call that starts an explorer holds the lock of its session
and found none listed, so no other call of that session can be as far. It holds because the lock is kept across `serve(..).await`.
`RefreshIsNotUndone` (`ExplorerSpec => []RefreshIsKept`): `RefreshInv` says of every refresh under way that each file it
has read was read after the first of those that overlap was asked for, and of every graph that it shows
no file as it was before the last that was done. So it does not matter which of them puts its graph in place last.
`HitsOpenButThree`: whatever was written, ingested or purged since the graph was built, a search hit opens but in the three cases
[listed below](#where-the-code-and-its-words-differ), and the theorem says which file is shown in each. `LinksAreAsDrawn`: where the graph shows a page
as it is now, a link within the vault is drawn as missing exactly if following it finds nothing; one into another vault never is, and opens only
if a page here has that very name. `ShownInv` says of every graph, shown or being built, that it has only pages the walk of the
directories comes by, and that a file which was read and not written since is in it as it is (`Sound`).
They use that ids of raw sources have a prefix no other id has, and those of other vaults a `::` (`WalkAssumption`).

**`ExplorerProofs`, the graph**: any pages, and so any graph. `ReadersAgree` is `LintAgreesWithGraph`: a fact about the operators of `PageLinks`, which read the same pages in two
ways. Each of the two readings is characterised link by link first (`BrokenLinkOf`, `WikilinkDrawn`, `SourceDrawn`).

`BridgesAreCuts` (`GraphSpec => []ArticulationIsCut`): when `structural_metrics` is done, a node is marked exactly if without it two
of its neighbours are in different pieces. The property speaks of the end only, so all the work is in the
invariant `TarjanInv`, which has to hold at every turn of the loop.
- What was found so far falls apart into the trees that are done, the nodes on the stack, and one *zone* behind each node of the
  stack: what was found after it and before the next one (`Located`). A zone links only into itself and to nodes of the stack up to its own
  (`ZoneIsClosed`), because a node is left only when all its neighbours were looked at (`ToppedOut`).
- Each node of the stack carries what its numbers mean for its zone (`NodeInv`): the zone hangs on it (`Hangs`); its low point is the time of
  something the zone links to (`LowIsReal`) and not later than anything on the stack the zone links to (`LowIsLeast`); if it marks the
  node before it, that one cuts, and if not, the zone is linked to what comes before (`Judged`). `ChildCuts` and `ChildLinked` are the two
  directions of `low[v] >= disc[u]`; the root counts its children instead (`RootJudged`), which depth first search makes different pieces.
- Once a node is off the stack its mark is final (`Decided`), and once a tree is done, all of it (`BetweenTrees`).
- The first sections prove this of depth first search in the abstract; then the code's stack of frames with a position in a list of neighbours is
  shown to be such a search (`PathOf`, `ScanOf`), and each action of `LinkGraph` one of its steps. The clock is the number of nodes
  found (`Clocked`), so that `Unseen`, the number of all nodes, is never the time of one.

It assumes that a wiki has finitely many nodes (`GraphAssumption`). What can be reached is said without recursion:
`Reach` is what is in every set that no link leads out of.

**`BrandesProofs`**: any pages, and so any graph, of any size, above and below `BETWEENNESS_EXACT_MAX`. `BetweennessMeasured`
(`GraphSpec => []BetweennessIsExact`): the sums that Brandes' accumulation leaves are those of the definition, in which
every pair of nodes is looked at by itself and paths are counted as walks of the least length there is one of. `BrandesInv` says, loop by loop:
- *Forward.* `Breadth`: what was visited and what is queued are what has a distance, nearest first, the queue spans at most two
  distances, and no link of a visited node leads past the next distance. `Counting`: the predecessors of a node are the visited neighbours one nearer, and its number of paths is the sum of theirs. At the end the graph is
  `Layered`, and in a layered graph the walks of the least length are as many as the sums say (`LayerCount`).
- *Backward.* `HandedOn`: every node has been handed by those below it that were taken so far what the source depends on it for through them, and, as the order
  ends with the farthest, a node that is taken has been handed all of it (`HandsOn`, `DependencyIs`). That a path to a target through a node is a path
  to the node and one onward, `Onward`, counts the walks from the other end, which uses that links have no direction (`StartsAnyhow`).
- *Outside.* `Summed`: the sum of a node is over all sources before this one, and this one too once the node was taken; sources
  are every `Stride`-th node (`SourcesStep`).

Sums over finite sets come first: that of the community modules is a recursive function, of which it has to be shown that there is one
(`SumIsThere`); then any element can be taken first (`SumTake`). What holds of every number of links or of every part of
a set is shown of the least counterexample (`Upwards`, `FiniteDescent`). The theorem assumes that `Scale` is a multiple of every number of shortest paths
in the wikis looked at (`ScaleAssumption`): finitely many wikis always have one, and with it the whole numbers of the model are the
fractions that the code has floating point numbers for. Rounding is not modelled.

## What is only model-checked

- *Liveness* (`Ends`, `JobsReachDone`, `CatchesUp`, `EveryIngestEnds`): TLAPS does not prove liveness under fairness, nor
  anything of `ENABLED`.
- What a theorem excludes by its hypotheses (purges, kills, overlapping commands, shared raw ids, shared variables), TLC has
  looked at; where a property then fails, the next section says how.

## Where the code and its words differ

Seven disagreements are runs of their own, listed [above](#the-runs). The others below were met while modelling. Each is reproduced by
changing what is named, or is an exception that a property makes, or is left out of the model as described. The list is what
we know of; there may be others in what is not modelled.

**The vault.**
- *A purge takes a shared blob.* With one content in two sources, a purge of one unlinks the blob of
  the other (`pipeline.rs:158`): `RecordedBlobExists` fails, one command at a time. Hence no purge in `MCRaces_two_at_once`.
- *A torn blob stays.* A kill between creation and write leaves a truncated file (`frontmatter.rs:295`), which
  later ingests of that content take for the blob (`:242`, `:249`): `RecordedBlobIntact` fails with
  `Interrupts`. A compile reads what there is of it (`driver.rs:227`) and marks the source compiled at the hash of the whole:
  `CompiledIsSynthesised` fails with `compile` and `Interrupts`, one command at a time.
- *Two files for one raw id.* Two ingests of one content from two sources at once (`frontmatter.rs:270`
  against `:251`) leave a blob under each of two names.
- *A purge undone.* A compile that loaded before a purge saves the entry back (`driver.rs:502`).

**Saving a file.** With `Exclusive = FALSE`, `IsAtomic` fails: the second writer truncates the
temporary file the first is about to rename (`manifest/store.rs:29`), although `store.rs:21` promises
that a concurrent reader never sees a partial file. Two sources of one run may write one page so.

**Compiling and publishing.**
- *Half-applied sources are done.* A source whose first page was written before it failed or was killed is
  cited by that page, and a diff-only run skips every cited source (`driver.rs:222`). The comment there
  (`driver.rs:199`) means the citation as a safety net for vaults older than `compiled_hash`; it also
  overrules a missing mark.
- *An index without `--fix`.* `wiki/index.md` is regenerated before `--fix` writes pages
  (`cli/compile.rs:121`); `CommitIsWiki` excepts it.
- *A diff that is not one.* The comment on `--diff` (`cli/compile.rs:24`) says it shows what would be
  compiled; it lists every active source, also those a run would skip as compiled (`driver.rs:222`).
- *A removal of an untracked page* makes `git add` refuse all paths (`cli/compile.rs:175`): the commit is
  skipped with a message.

**Synthesis jobs.**
- *"fix" for ever.* The batch is cut before missing pages without grounding are skipped
  (`synthesize.rs:201`): if those come first, every answer is "fix" without a job, while `mcp_server.rs:544` says
  to call until "done". `ReachesDone` excepts it.
- *One unreadable source* among the first fails every batch (`synthesize.rs:164`); `Unreadable` is
  empty in the run.
- With `diff` false the phase is "compile" for ever. A result in two submits at once is applied twice. Two submits at once can lose
  one of the marks (`mcp_server.rs:646`-`650`), and the source is handed out again.

**Search.**
- The hash is stored before the sections are embedded (`query.rs:182`), so a reindex that breaks off there
  leaves a document that later ones skip as unchanged. `cut` remembers those documents; `HashMeansEmbedded` and
  `CatchesUp` except them.
- `remove_document` (`vectors.rs:177`) is never called: embeddings of deleted documents are still found.
- Two reindexes with embeddings at once (`Exclusive = FALSE`) violate `TablesAgree` and
  `HashMeansEmbedded`, and can leave keys that make later reindexes fail.

**Prompts.** A comment near `driver.rs:304` says that the estimate is at most the budget by construction; it can
still exceed it by the truncation markers (`token_estimate.rs:103`), which `PromptFits` allows. A truncated text can be longer
than the original. Once a body is truncated, every related page is dropped. Prompts of `--fix`
(`link_fix.rs:154`) have no budget.

**Links.** Lint does not strip anchors, so `[[slug#Heading]]` is broken for lint and for `--fix`, and resolved in
the graph (`graph.rs:125`). Lint counts a page's link to itself, so a page only linked by itself is no
orphan, although `rules.rs` says "that no other page links to". Sources that name no raw id are missing
for lint and ignored by the graph. Links without a target (`[[#Heading]]`) are left out of the model, and so is a
wikilink spelled like another kind of id, a raw id among them, which would give two links for one pair.

**The explorer.**
- `render.rs:213` resolves raw sources that are no node "so every search hit is openable". Three kinds of hits still do not open, or open
  as something else, until the next refresh: a page that was written since the graph was built is a 404; one that another of
  the same name hides shows that one, or a 400 once that is gone; and a raw source that pages cite is a node with the file
  it was found in when the graph was built, so if it was not in any file then, or was purged and ingested under another slug, it is a 400
  though it is there. `HitsOpen` excepts these three and nothing else.
- A link into another vault is a node of the graph, drawn as known (`render.rs:77`, `:261`), but following it is a 400 and
  `okf-read-concept` finds nothing. `LinksOpen` says so.
- Of two pages of one name the graph shows the one that comes last in the order of the directories and
  `okf-read-concept` the first (`mcp_server.rs:283`). Both find *a* page, which is what `LinksOpen` says.
- Two refreshes that overlap can leave the graph of the one asked for first (`explorer/server.rs:341`): `RefreshIsKept`
  promises a refresh only what was there when it was asked for alone.
- Explorers go on running after their session is over; nothing stops them.

**The home directory.**
- `delete_credential` stops when the keychain says there is no entry (`credential_storage.rs:171`), so
  a key saved to the file while the keychain was away survives `credentials clear`, which deletes "the
  matching keychain/encrypted-file entries" by the repository's `README.md:310`; and a key saved to the file
  is shadowed by an older one in the keychain. `SavedIsLoaded` promises nothing once that may be so.
- A fetch saves back what it loaded (`auth_manager.rs:109`), over a save or a clear in between. A
  server holds its key as long as it runs.
- Two processes that save to the encrypted file lose one of the keys; one killed while writing it
  loses all. The file is one step in the model.
- Overlapping vault commands lose updates; one that loads while `vaults.toml` is truncated starts from an
  empty registry. `DefaultIsRegistered` holds all the same. A delete killed between the directory and the
  registry leaves an entry without a directory, a create killed midway a directory that create refuses.

**The scrape client.** Only errors in sending are retried, not error statuses (`api_client.rs`). One lock is held through a
whole ingest, its retries included (`mcp_server.rs:437`), so ingests of a server run one after another. A command line whose
configuration says `http` has no header to take a token from, and cannot ingest a URL.

**Configuration.** `custom_providers` is merged as one setting: the first written to a file hides all of a lower
file. If one setting is not valid (`config_manager.rs:167`) nothing at all is loaded, what the wizard has just written included, and the wizard
starts as if nothing was configured. `ProvidersStay` and `WhatWasWrittenLoads` say what holds all the same. Values in `.env` are not quoted
(`setup_wizard.rs:734`), so a shell that sources it may make something else of one, or of none. A provider's name need not survive
the way through the name of its variable.

**Elsewhere.** The comment in `provider.rs` (`seed_env_from_credential_storage`) that no concurrent work touches the
environment when it sets a variable does not hold in the server, whose tool calls overlap. Two first appends to the wiki log at once both write its header.

## What is not modelled

| Part | Why |
|---|---|
| Frontmatter repair and report | Text in, text out. `Publish.tla` has the repair as a step that may write any page. |
| Health checks, shutdown | No component is ever registered (`main.rs:282`). |
| Wiki log | Appended to, never read back by the program. |
| Vault lookup, path sandbox | Pure functions on paths; only the list of content directories is used (`KindOf` in `PageLinks.tla`, `Walk` in `Explorer.tla`). |
| `okf-read-index`, `okf-list-vaults`, `run_tool` | They print a file; log lines, counters and error texts. The other tools are commands in the modules above. |
| HTTP transport | What a request brings to `okf-ingest` is in `Fetch.tla`; CORS, the health and metrics routes and the sessions of the library are not. |
| Explorer pages | `Explorer.tla` has which page is shown and how links are drawn; not the HTML, the Host header, the info route. |
| Command line | Parsing of arguments, log files, tracing. |
| Configuration | The layers below the global file, which nothing writes; flags, which no command passes; what `config` prints. A quote in a value of `.env` that is not closed spoils the lines after it too: in the model a value only spoils itself. |
| Credentials | The encryption, a torn or damaged file, empty tokens. |

Abstractions inside the modelled parts that a reader should know of:

- time: TTLs expire when `Age` says so; only `CircuitBreaker.tla` has a clock;
- contents: hashes, slugs, names, sections and keys are values without structure; a page is what it
  cites and links to; a prompt is lengths;
- `Vault.tla` takes which raw ids the pages cite as an arbitrary set; `CompileRun.tla` computes it, with fixed
  sources. The two are not composed: one varies the manifest, the other the pages;
- lint in `Publish.tla` is its broken links, the one kind of error that depends on the order of writes;
- nothing else writes pages or `okf.json` while a run lints, bundles and commits. In the code another command may, between the
  lint (`cli/compile.rs:131`) and the bundle (`:174`) as anywhere else, and then `BundleIsClosed` need not hold;
- the MCP server's `okf-compile` ends a run without publishing (`ToolEnds`).

## Plan

Done, in this order: the vault (manifest, ingest, delete, snapshots) with its proofs; the bounded runner and
file replacement, which everything else relies on; the compile driver and publishing; synthesis jobs;
search; links; prompts; the home directory; the scrape client and the model providers with their proofs; configuration and the wizard;
the explorer; then the proofs of what TLC had checked so far, of compiling, publishing, synthesis jobs, configuration, the
explorer, the limiter, the refinement of the ledger, the articulation points, and betweenness.

What is left, in this order:

1. *The step from an action property to what a user sees*: that a source which was compiled, and not changed since, is
   skipped; that a run after a broken one takes up what is left.
2. *Composition*: `Vault.tla` and `CompileRun.tla` over one wiki, so that what the pages cite is computed
   while the manifest changes.
3. *The encrypted file in two steps*, as `vaults.toml` is.

## Running it

In this directory, with TLC and TLAPS (1.4.5) and the community modules at hand:

```
tlc -workers 2 -config MCSerial_one_process.cfg MCSerial
tlapm VaultProofs.tla
```

Each `.cfg` is named after its module. The longest run takes about four minutes with two workers.
