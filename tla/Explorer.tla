------------------------------ MODULE Explorer ------------------------------
(***************************************************************************)
(* The explorer servers of one vault (src/src/explorer/server.rs), started *)
(* by the okf-explore tool (src/src/core/mcp_server.rs), and the pages they*)
(* render (src/src/explorer/render.rs) out of a graph built earlier.       *)
(*                                                                         *)
(* build_graph reads file after file while others write them.  Everything  *)
(* is local to an explorer except the vault; its graph is replaced as a    *)
(* whole.  A session is one client's OkfServer, with its own table of      *)
(* explorers behind a lock that is held across `serve(..).await`.          *)
(***************************************************************************)
EXTENDS PageLinks, Sequences, FiniteSetsExt

CONSTANTS
    Walk,       \* those of this vault in the order they are read: directories, then names
    Texts,      \* what a file may be written to hold: pages, and NoFile
    Raw,        \* raw ids
    Blob, RawIdOf,  \* files under ./raw/, <raw_id>.md or <raw_id>--<slug>.md
    Session, Server, Call, Refresh,
    Nobody,     \* no call, no server
    MaxWrites   \* bound: changes of the vault's files

ASSUME WalkAssumption ==
    /\ Walk \in Seq(File)
    /\ \A i, j \in DOMAIN Walk : Walk[i] = Walk[j] => i = j
    /\ Texts \subseteq Page \cup {NoFile}
    /\ Raw \subseteq Id /\ RawIdOf \in [Blob -> Raw] /\ MaxWrites \in Nat
    \* Ids of raw sources have a prefix that those of pages, tags and other vaults have not.
    /\ \A f \in File : SlugOf[f] \notin Raw
    /\ \A t \in Texts \ {NoFile} : ({l.id : l \in t.wikilinks} \cup t.cross \cup t.tags) \cap Raw = {}
    \* Those of other vaults have a :: in them, and what has is read as one.
    /\ \A t, u \in Texts \ {NoFile} : {l.id : l \in t.wikilinks} \cap u.cross = {}

ASSUME NobodyAssumption == Nobody \notin Session \cup Server \cup Call

VARIABLES
    disk,       \* the page files and the files under ./raw/
    written,    \* how often each page file was changed
    session,    \* is it open, who holds the lock, and its table's entry
    call,       \* okf-explore calls
    server,     \* explorers, and what their graph was built from
    refresh,    \* POST /api/refresh requests
    asked       \* for the properties only: see api_refresh below

Walked == {Walk[i] : i \in DOMAIN Walk}

explorerVars == <<disk, written, session, call, server, refresh, asked>>

Unread == [next |-> 1, pages |-> [f \in File |-> NoFile], raws |-> {}, seen |-> [f \in File |-> 0]]

Bare == [state |-> "none", owner |-> Nobody, graph |-> Unread]

Idle == [at |-> "idle", for |-> Nobody, build |-> Unread]

Answered == [Idle EXCEPT !.at = "answered"]

ExplorerInit ==
    /\ disk \in [pages : {p \in [File -> Texts] : \A f \in Files(p) : f \in Walked /\ p[f].ok},
                raws : SUBSET Blob]
    /\ written = [f \in File |-> 0]
    /\ session = [s \in Session |-> [open |-> TRUE, holder |-> Nobody, listed |-> Nobody]]
    /\ call = [c \in Call |-> Idle]
    /\ server = [e \in Server |-> Bare]
    /\ refresh = [r \in Refresh |-> Idle]
    /\ asked = [e \in Server |-> [since |-> written, kept |-> written]]

-----------------------------------------------------------------------------
(***************************************************************************)
(* What a page request makes of a graph and of the files there are when it *)
(* reads them.  A page's node names the last file read with its slug, a raw*)
(* source's the file it was resolved to; no other node has a file.         *)
(***************************************************************************)
Place(f) == CHOOSE i \in DOMAIN Walk : Walk[i] = f

NodeFile(w, id) == CHOOSE f \in Files(w) :
                       /\ SlugOf[f] = id
                       /\ \A g \in Files(w) : SlugOf[g] = id => Place(g) <= Place(f)

NotFound == [status |-> 404, file |-> NoFile]
BadRequest == [status |-> 400, file |-> NoFile]
Shows(file) == [status |-> 200, file |-> file]

BlobsOf(blobs, id) == {b \in blobs : RawIdOf[b] = id}

\* Of several files of one id: which is not said, for there is no manifest here.
ShowsAnyOf(blobs) == Shows(CHOOSE b \in blobs : TRUE)

\* Wrong on purpose: only nodes of the graph are served.
PageViewOfNodes(graph, now, id) ==
    LET page   == NodeFile(graph.pages, id)
        stored == BlobsOf(graph.raws, id) \cap now.raws
    IN  IF id \in ExistingSlugs(graph.pages)
        THEN IF now.pages[page] # NoFile THEN Shows(page) ELSE BadRequest
        ELSE IF id \in NodeIds(graph.pages)
        THEN IF stored # {} THEN ShowsAnyOf(stored) ELSE BadRequest
        ELSE NotFound

(***************************************************************************)
(* render_page and the status api_page gives its errors: a node that is no *)
(* file, or whose file is gone, is a bad request, also if the raw source is*)
(* back in a file of another name; an id that is no node is not found,     *)
(* unless it is a raw source, which is resolved anew.                      *)
(***************************************************************************)
PageView(graph, now, id) ==
    LET page   == NodeFile(graph.pages, id)
        stored == BlobsOf(graph.raws, id) \cap now.raws
        found  == BlobsOf(now.raws, id)
    IN  IF id \in ExistingSlugs(graph.pages)
        THEN IF now.pages[page] # NoFile THEN Shows(page) ELSE BadRequest
        ELSE IF id \in NodeIds(graph.pages)
        THEN IF stored # {} THEN ShowsAnyOf(stored) ELSE BadRequest
        ELSE IF found # {} THEN ShowsAnyOf(found) ELSE NotFound

(***************************************************************************)
(* What a search hit, a path <<directory, file>>, names: a raw source by   *)
(* its id, a page by its slug.  The search index knows nothing of a graph. *)
(***************************************************************************)
NodeIdForPath(path) == IF path[1] = "raw" THEN RawIdOf[path[2]] ELSE SlugOf[path[2]]

Hit(graph, path) == [id |-> NodeIdForPath(path),
                     in_graph |-> NodeIdForPath(path) \in NodeIds(graph.pages)]

(***************************************************************************)
(* A wikilink leads to the page it names, wherever in it, or to a concept  *)
(* of another vault, which is a node too.  It is drawn as missing unless   *)
(* that is a node which is not.                                            *)
(***************************************************************************)
WikilinkTargets(page) == {l.id : l \in page.wikilinks} \cup page.cross

\* Wrong on purpose: every node is known.
DrawnMissingIfNoNode(graph, id) == id \notin NodeIds(graph.pages)

DrawnMissing(graph, id) == id \notin NodeIds(graph.pages) \ MissingNodes(graph.pages)

(***************************************************************************)
(* Another reader of the same files: the page okf-read-concept finds under *)
(* a name (a path names its own file).  Of several with one slug it is the *)
(* first, where the graph has the last.                                    *)
(***************************************************************************)
FirstOf(files) == CHOOSE f \in files : \A g \in files : Place(f) <= Place(g)

FindConcept(w, id) ==
    LET named == {f \in Files(w) : SlugOf[f] = id}
        older == {f \in Files(w) : w[f].ok /\ id \in w[f].legacy}
    IN  IF named # {} THEN FirstOf(named) ELSE IF older # {} THEN FirstOf(older) ELSE NoFile

ReadConcept(w, id) == IF FindConcept(w, id) = NoFile THEN NotFound ELSE Shows(FindConcept(w, id))

-----------------------------------------------------------------------------
(***************************************************************************)
(* build_graph: every file in turn, then the files of the raw sources the  *)
(* pages cite.  It fails if a file cannot be read, as when it is gone since*)
(* its directory was listed.                                               *)
(***************************************************************************)
\* Wrong on purpose: a page that is in the graph already is not read again.
ReadNextIfNew(build, old) ==
    LET f == Walk[build.next]
    IN  [build EXCEPT !.next = @ + 1,
                      !.pages[f] = IF old.pages[f] # NoFile THEN old.pages[f] ELSE disk.pages[f],
                      !.seen[f] = IF old.pages[f] # NoFile THEN old.seen[f] ELSE written[f]]

ReadNext(build, old) ==
    LET f == Walk[build.next]
    IN  [build EXCEPT !.next = @ + 1,
                      !.pages[f] = disk.pages[f],
                      !.seen[f] = written[f]]

IsRead(build) == build.next > Len(Walk)

\* What the raw sources that pages cite resolve to: one file of each that has any.
Resolutions(w) ==
    {blobs \in SUBSET disk.raws :
        /\ {RawIdOf[b] : b \in blobs} = {RawIdOf[b] : b \in disk.raws} \cap CitedRaws(w)
        /\ \A b, x \in blobs : RawIdOf[b] = RawIdOf[x] => b = x}

Resolved(build) == {[build EXCEPT !.raws = blobs] : blobs \in Resolutions(build.pages)}

-----------------------------------------------------------------------------
(***************************************************************************)
(* okf-explore.  Under the lock, it returns the server in the table unless *)
(* its task has ended, or else binds a port, builds the graph, spawns the  *)
(* task and only then puts it into the table.                              *)
(***************************************************************************)
Ask(c, s) ==
    /\ call[c].at = "idle" /\ session[s].open
    /\ call' = [call EXCEPT ![c] = [Idle EXCEPT !.at = "waiting", !.for = s]]
    /\ UNCHANGED <<disk, written, session, server, refresh, asked>>

IsListed(s) == session[s].listed # Nobody /\ server[session[s].listed].state = "serving"

Reuse(c) ==
    /\ call[c].at = "waiting" /\ session[call[c].for].holder = Nobody
    /\ IsListed(call[c].for)
    /\ call' = [call EXCEPT ![c] = Answered]
    /\ UNCHANGED <<disk, written, session, server, refresh, asked>>

\* Wrong on purpose: the lock is given back before the server is started.
BindUnlocked(c) ==
    /\ call[c].at = "waiting" /\ session[call[c].for].holder = Nobody
    /\ ~ IsListed(call[c].for)
    /\ call' = [call EXCEPT ![c].at = "build"]
    /\ UNCHANGED <<disk, written, session, server, refresh, asked>>

Bind(c) ==
    /\ call[c].at = "waiting" /\ session[call[c].for].holder = Nobody
    /\ ~ IsListed(call[c].for)
    /\ call' = [call EXCEPT ![c].at = "build"]
    /\ session' = [session EXCEPT ![call[c].for].holder = c]
    /\ UNCHANGED <<disk, written, server, refresh, asked>>

Build(c) ==
    /\ call[c].at = "build" /\ ~ IsRead(call[c].build)
    /\ call' = [call EXCEPT ![c].build = ReadNext(@, Unread)]
    /\ UNCHANGED <<disk, written, session, server, refresh, asked>>

\* No address, no port, or a file that cannot be read.
ServeFails(c) ==
    /\ call[c].at = "build"
    /\ call' = [call EXCEPT ![c] = Answered]
    /\ session' = [session EXCEPT ![call[c].for].holder = Nobody]
    /\ UNCHANGED <<disk, written, server, refresh, asked>>

Spawn(c, e) ==
    /\ call[c].at = "build" /\ IsRead(call[c].build)
    /\ server[e].state = "none"
    /\ \E graph \in Resolved(call[c].build) :
          server' = [server EXCEPT ![e] = [state |-> "serving", owner |-> call[c].for,
                                           graph |-> graph]]
    /\ session' = [session EXCEPT ![call[c].for].listed = e, ![call[c].for].holder = Nobody]
    /\ call' = [call EXCEPT ![c] = Answered]
    /\ UNCHANGED <<disk, written, refresh, asked>>

\* axum::serve returned an error.
ServerEnds(e) ==
    /\ server[e].state = "serving"
    /\ server' = [server EXCEPT ![e] = [Bare EXCEPT !.state = "ended"]]
    /\ refresh' = [r \in Refresh |-> IF refresh[r].for = e THEN Answered ELSE refresh[r]]
    /\ UNCHANGED <<disk, written, session, call, asked>>

\* The table is dropped with its JoinHandles, which stops none of their tasks.
SessionEnds(s) ==
    /\ session[s].open
    /\ session' = [session EXCEPT ![s].open = FALSE]
    /\ UNCHANGED <<disk, written, call, server, refresh, asked>>

-----------------------------------------------------------------------------
(***************************************************************************)
(* api_refresh: a graph is built beside the one that is shown and put in   *)
(* its place.  Several may run at once.  asked[e].since is what had been    *)
(* written to every file when the first of those that run was asked for,   *)
(* asked[e].kept the same of the last time one of them was done.           *)
(***************************************************************************)
Refreshing(e) == {r \in Refresh : refresh[r].for = e}

AskRefresh(r, e) ==
    /\ refresh[r].at = "idle" /\ server[e].state = "serving"
    /\ refresh' = [refresh EXCEPT ![r] = [Idle EXCEPT !.at = "build", !.for = e]]
    /\ asked' = IF Refreshing(e) # {} THEN asked ELSE [asked EXCEPT ![e].since = written]
    /\ UNCHANGED <<disk, written, session, call, server>>

Rebuild(r) ==
    /\ refresh[r].at = "build" /\ ~ IsRead(refresh[r].build)
    /\ refresh' = [refresh EXCEPT ![r].build = ReadNext(@, server[refresh[r].for].graph)]
    /\ UNCHANGED <<disk, written, session, call, server, asked>>

RebuildFails(r) ==
    /\ refresh[r].at = "build"
    /\ refresh' = [refresh EXCEPT ![r] = Answered]
    /\ UNCHANGED <<disk, written, session, call, server, asked>>

Rebuilt(r) ==
    /\ refresh[r].at = "build" /\ IsRead(refresh[r].build)
    /\ \E graph \in Resolved(refresh[r].build) :
          refresh' = [refresh EXCEPT ![r].at = "built", ![r].build = graph]
    /\ UNCHANGED <<disk, written, session, call, server, asked>>

Replace(r) ==
    /\ refresh[r].at = "built"
    /\ server' = [server EXCEPT ![refresh[r].for].graph = refresh[r].build]
    /\ asked' = [asked EXCEPT ![refresh[r].for].kept = asked[refresh[r].for].since]
    /\ refresh' = [refresh EXCEPT ![r] = Answered]
    /\ UNCHANGED <<disk, written, session, call>>

-----------------------------------------------------------------------------
(***************************************************************************)
(* The vault's files change under the explorers: pages are written and     *)
(* removed, raw sources ingested and purged.                               *)
(***************************************************************************)
WritePage(f, text) ==
    /\ MapThenSumSet(LAMBDA g : written[g], File) < MaxWrites /\ text # disk.pages[f]
    /\ disk' = [disk EXCEPT !.pages[f] = text]
    /\ written' = [written EXCEPT ![f] = @ + 1]
    /\ UNCHANGED <<session, call, server, refresh, asked>>

ChangeRaws(raws) ==
    /\ raws # disk.raws
    /\ disk' = [disk EXCEPT !.raws = raws]
    /\ UNCHANGED <<written, session, call, server, refresh, asked>>

ExplorerNext ==
    \/ \E c \in Call : \/ Reuse(c) \/ Bind(c) \/ Build(c) \/ ServeFails(c)
                      \/ \E s \in Session : Ask(c, s)
                      \/ \E e \in Server : Spawn(c, e)
    \/ \E e \in Server : ServerEnds(e)
    \/ \E s \in Session : SessionEnds(s)
    \/ \E r \in Refresh : \/ Rebuild(r) \/ RebuildFails(r) \/ Rebuilt(r) \/ Replace(r)
                         \/ \E e \in Server : AskRefresh(r, e)
    \/ \E f \in Walked, text \in Texts : WritePage(f, text)
    \/ \E raws \in SUBSET Blob : ChangeRaws(raws)

ExplorerSpec == ExplorerInit /\ [][ExplorerNext]_explorerVars

-----------------------------------------------------------------------------
(***************************************************************************)
(* "A second call for the same vault returns the existing URL instead of   *)
(* starting another server": however calls of one session overlap, fail or *)
(* find a server that died, every explorer that runs is the one its        *)
(* session would return next.  Once the session is over nobody has it.     *)
(***************************************************************************)
RunningIsListed ==
    \A e \in Server :
        server[e].state = "serving" /\ session[server[e].owner].open =>
            session[server[e].owner].listed = e

(***************************************************************************)
(* "Refresh (rebuilds the graph from disk)": a refresh asked for while     *)
(* none runs is not undone.  Whatever is refreshed at the same time or     *)
(* later, the graph shows every page at least as it was then.  Of two that *)
(* overlap, the one asked for first may be done last and be what is shown. *)
(***************************************************************************)
RefreshIsKept ==
    \A e \in Server, f \in File :
        server[e].state = "serving" => server[e].graph.seen[f] >= asked[e].kept[f]

(***************************************************************************)
(* "So every search hit is openable" is so but for three cases.  A page    *)
(* that the graph did not see, as it was written since its directory was   *)
(* read, is not found.  One that another of the same name hides shows that *)
(* one, or nothing once that is gone.  A raw source that a page cites shows*)
(* only out of the file it was resolved to for the graph.                  *)
(***************************************************************************)
HitsOpen ==
    \A e \in Server : server[e].state = "serving" =>
        LET graph == server[e].graph
            view(path) == PageView(graph, disk, Hit(graph, path).id)
            hides(g, f) == g \in Files(graph.pages) \ {f} /\ SlugOf[g] = SlugOf[f]
        IN  /\ \A f \in Files(disk.pages) :
                  \/ f \notin Files(graph.pages) /\ graph.seen[f] # written[f]
                  \/ /\ Hit(graph, <<"wiki", f>>).in_graph
                     /\ \/ view(<<"wiki", f>>) = Shows(f)
                        \/ \E g \in File :
                              /\ hides(g, f)
                              /\ view(<<"wiki", f>>) = IF g \in Files(disk.pages) THEN Shows(g)
                                                      ELSE BadRequest
            /\ \A b \in disk.raws :
                  \/ \E x \in BlobsOf(disk.raws, RawIdOf[b]) : view(<<"raw", b>>) = Shows(x)
                  \/ RawIdOf[b] \in CitedRaws(graph.pages) /\ b \notin graph.raws

(***************************************************************************)
(* A link within the vault, on a page the graph shows as it is now, is     *)
(* drawn as missing exactly if following it fails.  One into another vault *)
(* never is, though nothing opens unless a page here has that very name.   *)
(* An agent that follows either with okf-read-concept finds a page exactly *)
(* if the explorer does, or a page that parses went by that name once.     *)
(***************************************************************************)
LinksOpen ==
    \A e \in Server : server[e].state = "serving" /\ server[e].graph.pages = disk.pages =>
        LET graph == server[e].graph
            opens(id) == PageView(graph, disk, id).status = 200
        IN  \A f \in Files(disk.pages) : \A id \in WikilinkTargets(disk.pages[f]) :
                /\ IF id \in disk.pages[f].cross
                   THEN ~DrawnMissing(graph, id) /\ (opens(id) <=> id \in ExistingSlugs(disk.pages))
                   ELSE DrawnMissing(graph, id) <=> ~opens(id)
                /\ (ReadConcept(disk.pages, id).status = 200)
                       <=> \/ opens(id)
                           \/ \E g \in Files(disk.pages) :
                                 disk.pages[g].ok /\ id \in disk.pages[g].legacy
=============================================================================
