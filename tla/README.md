# Dawn: a verification project

TLA+ models of the parts of this repository where order, concurrency and
failure decide whether the program is right, TLC configurations that check
them on small instances, and TLAPS proofs that hold for every instance.

Most of the repository is a compiler, which is a function from text to text
and is well served by its test gates.  The parts modelled here are the ones
tests reach badly: the Playground's language service (a browser client, a
WebSocket gateway and a language server, each with queues, timers and work in
flight), the Playground's runner (admission slots shared by processes that may
be cut off or killed), the external run of the gates (worker threads, locks, a
controller that dies) with the publication of its result and everything that
relies on it, a web application whose turns run in a worker while its reader
clicks and types, and the package cache that several `dawn` processes fill at once
with the resolver above it.  What is not modelled, and why, is in sections 1 and 8.

1. [Inventory](#1-inventory)
2. [How the parts interact](#2-how-the-parts-interact)
3. [Modules, state and actions](#3-modules-state-and-actions)
4. [Runs, bounds and what they show](#4-runs-bounds-and-what-they-show)
5. [Fairness](#5-fairness)
6. [Proofs](#6-proofs)
7. [Where the code and its comments disagree](#7-where-the-code-and-its-comments-disagree)
8. [Order of work and what is left](#8-order-of-work-and-what-is-left)

Paths below are relative to the repository's root.

## 1. Inventory

### Modelled

| part | code | state it keeps | operations | what is hard | what makes it correct |
|---|---|---|---|---|---|
| gateway: admission and session life cycle | `playground/lsp_gateway.py` `Gateway`, `Session.run`, `graceful_child_stop` | counters of handshakes and sessions, set of connection tasks, a child process per session | accept, upgrade, admit or refuse, start the child, end the session, stop the child step by step, SIGTERM | a cancellation at any await; a slot must outlive its child; the drain at shutdown; a socket that outlives its task | counters exact; slots bound the children; every slot returns; a signal stops the gateway unless a client leaves what it was sent unread |
| gateway: relay | the same file, `ClientProtocol`, `Session`'s pipes | session state, version, request table, which of two documents the buffer is | `from_client`, `from_child`, the end of a session | requests, publishes and document switches cross in two pipes; either side may write anything | a legal LSP session on the child's side, every answer owed, the last text diagnosed |
| language server | `selfhost/src/lsp/server.dawn` `run_lsp` | documents, pending sync, inbox, lifecycle | read, debounce, read ahead, cancel, every kind of message | reading and acting interleave with arrivals; one analysis is deferred past others | answers about the text asked of, each once; publishes never go back |
| language client | `site/play-ui/src/lsp.ts` `DawnLspClient` | connection, retry budget, generation, sync in flight, queries | connect, fail, retry, edit, publish, query, timers | events of abandoned sockets; edits during a sync; answers that come late | marks and answers are about the text on screen; nothing waits for ever |
| runner: gate and jobs | `playground/src/play/gate.dawn`, `exec.dawn`, `job.dawn`, `host.dawn` | slot files and their locks, processes, systemd units | poll, take, refuse, run a phase, cut it off, stop its unit, finish | the lock follows a descriptor over `exec` and `fork`; units are outside every process group | a permit covers the unit; slots are a pool; each request ends |
| external gates: a run | `scripts/gates-external/runner.py`, `backend_local.py`, `bundle.py`, `gatesplan.py` | a thread per job with an event, results, the backend's jobs, lock files of literal paths | submit, take, wait for the needs, run action by action, lock, time out, crash, kill, resume, run again, build the bundle | few workers and jobs that wait for others; two processes on one path; a controller that dies between two steps | complete means every gate ran and passed; a job is told the truth about its needs; a run ends |
| external gates: evidence | `publish.py`, `verify_note.py`, `release_evidence.py`, `.github/workflows/{verify-external,gates,ci,release}.yml` | the notes ref and its copies, verify runs, the commit status, runs of `ci.yml`, the release guard | publish, merge, dispatch, watch, re-run; verify and post; plan, supersede, end; read and decide; verifications, notes and statuses by hand | every read is of something another machine writes; runs overtake one another; any note may be put on any commit and submitted | releases, skipped gates and re-runs only for commits whose gate set passes; no note is lost |
| reconciler | `packages/tea-core/src/diff.dawn`, `tree.dawn` | none: two trees give a list of patches | `diff`, `apply` | indices that earlier ops have shifted | `apply(old, diff(old, new)) = new` |
| web application in a worker | `packages/tea-dom/js/{remote,dom,worker,reactor}.mjs`, `src/reactor.dawn`, `src/route.dawn` | the document, the queue of turns, the model and the tree held, fetches going | queue, send, answer, refuse, apply, put back, supply a fetch, restart | addresses and texts go stale while a turn is in flight | events reach what the reader touched; typing is not rolled back; the page comes to rest |
| package cache | `compiler-plan/src/pkgfetch.dawn`, `url_pkg_root` of `source.dawn`, `selfhost/src/pkg/add.dawn` | entries named by their content, a record of urls beside each, the failures a run remembers | ask, look, verify, check the origin, fetch, publish, record | no lock; processes race, die and find what others left; urls move, people edit | no url is believed unseen; no damaged tree is handed out; nobody fails because of another |
| dependency resolver | `compiler-plan/src/source.dawn` `select_url_deps`, `resolve_src_deps` | requirements by name, what each package is called, mirrors that work, links | walk, select, link | names come from what was fetched, in an order, from mirrors that may fail | one copy per name; every requirement met; nothing lost without a word |

### Not modelled

| part | code | state, operations and interactions | why not |
|---|---|---|---|
| runner: HTTP front | `playground/src/play/serve.dawn`, `routes.dawn`, `answers.dawn`, `warm.dawn` | one process per socket connection: read a request, route it, go through the gate, write the answer; a store of answers | PlayGate begins where a request enters the gate; before it nothing is shared |
| Tea core: commands, subscriptions | `packages/tea-core/src/cmd.dawn`, `sub.dawn` | commands folded to a bound, timers with elapsed time | DomRemote chooses the outcome of a turn freely, whatever was folded |
| terminal runtime | `packages/tea-term/src/` | one loop: read, fold, repaint | sequential; compared with recorded screens by its gates |
| HTTP exchange | `packages/web/src/`, `packages/web-jvm/src/` | one exchange per connection: status, headers, body, and a body's early end | sequential but for a body that ends early |
| analysis memo | `selfhost/src/driver/incremental.dawn` | steps of earlier analyses and what each of them read | its correctness is that of the recorded reads, a property of the checker; LspServer takes an analysis as a function of the texts |
| C runtime | `runtime/c/dawn_rt.c`, `std/io.dawn` | reference counts, slabs, `io_run` and its signals, staged writes | sequential memory management, for which the sanitizer gates are the better tool; the gap between `io_run`'s spawn and the store of the pid is named in its own comment |
| language queries | `selfhost/src/lsp/lspq.dawn` and its siblings | none: an analysis and a position give an answer | their content is the language's rules; LspServer models when they are asked and of which text |
| front end, checker | `selfhost/src/front/`, `selfhost/src/check/` | none outside one run | functions from text to trees to diagnostics |
| Core IR, backends, GPU | `selfhost/src/ir/`, `selfhost/src/c/`, `selfhost/src/jvm/`, `packages/tileir/`, `packages/tileinterp/` | none outside one run | code generators and interpreters, compared with one another by the repository's gates |
| standard library, leaf packages | `std/`, `packages/json` and others | persistent data, codecs | pure; the hash trie and the vector are candidates for bounded checks |
| command line, site, page, editor | `bin/dawn`, `selfhost/src/main.dawn`, `site/`, `editors/` | arguments, rendering | glue |
| scripts of the gates, benchmarks, deployment | `scripts/`, `playground/deploy/` | each of them runs a compiler on inputs and compares, measures or installs | most of the repository's Python by lines: sequential checks of the compiler's output, whose content is the language's; their scheduling, locking and results are GateRun |

## 2. How the parts interact

```
 browser                   gateway (one asyncio loop)           child process
 LspClient  -- WebSocket --  LspGateway: admission, life  -- 2 pipes --  LspServer
                             LspRelay:   what passes
 visitor  -- HTTP --  front process -- gate.sh -- job -- timeout, sh -- systemd unit
                                    PlayGate: slots, processes, units
```

* The browser holds one buffer and speaks LSP over a WebSocket.  The gateway
  lets through an allow-list of it, and gives the child one of two documents:
  the untitled buffer, or the main file of a project whenever the text uses the
  `tileir` package.  Closing the session closes the child's stdin and starts
  the escalation that ends the child.
* The child is `dawn lsp`: one process, one loop, no threads.  It has to
  interleave what arrives with what it does by polling its stdin.
* The runner has no daemon.  Each request is a process started by a systemd
  socket; the only state requests share is a directory of slot files, locked
  with `flock`.  What a job runs is in units of its own, which the service
  manager starts and ends.
* Both services admit work by a bounded pool.  `SlotPool` says what a pool
  promises; the gateway keeps it in an integer and the runner in file locks, and
  each model is shown to implement it.
* A maintainer's machine runs the jobs of `gates.yml` and gets a bundle
  (GateRun).  `publish.py` signs it into a git note and pushes the notes ref that
  several machines share; `verify-external.yml` verifies the note and writes a
  commit status; the plan job of a pull request skips every gate when it accepts
  that status, and the release guard takes it, or a green push run, as proof
  (GateEvidence).  Anyone who may push can write a note and dispatch the verification
  of any commit.  The bundle is the only thing that passes between the two.
* A tea-dom application may live in a worker.  The page owns the document and the
  order of turns, the worker the guest and its model; requests, replies and finished
  fetches cross as messages.  The patches of a reply are the reconciler's.
* Every `dawn` command that resolves dependencies does so in its own process; what
  they share is the directory of the package cache (PackageCache).  The resolver
  (UrlDeps) asks it one question per requirement, twice for the one it selects.

## 3. Modules, state and actions

One step of a model is what the code does between two points at which another
process or task may act: between two awaits in the gateway, between two
callbacks in the client, between two polls of stdin in the server, one system
call's effect in the runner.  `[mutant]` definitions are the code with a
plausible bug, used to show that each property can fail; no specification uses
them.

### SlotPool

A set of `holders`, never more than `Slots`, which clients join and leave one at
a time.

### LspGateway

`pc[c]` is the await at which connection c's task is parked, `active`,
`handshakes` and `tasks` are the fields of `Gateway`, `admitted` and
`handshaking` the task's two local flags, `child[c]` the server process,
`cancel` the tasks into which `serve()` has thrown a cancellation that has not
been delivered, `server` and `batch` where `serve()` is.  `lingering` are the
accepted sockets without a task: `writer.wait_closed()` timed out or was cancelled while
bytes were still to be sent.

| actions | code |
|---|---|
| `Connect`, `Start`, `Upgrade`, `BadUpgrade`, `HandshakeOver`, `Accepted`, `Leave` | `Gateway.connection` from the listener to its `finally` (`Finish` is the synchronous part of it; `WriterLeft` says what becomes of the socket) |
| `Spawn`, `End`, `Gathered`, `Closed` | `Session.run` |
| `Asked`, `Reaped`, `WaitTimeout`, `StopCommandOver`, `TermTimeout`, `KillTimeout` | `Session.graceful_child_stop`, one timeout at a time |
| `Deliver` | asyncio throws the cancellation at the await where the task is parked |
| `Signal`, `CloseListener`, `NextBatch`, `Stopped` | `Gateway.serve` |
| `ChildExit` | the child's process ends, for any reason |
| `PeerGone` | the client reads the rest or its connection breaks: a lingering socket closes |

Left out: what a running session relays (LspRelay), and HTTP parsing, which is
`Upgrade` or `BadUpgrade`.  Only a session that had a child may leave bytes unsent: a
refusal fits the buffers of a socket.  A connection name is used again after its task
ended, its socket is closed and, so that no child is forgotten, its child is gone.
`server.wait_closed()` is that of the Python versions that wait for the accepted
transports (3.12 and later; the code's own comment reckons with 3.14).

### LspRelay, LspRelayAny, PlaygroundSession

LspRelay holds `ClientProtocol`'s fields (`state`, `initialize_id`, `version`,
`marked`, `in_project`, `pending`), the message budget, the two pipes and the
WebSocket's outgoing side, and the close code.  One action per method of the
allow-list (`Initialize`, `Initialized`, `DidOpen`, `DidChange`, `Request`,
`NotOffered`), one per kind of child frame (`Publish`, `InitializeAnswer`,
`Response`, `Unexpected`), and the ends (`Invalid`, `TooManyMessages`,
`ChildGone`, `TimeUp`, `StopChild`).

It is used in two compositions.  `LspRelayAny` puts a browser and a child on its
sides which may write anything: what the session guarantees whoever it talks to.
`PlaygroundSession` puts a browser that keeps to the rules on one side and
instantiates **LspServer** as the child on the other, sharing the pipes
(`stdin <- toChild`, `stdout <- fromChild`): what only the pair can get right.

Abstractions: a text is its version and whether it uses the project; positions
and labels are gone and with them the shape checks, so any message that fails
one is `Invalid`; the close codes 1002 to 1009 are one; the message rate limit,
like every other timer, is `TimeUp` or `Invalid` whenever it likes; a frame is
written and read whole; a send that fails because the socket has gone is the
close event come earlier.  A configuration without `tile_uri` is the sub-case in
which no text uses the project.

### LspServer, LspServerClient

`stdin`, `inbox`, `reading`, `cancelled`, `unflushed`, `pending` are the loop's
variables in `run_lsp`, `docs` and `lifecycle` those of `LspState`; `ready` says
whether the project's workspace is `Ready` or `Unavailable`, and `problems` which files
nobody has open, a package's and the manifest, have diagnostics in it.

| actions | code |
|---|---|
| `Take`, `Debounce`, `ReadAhead`, `BatchOver` | the loop: blocking read, readiness poll with a pending sync, read-ahead, end of a batch |
| `Sync`, `DidClose`, `DidSave`, `ReadText`, `ReadAnalysis`, `Cancelled`, `Inert` | a dispatched message, by how it uses the pending text (`update_of`, `msg_class`) |
| `Initialize`, `BeginShutdown`, `OutOfTurn`, `Malformed`, `Stop` | `lifecycle_gate` and the reader's errors |

A text is its version; an analysis is "this text was analysed, and these URIs
are published" with a free choice of whether the package file has problems.  Setting
a project up (`Activated`: on opening, on a save that retries, on a changed manifest) works or
fails freely; a failed refresh keeps the workspace that was there.  `DidSave` is also
`didChangeWatchedFiles` of a manifest, which does the same.
`LspServerClient` adds any client of one of the `Profiles`: every mixture of its
message kinds, about its documents (`profile` is chosen at the start).
Left out: what the queries compute and the program they keep for references,
diagnostics published early and then not repeated, several projects at once, exit codes.

### LspClient

`statusValue`, `connection`, `socket`, `retryCount`, `reconnectTimer`,
`generation`, `diagnosedGeneration`, `inFlight`, `queryEpoch` are the fields of
`DawnLspClient`; `query[q]` is how far one call of `queryWith` has come; `wire[c]`
what is in flight on connection c, so that an abandoned socket's events and
messages can still arrive.  `heard` and `spent` are history variables.  Actions:
`Start`, `Reconnect`, `Stop`, `Closed`, `HandshakeFails`, `Opened`, `Update`,
`DiagnosticsTimeout`, `Dropped`, `Ready`, `Unpaired`, `ReceiveDiagnostics`,
`Garbage`, `Ask`, `QueryTimeout`, `Request`, `Response`; `Serve` and `Repeat`
are the environment.  Left out: publishes without a version, which are taken for the
sync in flight; this server sends one for every open document.  Every action that handles an event has the guard
`EventLoop`: the promise callbacks of the event before it (a query whose text has
just been analysed) run first, as microtasks do.

### PlayGate

`front[r]` is the request's process, `gate[r]` the process that starts as
`gate.sh` and becomes the job by `exec`, `tried`, `polls` and `slot` the script's
variables, `child[r]` the command the job waits for, `unit[r][p]` the systemd unit
of phase p.  A slot is locked while a process with its descriptor lives
(`Holds`), which is not the same as "while the job lives": that is the point of
the model.

| actions | code |
|---|---|
| `Start`, `Answer` | `through_gate` |
| `TakeSlot`, `PassSlot`, `ScanFails` | the gate script (its sleep of a quarter of a second lies in `PassSlot`) |
| `StartPhase`, `Returns`, `Deadline`, `Stop`, `Stopped` | `run_timed` and `TIMED_SH`, and the unit's stop by its name |
| `Finish` | `job_main` |
| `UnitStarts`, `UnitEnds`, `KillJob`, `KillService` | systemd and the kernel |

What a phase computes, its files and its output are left out.  A unit whose
owner was killed or whose stop failed is `loose`: nobody waits for it any more,
and `RuntimeMaxSec` of the unit is what ends it.  `loose` is the stated exception
of `PermitCoversUnit`.  `idle` watches the slots during a pass and is a history
variable.

### GateRun

`thread[j]` is where the worker of job j is in `run` (runner.py), `results`,
`done` and `told` are its `results`, events and `needs_results`; `job[j]`, `at[j]`,
`failed`, `late`, `green`, `held` and `proc` are one call of the backend's `run_job`.
The two are apart because a controller may die while a RESUMABLE backend goes on.
`passed` is a history variable: what a process has really ended with.

| actions | code |
|---|---|
| `Take`, `Call`, `StoreResult`, `SetDone` | `run` in a worker thread, in the submission order `SubmittedBefore` |
| `PassOver`, `Lock`, `Exec`, `Reap`, `TimeOut`, `Setup`, `Upload`, `JobOver`, `Crash` | `run_job` of `backend_local.py`, one action of the job at a time |
| `ProcessEnds`, `OrphanEnds` | the process of a step, with and without a controller |
| `Finish` | `main` once every future is done, with `bundle.completeness` |
| `Kill`, `Resume`, `Rerun` | the end of the controller; `--resume`; the local backend run again |

`Complete` looks at every run step of every job and never at a job's `ok`, as the
code does.  Left out: reading `gates.yml` (a plan is a constant), the prefix a
backend puts before a command, the leak filter, and what is printed.

### GateEvidence

`stage[p]` is how far one use of `publish.py` has come, `local[p]` its copy of the
notes, `behind` who would be refused a fast-forward; `verify` and `born` are the
runs of `verify-external.yml`, `status[s]` the latest status, `ci[s][e]` the newest
run of `ci.yml` per event, `guard[s]` the release's `verified` job.

| actions | code |
|---|---|
| `Prepare`, `Push`, `Merge`, `Dispatch` | `prepare` and `publish` |
| `Appear`, `Watch`, `Evidence`, `List`, `Cancel`, `Settle`, `RerunCi` | `rerun_ci` |
| `RunAppears`, `VerifyNote`, `PostStatus`, `VerifyEnds` | `verify-external.yml` with `verify_note.py` |
| `PushMain`, `OpenPullRequest`, `Supersede`, `PlanGates`, `CiEnds` | `ci.yml` and the plan job |
| `ReadRuns`, `Decide` | `release_evidence.decide`: the runs first, the status after them |
| `DispatchByHand`, `NoteByHand`, `StatusByHand` | people: the workflow dispatched for any commit, any note on any commit, a status under a person's name |

That a commit's gates pass is a fact of the commit, `good`.  A note is what the verifier
can see of it: the commit it names, whether the gate key signed it, whether its steps are
all there and green.  What nobody can check is assumed (`Authentic`): a complete bundle
under the gate key's signature is of a commit that passed.  Unsigned notes, bundles with
a red step and bundles copied from another commit are all written by `NoteByHand` and
submitted by `DispatchByHand`, and `Verifies` is what refuses them.  Not modelled: a run of a
branch's own copy of `verify-external.yml`, which `release_evidence.py` refuses by its
`head_branch`.  A run that ends between the
listing and `gh run cancel` ends `publish.py` without a re-run; so does the model
(`Cancel`).

### TreeDiff, DomRemote

TreeDiff is the reconciler as operators (`Diff`, `Apply`).  Every recursion of the code
is a recursive function here, so that it can be reasoned about: `diff_at` goes over the
height of its trees (`Tree[n]` are the trees of at most n levels, `Differences[n]` what
`diff_at` answers of any two of them at any address), a loop with an accumulator along
its list (`Joined`, `Placed`), the walk of `apply_one` along the path (`Walk` down,
`Rebuilt` up again).  `Height` may be any number: a program's trees are finite, so some
height bounds those it ever shows.  Indices count from 1.

DomRemote puts a reader, the page, the worker and the guest together.  `queue` and
`busy` are `mount`'s, `inbox` and `outbox` the two directions of the worker's port,
`doc` the document under the mount, `model`, `kept` and `shown` what the worker
and the guest hold between turns, `fetch` the fetches asked for.

| actions | code |
|---|---|
| `Click`, `Type`, `Press`, `Restart` | a listener of dom.mjs and `dispatch`; `init` |
| `TakeReply`, `TakeFetched` | the port's `onmessage`, `settle` with `putBack`, and `pump` from there to its next await (`PumpOn`) |
| `HandleTurn` | `turn_shown` and the worker around it; a refusal or a panic answers without patches |
| `FetchEnds`, `WorkerFails` | `runFetch`; `#die` |

`Moved` is written as the code does it, with the reference child of `insertBefore`
counted in the list before the move, and not as TreeDiff's `MoveTo`: that the two
agree is part of `PatchesLand`.  A document node carries an identity (when it was
built, and for what), so that "the same element" can be said.  `NoneAssumption` says that
`None`, which stands for no document and no tree, is neither.  The application is a
field and a list of keyed items; a turn changes the items to any list, takes over
typed text, and may keep or clear the field otherwise.

### PackageCache, UrlDeps

`entry[h]` is what a walk of the directory named h would find, `origins[h]` the urls in
its record, `serves[u]` what the url answers now; `pc[p]` is the file operation at which
process p stands in the one request it has (`want`), `purpose` which of the four ways led
it to a fetch, `mirrors` and `subdirs` its run's `UrlFailures`.  `saw`, `touched` and
`offline` are history variables: what each url has ever been seen to serve here, what
people changed during a request, whether a download of it failed.

| actions | code |
|---|---|
| `Ask`, `Look`, `Again` | `url_pkg_root`, before and after `ensure_cached` |
| `Add` | `dawn add` |
| `Ensure`, `Verify`, `Origin` | `ensure_cached_in`, `verify_cached`, `check_origin_in` |
| `Download`, `DownloadFails`, `Publish`, `Rename`, `Refused`, `Adopt` | `fetch_and_hash_in`, `fetch_into` |
| `Record`, `Truncate`, `Write` | `record_origin`; a write empties the file first, and two writers may mix |
| `Take`, `Exit`, `Kill` | the request returns, the process ends |
| `Handle`, `Move` | people and servers |

The staging directory is the process's own and the rename out of it is one step, so a
half-unpacked tree is never an entry.  `dawn cache verify` only reads.  Left out: a
record of which a prefix only was written (it is whole or empty), and the rename onto an
entry whose directory is empty, which the system would allow.

UrlDeps EXTENDS it: a builder is one of its processes, and every step is a step of
`CacheNext` or leaves the cache alone.  `run[b]` holds the local variables of
`select_url_deps`: `Begin`, `Visit`, `WalkPath`, `WalkAsk`, `WalkAnswer`, `WalkOver` are
the walk; `Refuse`, `SelectAsk`, `SelectAnswer` the choice per name.  The recursion of
`resolve_src_deps` is a stack of its calls, `frames`, so that other processes' steps come
between any two of its own and no operator is recursive: `LinkBegin` is the first call,
`Skip`, `LinkAgain`, `LinkRefuse` and `LinkBad` the ways one dependency ends at once,
`LinkIn` the call for a package not met before, `LinkOut` the return.  The
other processes (`Guest`) make requests of their own.  A manifest is a constant, a fact
of its tree.

## 4. Runs, bounds and what they show

| run | instance | shows |
|---|---|---|
| `gateway` | 3 connections, 1 session, 2 handshakes, sandboxed or not | counters exact; no slot released over a live child but for the two named exceptions; `SlotPool` implemented; every slot returned; every signal stops the gateway, or its last wait is held by a client that does not read and by nothing else |
| `lspserver` | 4 messages of one of three profiles: syncs, closes, two classes of request and cancels on a buffer and two files of a project; syncs, closes and saves of the project's files and manifest; or nine kinds from `initialize` to end of input | answers are about the text asked of, once each; publishes never go back, nor outlive their workspace or the failed refresh they report; no replaced text is analysed for a request; the newest text is analysed; the end of input ends the process |
| `relay` | 5 browser messages, 2 ids, 3 versions, 1 in flight, any child | the child sees one document at a time; every answer delivered was owed, once |
| `session` | 6 messages, 3 versions, 1 in flight, with LspServer | answers are about the right text and document; the last text's diagnostics are shown; the end reaches the child |
| `lspclient` | 2 texts, 2 queries of one method, 5 connection numbers, 1 repeated publish | marks and answers are about the text on screen; nothing waits for ever |
| `playgate` | 3 requests, 2 slots, 2 passes, one job of 2 phases, 1 kill | a permit covers every unit nobody killed; the slots are a pool; a refusal means saturation; every request ends and gives its slot back |
| `gaterun` | 3 jobs, two of them on the same two paths and needed by the third; 1 or 2 workers; all jobs or `--only`; local or RESUMABLE; one resume or rerun | complete means every gate passed in this run; needs are told the truth; every run ends |
| `evidence` | 2 commits; 2 things begun in all, each a use of `publish.py`, a verification dispatched by hand, a note or a status by hand; one commit is pushed, opened as a pull request and tagged | no release and no skipped gates of a commit whose gate set fails, whatever is written on it and submitted; no re-run without a verdict on that commit |
| `domremote` | a field with 2 texts, 3 lists, 3 events or restarts, 1 fetch, refusals and a failing worker | events reach what was touched; patches land and keep elements; typing is not rolled back; the page comes to rest.  `Roundtrip` is checked before the run over all pairs of 237 small trees and of all orders of up to 4 keys |
| `domremote_field` | one list, 3 events | a comment of `remote.mjs` does not hold (section 7) |
| `urldeps` | 5 graphs of up to 4 packages, 3 urls, 2 trees, 3 subdirs, 4 versions; one builder, one other process with one request, one fault; a warm or a planted cache | no url believed unseen; nothing damaged handed out; no failure without a cause; one copy per name and every requirement met, in any program that is being linked |
| `urldeps_silent` | one builder, no fault, 2 graphs of two mirrors | a comment of `resolve_src_deps` does not hold (section 7) |

Ten more configurations are kept beside these.  Eight are each for a sentence of the
repository that the code does not bear out in a case worth knowing: `gateway_orphan`,
`gateway_late_start`, `session_blamed`, `session_foreign`, `gaterun_chain`,
`gaterun_outlives`, `evidence_watch`, `urldeps_alias` (section 7).  `urldeps_cache` checks that UrlDeps
implements `CacheSpec` and the types of its variables, the theorems `UsesCache` and
`DepsTypeCorrect`, on two graphs.  `gateway_unread` shows that the exception in
`OnlyUnreadHoldsShutdown` is a real one: without it (`ShutdownCompletes`) TLC finds a
shutdown that is held for ever (section 7).

Five properties are stated and proved (section 6) and in no run's list, because the
others of their module are harder to keep: `QuietOutsideSession`, `RetryBudget`,
`TmpSerialised`, `FlatSlotsNotHeld`, `NotesKept`.

`TypeOK` is stated in every module.  It is proved for LspGateway, LspServerClient, LspRelayAny,
LspClient, PlayGate, GateRun, GateEvidence (`EvidenceTypeOK`), DomRemote, PackageCache and UrlDeps,
and in no run's list because the properties above say more.

Why these bounds are enough:

* *Gateway.*  The code never looks at more than one other connection; two
  connections contend, and the third is the one that arrives while both are
  busy, so that both refusals, for handshakes and for sessions, happen.  Safety
  holds for every number by the proofs of section 6.
* *Server.*  The loop keeps one pending sync, so three documents give "the same",
  "a sibling in its project" and "an unrelated one".  Four messages are a sync
  that waits, what is queued behind it, a message that disturbs both, and one
  more; the versions, ids and documents of those are free.  Safety holds for any number
  of each by section 6.
* *Relay and session.*  After the three messages of the handshake a run has two
  or three left: an edit, a request and a switch, in either order.  `MaxPending`
  of 1 makes the limit bind.  The safety of the relay holds for any ids, versions and
  limits by section 6.
* *Client.*  Two texts give an edit during a sync; two queries of one method give
  the newer query; five connection numbers cover a first connection, its retry
  and what their ends count.  Its safety holds without the bounds (section 6).
* *Gate.*  Three requests over two slots are the smallest instance in which one
  of them polls while another comes and goes.  Only one job has phases, because
  jobs meet in the locks alone.

* *Gate run.*  Two jobs contend for locks, a third needs both; with one worker, jobs
  that wait for others would stop the run if they were submitted first.  The third
  comes first in `gates.yml`, so the order matters.  One restart is one death of a
  controller at any point and one that takes over.  Safety holds for any plan
  without the bounds (section 6).
* *Evidence.*  A verdict can be about the wrong commit or the wrong run: two of each.
  Two things begun are a bad note and the dispatch of its verification, two
  publishers, or one of them and a status by hand.
  The second commit is one that is only published, which is what may be confused
  with the first; giving it a pull request as well adds states and no case.  Safety
  holds for any number (section 6).
* *DOM.*  Three events are one in flight and two that wait, so a dropped one can
  stand before another.  Two keyed lists differ by a drop, a move and a changed
  item; the empty list takes the index pairing.
* *Packages.*  The five graphs are: two mirrors in either order, with the dead url
  first or last; two versions of one package, one of them through a path dependency;
  an archive with a subdir, one that is missing, and a dependency back to the project
  at a version whose name lacks its major; and a directory that carries the name of a
  package below it.  A builder makes at most seven requests, so one request of another
  process meets each of them at each step.  One fault is one edit, one moved url or one
  death, at any step; the world before may be planted besides.  Safety holds for any
  graph, processes and faults (section 6).

`CHECK_DEADLOCK FALSE` is set in every run: the gateway stops after a signal, the
server at `exit`, a request when it is answered, a gate run when it has its verdict,
and the bounded environments run out of messages.  That nothing stops earlier is what the liveness properties say.
`SYMMETRY` is used only in runs without liveness properties.

The passing runs fire every action of each specification.

## 5. Fairness

* **LspGateway** (`FairSpec`): weak fairness of each connection's task, because
  each of its awaits has a timeout of its own (`handshake_seconds`,
  `HARD_IO_SECONDS`, `shutdown_seconds`, a session's deadlines).  The one await without a timeout, which
  holds a sandboxed child's slot, ends because the unit has `RuntimeMaxSec`: that is
  the fairness of `ChildExit`, assumed in the sandbox only.  `serve()` proceeds
  when what it awaits has ended.  No fairness of `Connect` or `Signal`, and none of
  `PeerGone`: nothing makes a client read.
* **LspServerClient**: the process is scheduled, `WF(Server)`.  The client owes
  nothing.  `stdin` holds what has arrived, so the server is never blocked on it by
  assumption.
* **PlaygroundSession**: the browser reads, the event loop serves what is ready,
  the child is scheduled.  Nobody has to edit, ask or leave.
* **LspClient**: the browser delivers what has arrived, a handshake's timer fires,
  the server answers, and microtasks run.  Query and diagnostics timeouts are not
  fair: `QueriesSettle` must not need them.
* **PlayGate**: one weak fairness per request: the kernel lets one of its processes
  make a step.  It includes `Deadline`, which `timeout` guarantees, and `Stopped`,
  bounded by `STOP_SECS`.  Units are not fair: `EveryRequestEnds` holds although a
  unit may run for ever.
* **GateRun** (`FairSpec`): each worker thread, each call of `run_job` and the end of
  `main` go on when what they wait for is there.  `run_job`'s fairness includes the
  deadline of a job (`TimeOut`).  Commands are not fair, nor are kills and restarts.
* **DomRemote**: the page takes what is posted and the worker answers a turn it has.
  Fetches, the reader and a failure owe nothing.
* **GateEvidence** has no fairness and no liveness: every step of it may be refused,
  and a refusal ends with a person.
* **PackageCache** and **UrlDeps** have none either: there is no lock and nothing waits,
  so each request ends by the length of its code.

## 6. Proofs

The proof modules follow one argument: an inductive invariant `IInv`, shown to
hold initially and to be preserved by each action in turn, that implies the
properties; refinement is a step-by-step consequence of how an action changes the
set of holders.  All obligations are proved by SMT, Zenon and the temporal prover.

**LspGatewayProofs** (from `GatewayAssumption`: finitely many connections,
positive budgets).  `CountersExact` is not inductive: whether `Finish` may
decrement depends on the flag, and whether `Accepted` may depends on where the
task is.  `IInv` adds `Shape`: a task is admitted exactly at the awaits in `Holding`,
handshaking only in `Handshake`, listed in `connection_tasks` exactly between its
first and last step, cancelled only if listed; a child lives only with an admitted
task before the drain; and nothing is cancelled before the drain.  `Bounds` keeps
the counters inside their limits.  Two lemmas (`HandshakeChange`, `SlotChange`)
reduce all actions to "nothing, one taken, one given back" and the cardinality
steps follow.

| theorem | states |
|---|---|
| `TypeCorrect` | types, and both counters within `0..limit` |
| `Counted` | the counters equal the number of flags |
| `SlotSafety` | no slot is released over a live child, but for the two ways out |
| `BoundedChildren` | before a shutdown never more sandboxed servers than slots |
| `CancelOnce` | no task is cancelled while a cancellation of it is being cleaned up |
| `ImplementsPool` | `Spec => PoolSpec` |

**PlayGateProofs** (from `SlotsAssumption`, `PollsAssumption`, `PhasesAssumption`,
`KillsAssumption`; the number of requests need not be finite).  `IInv` has, per request, `Shape` (which
process may exist in which state of the others), `Covered` (a unit that may run is of
the current phase and its command or its stop is still awaited, or it is loose) and
`Passed` (what has been tried in this pass was not idle), and over pairs of
requests `OneHolder`: no slot has two holders.  `OneHolder` is what makes the pool's
bound provable: a holder set injects into the slots, so a slot that is free when a
request is let in means fewer holders than slots (`RoomLeft`).

| theorem | states |
|---|---|
| `TypeCorrect` | the type of every variable |
| `UnitsCovered` | `PermitCoversUnit` |
| `RefusalMeansSaturation` | `RefusedWhenTaken` |
| `ImplementsPool` | `Spec => PoolSpec` |

**GateProofs, part one** (about GateRun, from `GateRunAssumption`: finitely many jobs, distinct positions;
any plan, needs, options and number of workers and restarts).  `IInv` is, for the
controller, `Scheduled` (a job with needs has left the queue only when no job without
needs is in it, which is what makes `FlatSlotsNotHeld` true), `Reported` (a stored
result is the backend's, and an event is set only over one) and `Told`; for the
backend `Stepping` (a process belongs to the job's current run step, whose locks it
holds all of), `Exclusive` (no lock has two holders) and `Honest` (what is green has
passed, and a verdict stands only until the next start).

| theorem | states |
|---|---|
| `TypeCorrect` | the type of every variable |
| `CompleteIsGreen` | `CompleteMeansGreen` |
| `NeedsTruth` | `NeedsReported` |
| `PathsSerialised` | `TmpSerialised` |
| `FlatSlots` | `FlatSlotsNotHeld` |

**GateProofs, part two** (about GateEvidence, from `GateEvidenceAssumption`; the number of commits
need not be finite).  `EvidenceInv` follows a verdict: no copy of the notes ref has a
signed and complete note of a commit that is not good (`Truthful`, `Noted`), so by the three
checks of `Verifies` a run that passed is of a good commit, whoever dispatched it
(`Verified`); a success status of the bot names a run for that very commit (`Tied`),
a run of `ci.yml` skips, or is green on the whole set, only where the commit is good
(`Judged`), the guard reads no more than that (`Relied`), and a publisher past
`Evidence` has a verified commit (`Rerunning`).  Each of them is needed because the
reader looks at something that may have changed since.  `Kept`: who is not behind
has the remote's notes but for its own.

| theorem | states |
|---|---|
| `EvidenceTypeCorrect` | the type of every variable |
| `ReleasesJustified`, `SkipsJustified`, `RerunsTied` | `ReleaseJustified`, `SkipJustified`, `RerunTied` |
| `NotesAreKept` | `NotesKept` |

**LspRelayProofs, part one** (about `LspRelayAny`, from `BudgetAssumption`, `UriAssumption`,
`VersionAssumption` and `IdAssumption`: any finite set of ids, any versions and budgets).  The properties are about
what has been written to the child, a sequence, and the invariant relates that sequence
to the session's own fields.  `Heard`: the document open for the child is the one
`in_project` says, or none before the handshake is over, and no version sent is above
the session's.  `Balanced`: for each id, the frames that ask less the frames that answer
are the requests in flight, the awaited initialize among them.  Most actions append one
frame, a switch two; lemmas say what one more frame does to what is heard and to the
counts, so that each action is an instance of one of them.

| theorem | states |
|---|---|
| `TypeCorrect` | the type of every variable, the budget of requests, the initialize id |
| `SessionIsLegal` | `LegalSession` |
| `AnswersBalanced` | `AnswersBalance` |

**LspRelayProofs, part two** (about PlaygroundSession, from the same assumptions and
`SessionAssumption`: neither a package's file nor the manifest is one of the two
documents the buffer may be).  An answer is made long after its request was written: in
between are the pipe, the inbox, a text that waits for its analysis, and perhaps a switch
of documents.  So the invariant `SInv` speaks of all that is under way.  `Texts` is what
the server would know of each document if it analysed the text it holds back; `Last` is
what the browser said last, under the name the buffer has now and nothing under the
other; `Queue` is the inbox followed by the pipe.  `Asks`: each request in the queue is
about the newest text before it there, or the one in `Texts` when there is none, and the
whole queue takes `Texts` to `Last`.  A message sent appends to the queue and moves `Last`
with it (a switch appends two); one handled is taken from its head and moves `Texts` with
it, whether it is analysed now or held back; an analysis by itself moves neither.  A
request handled is then about `Texts`, and the flush before it makes that the documents
it is answered from.  `Begun` is what the server's lifecycle gate needs: nothing is said
of a document, and no answer given, before the handshake.  The server's documents are
followed through every outcome of an analysis (a workspace set up, rebuilt or
unavailable), which publish much and change no text.

| theorem | states |
|---|---|
| `AnswersReachTheirText` | `AnswersCross` |

**LspClientProofs** (from `BoundAssumption` and `MethodAssumption`: any queries, methods and bounds).  `IInv`
follows a version from the editor to the server and back.  `Handshake` and `Unused`: a
connection not yet opened carries nothing but its handshake, one not yet begun nothing.
`Talks`: at most one sync is on its way or being analysed (`SyncsUp`), every publish for
the version in flight is about the text in flight (`PublishesDown`, `About`), an answer is about
what was analysed when it was asked (`AnswersDown`), and once the text on screen has been
diagnosed it is what the server analysed last (`Diagnosed`).  `Asks`: a query whose request
is out was asked of the generation on screen.  `Budget`: what is spent is at most one more than
`retryCount`.  `MarksTheScreen` is not inductive without all of `Talks`: a publish that
arrives is believed because of its version alone.

| theorem | states |
|---|---|
| `TypeCorrect` | the type of every variable |
| `MarksTheText` | `MarksTheScreen` |
| `AnswersAreTimely` | `AnswersTheScreen` |
| `RetriesBounded` | `RetryBudget` |

**LspServerProofs** (about `LspServerClient`, from `UrisAssumption` and
`SendsAssumption`: any finite set of documents, any project, ids, profiles and number of
messages).  One message may analyse two texts and write any number of frames, so the
argument is about worlds, the record that a call takes and returns: `Published` says what
each call adds to one, and `Fit` what the frames written so far and a world's documents
have to do with each other: `Told` (the frames alone satisfy the properties), `Below`
(nothing newer was published of an open document), `Shown` (what was last published of
an unopened file is what is known of it) and `Behind` (nothing is newer than the horizon,
the versions in the queue and the client's).  `Inv` adds `Deferred`, the pending text
lies between what was published and the horizon; `Asks`, every request in the queue is
about what handling the messages before it will leave as the newest text; `Ordered`,
versions rise in the queue; `Stops`, the loop stops reading only at the last frame;
and `Rest`, what is known outside the session.  `AnswersTheTextAsked` needs `Asks`
because a client may be any number of messages ahead of the server.

| theorem | states |
|---|---|
| `TypeCorrect` | the type of every variable |
| `AnswersTheText` | `AnswersTheTextAsked` |
| `PublishesRise` | `PublishesAdvance` |
| `NothingLeft` | `NothingLeftShowing` |
| `QuietOutside` | `QuietOutsideSession` |
| `NoneReplaced` | `NoReplacedAnalysis` |

**UrlDepsProofs, part one** (about `CacheSpec`, from `CacheAssumption`: any processes, urls,
trees, worlds and number of faults).  Nothing in the cache is stable: an entry, a record
and a url may each change between any two steps of a request.  So `IInv` says of each
process only what others cannot undo.  `Recorded`: a record names only urls that were
seen, and what was seen stays seen.  `Located`: p has a tree, and a purpose, where its
place in the code says so.  `Observed`, `HaveObserved`: what p has fetched its url was seen
to serve, and what p has read of a record likewise.  `Guarded`:
past the origin check the url was seen to produce the hash.  `Checked`: what p has
verified is intact unless people touched it since, which holds because a process only
ever turns an absent entry into an intact one.  `Standing`: an entry p found there is
there, or touched.  `Caused`: a failure has its cause.  `Others` carries all of it over
the steps of other processes at once.

| theorem | states |
|---|---|
| `TypeCorrect` | the type of every variable |
| `GuardHolds` | `GuardedByObservation` |
| `EntriesVerified` | `VerifiedUnlessTouched` |
| `FailuresCaused` | `FailureHasCause` |

**UrlDepsProofs, part two** (about UrlDeps, from `CacheAssumption` and `DepsAssumption`: any
graph of manifests, with cycles, any names, versions and classes, any builders and other
processes).  Neither property is inductive: which package a dependency is linked to is
decided by names that an earlier phase gave, from answers of requests that may be
answered otherwise the next time.  `DInv` says what each phase leaves to the next.

* `Remembers`: the answer of the request in hand agrees with the memo of failures, which
  only grows; `Asking`: that request is the one the run waits for.  These two tie the
  builder to its process in the cache.
* The walk: `Readings` (what is in the queue has been read), `Coverage` (each dependency of
  a visited directory is recorded or still to do), `Recordings` (a requirement that has
  not failed is recorded under the name its own manifest gives) and `Namings` (a package
  that was reached, and of which no mirror failed, is called by that name: the exact
  hypothesis the code needs, see `AliasIsLocal` in section 7).
* The selection: `Selections` (a name that is resolved has a winner that was visited, has
  the name, and whose class every requirement of that name shares).
* The links: `Stack` (every call that has not returned is for a directory that was visited
  and holds the claim to its name, and the link it will return is right already) and
  `Linked` (the same of what has been linked).  `LinkIn` needs the claim to come before the
  call: it is what a package of the same name below meets.

`OneCopy` follows because one name is claimed by one directory, `RequirementsAreMet` because
the winner is the highest of the requirements of its name (`MaxReqIs`, by the least
beginning of the list without one) and not across a class.  Steps of other processes change
nothing a builder holds, so they keep `DInv` with it (`OtherKept`).

| theorem | states |
|---|---|
| `UsesCache` | `Spec => CacheSpec`: part one holds while projects are resolved |
| `DepsTypeCorrect` | the type of every variable |
| `OneCopy` | `OneCopyPerName` |
| `RequirementsAreMet` | `RequirementsMet` |

**DomRemoteProofs, part one** (about TreeDiff, from `TreeDiffAssumption`: any tags, keys and
data, any height).  Induction is by hand: a set that has 0, and n + 1 whenever it has n,
has every natural number, because the numbers outside it would have a least one
(`NatSets`, `UpTo`, from the library's `WFMin`).  The same argument unfolds every recursive
function (`JoinedIs`, `PlacedIs`, `WalkIs`, `DifferencesIs` and their like): the function
exists up to every bound, so the one that is chosen has the equations.

`Lands(below, T)` is what is carried from one height to the next: wherever in a tree an
old node of T stands, what `below` answers for it and a new one, replayed, puts the new
one there and disturbs nothing else.  `DiffAtLands` takes it one level up.  Its hard case
is `DiffKeyedLands`, in the order of the code's two phases: the removals, highest index
first, each name the child they are for and leave the survivors (`DroppedLands`); after t
steps of `place` the first t children have their final keys, so that a key still to be
placed is at t or right of it and one move to the left is enough (`StepLands`,
`ArrangedLands`: what the comment of `place` says, for every t); then the pairs are
patched where they stand by now (`DescendLands`).  `PutAppend`, `PutPut` and `AtPut` are
the laws of addresses all of it rests on.

**DomRemoteProofs, part two** (about DomRemote, from `DomRemoteAssumption` and `NoneAssumption` too: any
lists of keyed items, texts and fetches, any number of events and restarts).  The host's
table of ops is not `apply`'s, it builds elements and moves them by `insertBefore`
(`MovedIs`: on a list with keys of its own, moving left, that is `MoveTo`), so the
argument of part one is made again for elements, which moreover keep their identity:
`ViewPatched` says that the patches between two views lead a document that shows the one
to a document that shows the other, and keep the root, the field and the element of
every item that both have.  The inductive invariant is about the turns:

* `Turns`: what waits, and what was sent, is a turn; something is busy while one is; and
  an event in the worker has an address of its element in the document as it is now.
  The document changes only in `settle`, and then nothing is in the worker.
* `Outbox`: one reply at most is under way, and none while a turn is in the worker.  Hence
  `Settle` is always about the patches of the last turn.
* `Synced`: the document shows the guest's view, or a reply is under way whose patches
  lead from what the document shows to that view, or the worker has failed.  Without the
  second case the invariant would not hold between `HandleTurn` and `TakeReply`; with it
  each of the two steps is an application of `ViewPatched`.
* `Begun`: what the guest holds of its last turn is the view of its model, so what it
  diffs against is what the document shows.
* `Docs`: an element was built by a reply that was taken, so a document that is replaced
  has a new root.  `Stopped`: a failed worker has nothing and posts nothing.

| theorem | states |
|---|---|
| `RoundTrip` | `Apply(old, Diff(old, new)) = new`, for all trees |
| `TypeCorrect` | the type of every variable |
| `EventsHitTheirElements` | `EventHitsItsElement` |
| `PatchesLandHolds` | `PatchesLand` |
| `NotRolledBackHolds` | `NotRolledBack` |

Only model-checked: every liveness property, as fairness and `ENABLED` are out of the
proof system's reach.  Every safety invariant and every action property that a passing
run checks is proved.

## 7. Where the code and its comments disagree

Two runs are expected to end in a violation.  Each checks one sentence of the
repository against what its code does.

1. **The field and the model may part** (`domremote_field`, `FieldAgrees`).
   `settle` puts the focused field's text back whenever any event waits.  If a turn
   clears the field (Escape in the search panel) while another key press waits, the
   old text stays; the next turn sees no difference between its two trees and sends
   no patch.  The comment says that "the queued turn carries that value, and the
   guest is about to agree with it", which is so of input events only.

2. **Two mirrors may both be lost** (`urldeps_silent`, `NothingLostSilently`).  A
   dependency whose url fails is entered in `url_names` under its alias, over the name
   the package has been given by a good mirror of the same content before it.  The
   linker then finds both under the alias, for which nothing was selected; the mirror's
   error was dropped because the content is available.  Neither is linked, and nothing
   is said until an import fails.  `resolve_src_deps` passes over them with "selection
   already errored".  `scripts/source-plan-contract` tests the other order, the dead
   mirror first, which works.

Nine of the other configurations show things of the same kind:

* `gateway_orphan` (`SessionStopsItsChild`): a session's child may outlive it.
  `serve()` cancels every task it owns, also one whose session is already inside its
  `finally`.  The cancellation then leaves `graceful_child_stop` between two of its
  waits and the rest is skipped.  The comment says that each `finally` "closes its
  WebSocket and child".  The backstop is the unit's `RuntimeMaxSec`.
* `session_blamed` (`NeverBlamed`): a child that behaves may be blamed.  The publishes
  for a package's files, allowed while the buffer is the project, end the session with
  1011 when they arrive after the buffer has been switched back.
* `gateway_late_start` (`DrainedBeforeWaitClosed`): a task joins `connection_tasks`
  in its own first step, so one that was created but has not run is not in the batch
  `serve()` drains.  The gateway still stops, after serving that connection for as long
  as it lasts (`OnlyUnreadHoldsShutdown`, which allows for one exception: the next entry).
* `gateway_unread` (`ShutdownCompletes`): a shutdown may be held by one client.  A
  connection's task gives the close of its writer `HARD_IO_SECONDS` and goes; the
  accepted transport stays open for as long as the client leaves what was sent unread, and
  `await server.wait_closed()` has no timeout.  No sentence of the repository says
  otherwise, so this is an observation: in deployment the unit's `TimeoutStopSec=20` ends
  the process (`playground/deploy/dawn-play-lsp.service`).
* `session_foreign` (`TileUriStaysInside`): answers are retargeted by what the buffer
  is when they arrive, so a completion list asked of the project and answered after a
  switch carries the project's URI in its data.
* `gaterun_chain` (`SlotsNotHeld`): `runner.py` says that "a waiting job never holds a
  worker slot while the jobs it waits for are still queued".  With a chain of needs,
  listed in another order, it may.  In `gates.yml` no needed job has needs, and there
  it is proved (`FlatSlots`).
* `gaterun_outlives` (`NothingOutlives`): the local backend "runs jobs as children of
  this process, so nothing outlives it"; the steps have sessions of their own and
  survive a controller that is killed.
* `evidence_watch` (`WatchesItsOwn`): `--rerun-ci` "waits for the verify-external run
  it dispatched", but watches the newest one.  `Evidence` is what makes this
  harmless: `RerunTied`.
* `urldeps_alias` (`AliasIsLocal`): the same overwriting as in 2, when the alias of the
  dead mirror is the name of another package of the program: the consumer of the good
  mirror, whose own request succeeded, is linked to that other package without a
  diagnostic.  `select_url_deps` says of what a version is selected by: "The name is the
  package's own manifest name, not the consumer's alias (§4.3: the alias is local
  sugar)".  `RequirementsMet`, which excludes a package one of whose mirrors failed, is
  what does hold, and is proved.

## 8. Order of work and what is left

What is most concurrent and least testable came first: SlotPool, LspGateway and its
proofs; LspServer with LspServerClient; LspRelay with LspRelayAny and
PlaygroundSession; LspClient; PlayGate and its proofs; then GateRun and GateEvidence
with theirs; TreeDiff and DomRemote; the proofs of LspRelayAny, LspClient
and LspServerClient; PackageCache and UrlDeps with their proofs; the proof of
PlaygroundSession; TreeDiff without RECURSIVE operators, and the proofs of TreeDiff and
DomRemote.

In this order, what would come next:

* LspServer's workspaces as holders of leases: each one given up once.
* TeaCore's bounded fold of commands, as the step inside a turn of DomRemote.
* HttpExchange: the points after which a failure can no longer change the status.
* ProcessRun: `io_run`'s signal forwarding and the staged write of `std/io`.

The rest of section 1's second table is not planned: functions from text to text,
whose content is the language's rules, and scripts that run a compiler and compare.

## Running

Inside this directory, with the TLA+ tools at hand: `tlc -workers 2 -config
relay.cfg MCLspRelay` checks one configuration (`PROJECT.json` pairs each with its
module; the ten configurations of section 4 that are not listed there belong to the
MC module their name begins with), and `tlapm` checks the eight `*Proofs` modules.
Every run takes less than three minutes.  The proofs of
`DomRemoteProofs` take about ten minutes, those of the others six at most.
