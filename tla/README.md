# A verification project for tauri-connector

tauri-connector is a Tauri plugin that lets tools and agents drive a running
application: scripts, DOM snapshots, screenshots, pickers, captures and whole
workflows, over a WebSocket and over MCP. Inside the application many callers
act on the same windows at once, over a page that may hang, navigate or answer
late. The promises that matter are about isolation (two operations never act on
the same window at the same time, and a write whose outcome is unknown keeps
others away), about truth (a report of "not dispatched" means that nothing ran)
and about durability (an action is never repeated after a restart).

This directory holds TLA+ modules of the parts that make these promises, TLC
configurations that check them, and TLAPS proofs. `PROJECT.json` lists the runs,
the mutants that show each property can fail, and the source lines behind every
definition (`map`).

    tlc -workers 2 -config MCHost.cfg MCHost.tla
    tlapm LeaseProofs.tla

## Inventory

State, operations and what makes each part correct. Paths are below `src/`.

| Component | State | Operations | Correct when |
|---|---|---|---|
| Resource arbiter, `plugin/src/workflow/resources.rs` | `held` (owner to resources and quarantine), `late` history, a `Notify` | `try_acquire`, `acquire_within`, `quarantine_request`, `settle_late`, `release`, `restore_quarantine`, `list`, drop of a lease, expiry | conflicting resources have one owner; isolation ends for a cause; no waiter sleeps on a free resource |
| Command leasing, `plugin/src/server.rs`, `mcp_tools.rs`, `mcp.rs`, `protocol.rs` | one task per command | take a lease, send to the page, answer or time out, quarantine, drop | conflicting effects never meet; every command is answered |
| Workflow journal, `plugin/src/workflow/journal.rs` | key file, history file, OS lock, bounded queue, writer thread, poison flag | open and validate, append, write and sync, drain on drop | acknowledged records survive; history stays readable; one key for one history |
| Workflow engine, `plugin/src/workflow/service.rs` | runs with report, flags and driver; slots | submit, drive, stop, cancel, continue, reconcile, recover | at-most-once actions; durable intents; true reports; every driver ends |
| Bridge, `plugin/src/bridge.rs`, `identity.rs` | window keys, clients, connections with revisions, pending requests, late watches | hello, result, disconnect, window destroyed, execute by WebSocket or eval, pin | a script runs at most once per request; nothing pending for ever; a stale socket removes only itself |
| Runtime manager, `plugin/src/runtime/` | a flight per window | ensure, execute authorised, window destroyed | one installation at a time per document |
| Capture, `plugin/src/capture/` | sources, sessions, sequence numbers, byte budgets | start, ingest, stop, revoke | each event counted once, in order, within the retention bound |
| Picker, `plugin/src/picker/` | records with nonce, sequence, deadline, lease | reserve, accept a report, cancel, expire | at most one terminal state; lease held until the page is clean |
| Screenshots, `plugin/src/screenshot/` | the request's bindings, late native callbacks, the protected store and its budget | bind, check, probe, capture, probe again, retain, prune | a picture shows what its metadata say, and is kept as long as its receipt says |
| Tool handlers, `plugin/src/handlers.rs`, `effects.js`, `plugin/js/` | the monitor of effects in the page, saved artifacts and their manifest | some forty tools: resolve, send one script or several, make an outcome of what comes back; save, list, compare and prune artifacts | a reply that nothing happened is true; a saved artifact stays; a call is answered while its client still waits |
| Page scripts of workflows, `plugin/src/workflow/page.js`, `semantic/core.js` | observations with their dispatch cache | resolve, check, focus, dispatch events, check again | a step interacts once, with the element it was checked for |
| Workflow specifications, `crates/client/src/workflow/` | none | validate; resolve before every step | what is accepted does not fail half way for its own form |
| Plugin state, `plugin/src/state.rs` | DOM cache with generations, log files, listeners | push, patch, get, prune; append and read logs | refs, text and files of an entry belong to one snapshot; a read of the console misses nothing |
| MCP transport, `plugin/src/mcp.rs` | Streamable HTTP and SSE sessions | initialise, post, prune | a live session is not pruned under a request |
| Memory budget, `plugin/src/workflow/budget.rs` | an atomic counter | reserve, release | never over the limit, never leaks |
| Startup, `plugin/src/lib.rs`, `net.rs`, `project.rs`, `health.rs` | PID file, remembered ports | bind, write and remove the PID file | a live copy's file is not replaced by a failed one |
| Client library, `crates/client` | a bound instance, one socket, pending calls; the states of a batch's actions | discover, connect, verify, send; run a batch | never attaches to another application; a batch runs in order and is reported in full |
| Standalone MCP server, `crates/mcp-server` | a cached client | connect on demand, forward | follows the application it serves; waits long enough |
| Command line, `crates/cli` | a cache of refs | parse, forward, send again after a missed ref or a lost capture, print | a call acts once; waits long enough |
| TypeScript clients, `cli`, `server` | none | older clients of the same protocol | |

How they interact: a command reaches `handle_command` (WebSocket) or `call_raw`
(MCP), which asks the arbiter for the resources of its tool, after the journal
has been recovered if it asks for any. It sends its script through the bridge
and waits. If the wait times out the bridge goes on watching for a late result
(`watch_late_settlement`), the command quarantines its lease under the request
id, and a late result that proves there was no effect lifts that quarantine. A
workflow run takes a lease on the whole application, writes its intent to the
journal before each step it dispatches and the result after it, and stops at
the first step that is not a verified success. After a restart the journal is
read, interrupted runs become historical and those with a possible effect are
quarantined again.

The behaviours that are hard: results that come after the timeout, and even
before the quarantine that waits for them; callers dropped at an await;
expiry against release against late result; a crash or a failed write between
an effect and its record; cancellation between any two steps. The picker and the captures add a second party with a life of
its own: a page that keeps a surface or a queue, navigates, is suspended, and
runs scripts that the host gave up long ago. Clients add a third: processes that
restart and take each other's ports and process ids. `PROJECT.json` lists all
this under `hazards`, each at its line.

## Modules

| Module | Models | Abstracts |
|---|---|---|
| `ResourceArbiter` | the arbiter and the callers of `acquire_within` | uuids are owners, names are sequences of path segments, the clock is a counter that only advances |
| `Isolation` | what the arbiter promises: claims are granted when nothing conflicts, become isolated, end for a cause | who waits, the late history |
| `CommandLeases` | commands over `ResourceArbiter`: sending, answers, timeouts, disconnects, late results | the bridge's transports, the individual tools |
| `Journal` | one history directory over several openings of the journal | bytes: a line is a record or torn |
| `DurableLog` | what the journal promises: acknowledged records are a prefix-closed durable log | files, queue, faults |
| `Workflow` | the engine over `Isolation`'s claims and the journal's latest record of each run | revisions, checkpoint ids, evidence, step values |
| `Bridge` | one window, its documents and sockets, the clients and their mirror, pins, and requests over both transports | ids and keys are numbers and model values, payloads are `done` or `not_run`, the order of messages on one socket, native delivery under a CSP, the liveness probe of background windows, navigation marks, authorisation |
| `Runtime` | the installation of the page runtime in one window: flights and their callers, scripts, documents, the page cache, window lives | versions, bundles, origins and URLs always match; the input guard |
| `Picker` | element pickers of one window: entry, run task, capture task, lease, and the surface in the page | what was selected, images, revisions, warnings |
| `Capture` | capture sessions of one window: the store, the serialised operations, the page's controller and queue, batches and answers, a reader | events are numbers, no previews, filters or byte budgets |
| `Snapshots` | the DOM cache of one window and the snapshot files beside it | a snapshot is its number |
| `Batch` | the executor of batches of the client library | results, ids, the saved file |
| `Startup` | processes that bind ports and write, heed and remove their PID files | a process is its instance id; the search for the directory |
| `Discovery` | clients over `Startup`: the search, the connection, calls and reconnections | explicit targets, constraints by project or instance |
| `Calls` | what each tool sends to the page and how long that may take, how long the standalone server and the command line wait, and which calls are sent again | what scripts return; a page answers promptly, at the end of its own wait, or not at all |
| `Tools` | one call of a tool: checks, lease, script, the effects it has and the page's evidence of them, the outcome | effects through workers, frames and navigation, which the page cannot see |
| `Screenshots` | a protected capture over a page that changes, the store it is kept in | pixels, crops and formats; a look never returns |
| `Logs` | the console and the other logs from the page's buffers to the files and the ring, and a reader with its flush | texts, levels, filters |
| `Artifacts` | saved screenshots: names, files, the manifest, pruning, kills | contents |
| `Sessions` | Streamable HTTP and legacy SSE sessions | headers other than the session |
| `Dispatcher` | one step of a workflow in the page, with the handlers of the page that run inside its events | texts, evidence, the limits of caches |
| `Bindings` | what a specification may refer to, by its validator, its resolver and the page | pointers, sizes, names of tools, windows and steps, contents of the page |
| `MCLeases`, `MCHost`, `MCParts`, `MCHandles` | composites for the runs, see below | |
| `LeaseProofs` | theorems about `ResourceArbiter` (exclusion, what is promised over time, that it implements `Isolation`) and `CommandLeases` (exclusive effects) | |
| `BridgeProofs` | theorems about `Bridge`: connections and pins; requests | |
| `WorkflowProofs` | theorems about `Workflow`, `Journal`, `Dispatcher` and `Bindings` | |
| `HandleProofs` | theorems about `Runtime`, `Discovery` and `Snapshots` | |
| `PartsProofs` | theorems about `Picker`, `Batch`, `Artifacts` and `Logs` | |
| `CallerProofs` | theorems about `Tools`, `Screenshots`, `Sessions` and `Calls`: what a caller is told, and when | |
| `CaptureProofs`, `CaptureStopProofs` | theorems about `Capture`: types and readers; leases and completeness | |

`Bridge` is what `CommandLeases` sees as `Send`, `Receive`, `TimeOut` and
`Settle`: there a result is one of few answers, here it is followed over the
transports. `ResourceArbiter` is composed into `CommandLeases`, which extends it: a
command's step is the arbiter's step joined to the command's own. `Workflow`
does not repeat the arbiter: it uses the claims of `Isolation`, which
`ResourceArbiter` is checked to implement. It does not repeat the journal
either: it uses the durable record per run that `DurableLog` promises. `Discovery`
extends `Startup`: what clients find is what the processes left. `Runtime`,
`Picker`, `Capture`, `Tools` and `Screenshots` speak to the page through scripts
that run at most once, late or never, which is what `Bridge` shows of a request;
`Picker`, `Screenshots` and `Artifacts` use the arbiter's promise that a held
lease is exclusive. `Dispatcher` is what the page does with the packet that
`Workflow` sends, and `Bindings` what must be known of a specification before
`Workflow` begins. `Calls` looks at the same calls as `Tools`, by their time
only.

### How the state corresponds to the code

*ResourceArbiter.* `held` is `ArbiterState::held`, `late` the `VecDeque` of late
records (the newest last, at most `LATE_HISTORY`), `stage` where each caller of
`acquire_within` is, and `waiting` the callers whose notification is enabled and
has not come. `try_acquire`, `list` and `quarantined` take the mutex through
`lock_current`, which sweeps the expired quarantines before anything else: that
is `EnterAcquire` or `EnterList`, a `Sweep` for each expired entry, and then
`Grant`, `Refuse`, `Park` or `LeaveList`, with `section` saying who is inside.
Every other method is one step. `DropLease` is `impl Drop for Lease`, `SettleLate` is `settle_late`,
`Release` and `List` are the tools of the host, `Restore` and `RecoveryDone`
the recovery that `resources::acquire` waits for.

*CommandLeases.* `Send`, `Receive`, `TimeOut` and `Disconnect` are the outcomes
of `execute_js_ws` that a command tells apart; `Isolate` then `Finish` are the
end of `handle_command`, where the response is examined by
`requires_quarantine` before the lease is dropped; `AbandonQueued` and
`AbandonSent` are the request future dropped by the HTTP server.

*Journal.* `file` and `torn` are the history, of which the first `durable`
lines are synced; `keyFile`, `key` and `keySafe` the key file, its contents and
whether its directory entry is synced; `mode` where each process is between open
and drop; `queue`, `writing`, `poisoned` and `index` the writer thread's. `Synced` is the acknowledgement. `Kill` ends the process at any
point, `PowerLoss` drops what was not synced.

*Workflow.* `pc` follows `drive` from the slot to `stop`; each value is one
await at which other tasks run. `report` is the run's JSON report, `disk` its
latest durable copy, `reply` what the page said of the current step. `flying`
are scripts the page has accepted and not run: they run later or die with the
page. `leaving` are drivers that have stopped their run and still hold lease and
slot, for the lock on the run is released before the lease is dropped.

*Bridge.* `key` is the `bridge_key` of the window in `WINDOWS` and `drawn` how
many were ever drawn, so that a uuid is its number. `client` is the window's
entry of `clients`, `registry` its `ConnectionState`, `pins` the
`BridgeConnectionPin`s in use. The document is `pageKey` (its `BRIDGE_KEY`),
`ws`, and the scripts it has: `commands` came over the socket, `evals` were
injected, `running` have started. `task` follows each `handle_bridge_client`
through its loop, `disconnect_bridge_client` and the guard that rejects what is
pending; `inbox` holds what it has not read. For each request `pc` follows
`execute_page_script`, `pending` is its entry, `value` what is in its oneshot
channel, `watch` whether a late settlement listens. The clients lock is held
from the look at the client to the enqueue, and over each registration and
removal, so these are one step each. A hello looks at the key before it has the
lock and again under it: as keys never return, the second look decides.

*Runtime.* `flight` is `flights[window_id]`, `flights` the lock of each
`InstallationFlight` and its `failed_for`; `caller` where each
`execute_authorized` is. `document` is the page with its installed context;
`scripts` are probes, installations and dispatches not yet run, which stay when
their caller has gone. `installed` and `ran` are history, and so is `tried`: the
attempts noted in `failed_for`, also those that came too late to be sent, with
the flight they were made in. A flight is named by the life of the window in
which it is made, for `window_destroyed` forgets it.

*Picker.* `entry` is the `Entry`, changed only by translations of its methods
(`accept`, `finish`, `cancel`, ...), `at` where `run` is, `asked` and `answer` its
current call of the page, `shooting` the capture task. `surface` is the
controller in the page and `wire` the scripts sent to it.

*Capture.* `store` is the `Store`: sessions, sources, events, sequence numbers.
`serial` says who has the `operations` mutex and what of it remains; ingest,
queries and the end of a page do not take it. `page` is the controller of
`page.js` with leases, queue and the batch in flight, `batches` what is on its
way to the host or back. `IngestSteps` is the store after each event of a batch.
`history` records what was observed and all that was ever stored, if only until
the next event of its batch, for the properties only.

*Snapshots.* `cache` is the window's `DomEntry`, `generations` the counter,
`pushing` background pushes between counter and lock, `snapper` each call of
`dom_snapshot` with its push, files and patch, `sessions` the directories by age
and `pruner` the holder of `snapshot_prune_lock`. `WriteSubtrees` gives up its directory when
a write fails, `WriteIndex` logs that and goes on, and a prune ignores what it
cannot list or remove; the histories `unwritten` and `unremoved` remember the last two for the
property.

*Batch.* `state`, `remaining`, `ready` and `abort` are the executor's; an action
ends as the dispatcher pleases.

*Startup, Discovery.* `proc` is where each process is between bind and exit, with
pid and port; `pidFile` and `tmpFile` are the files of each directory. A client's
`finds` follow `resolve_connection` from the files to the port scan and the
gates; `clients` hold the pinned instance and the connection, `messages` each
call and what its caller was told.

*Calls.* `call` is a command of one of the two clients, `place` where its handler
is: in the queue for the lease, at one of the scripts that it awaits one after
the other, or with its reply. A script is its deadline in `execute_page_script`,
what its own wait takes, and where the handler goes on if it returns or not.
`elapsed` is what the caller's `send_with_timeout` measures.

*Tools.* `progress` follows `handle_command` and the handler, `monitor` is
`effects.js` with the hooks it has over the channels of the page, `body` the
script there and the history of what it did, `heard` the answer or error of the
bridge, `reply` the `ExecutionOutcome` whose effect and execution decide about
the lease.

*Screenshots.* `shot.at` is the statement that `capture_protected` awaits; the
other fields of `shot` are what it bound and probed. `native` are callbacks that
the operating system owes (`NATIVE_CALLBACKS`), `artifacts` and `used` the
retained images and what they are charged to the budget.

*Logs.* `frontend` is the document with `MAX_EARLY_LOGS` and `MAX_LOGS` buffers
and the sequence number it has handed over; `pushes` are unawaited `push_logs`;
`reader` is a `read_logs` with its flush, `stray` flushes given up; `log` the
files.

*Artifacts.* `work` is the save or prune that holds the lease, by the file
operation that comes next; a save for which none of fifty names is free fails
before it writes anything, so the model takes no step. `Keeps` is the set of
`keep` arguments that a prune may be given.

*Sessions.* `posts` are handlers by their awaits, with the time each read before
the lock; `sessions` is `streamable_sessions`, `legacy` `legacy_sessions`, and
`removals` the tasks that the guard of a dropped stream spawns.

*Dispatcher.* `stack` are the packets whose code is on the page's stack,
`reached` the event each has dispatched last, `cache` is
`observation.dispatched`.

*Bindings.* `spec` is one expression and one condition by what the three
grammars look at; `turn` is the step that comes next. A text is an ordinary one, one of
spaces, a lone byte order mark, or `odd`: at once no key chord, no CSS selector and the
name of a sensitive attribute, of which an expression meets the one its use asks
for. `ShapeFault` is what the page counts, `ValueFault` what it refuses of a value,
and `PageOnly` lists those texts that only the page refuses.

## What the runs check

| Run | Bounds | States | Shows |
|---|---|---|---|
| `MCLeases` | arbiter: a parent and its two children, two callers, two requests, a TTL of 2 and a clock up to 3, a history of 2; every tool, with two calls of the backend; two captures of two attempts, one image retained, two in memory, two disturbances; two sessions, a stream, two requests, an idle time of 2 | 1,489,014 | exclusion, late results that beat the quarantine, no lost wake-up, isolation ends for a cause, refinement of `Isolation`; replies about effects are true; receipts of screenshots are true; sessions end for a cause |
| `MCHost` | commands: two, one of them over HTTP, a parent and a child, a TTL of 1; journal: two processes, two runs with revisions up to 2, 3 records, a queue of 2, 2 keys, kills and power loss; a step: two packets, one of which may carry another step, two elements, two changes; specifications at and beyond each limit | 396,424 | effects exclude one another, every command is answered; readability under one key, closing ends, refinement of `DurableLog`; a step happens once, where it was checked; what is accepted can run |
| `MCWorkflow` | two runs of one step, one outside holder, symmetric keys | 2,682,985 | no two writes meet |
| `MCRecovery` | one run of two steps, crash, poisoned and torn journal | 52,096 | at most once, true reports, durable intent and isolation of what is in doubt, every driver ends |
| `MCBridge` | one request, two sockets, two documents or windows | 387,750 | at most once, true answers, nothing stranded, every call ends, every timeout is settled |
| `MCHandles` | three sockets, two documents, one pin at a time; two calls, two window lives, two page epochs; two snapshots, one directory kept, two files beside the subtrees, one background push; two applications, two ports, two pids, one client with two calls; every command of both clients with a short and a long time, with and without a queue | 1,106,131 | stale pins stay stale, clients leave for a cause; one runtime per document, dispatch where it was confirmed; snapshots are not mixed; calls reach the pinned instance, records are heeded; callers outwait the plugin, calls act once |
| `MCParts` | one picker, two documents; two sessions, one read, one following, two sources, two documents, two events, one of them retained, one disturbance; three actions with any dependencies; three entries, two documents, buffers of two, one stray flush; three saves within two milliseconds, one fault | 646,795 | the lease follows the surface, every picker completes; no event is lost untold, leases are lost for a cause; batches run in order and are reported in full; a read of the console is complete; what is saved is kept |
| `MCQuarantineWait` | the arbiter as in `MCLeases` | violation | a waiter waits on a quarantine |
| `MCClientDisconnect` | two commands | violation | a disconnect releases an unknown effect |
| `MCNextActions` | one run | violation | an advertised action is refused |
| `MCStopOne` | as `MCParts` for the capture | violation | stopping one session silences another |
| `MCRestart` | an application that restarts, a client that stays | violation | the client never finds the application again |

*Composites.* `MCLeases`, `MCHost`, `MCParts` and `MCHandles` each put parts side by
side that share no variable. Their product would only multiply states, so a behaviour is
one of a single part (`component`, `subject`) and the others stay as they were
initially: the states are those of the parts, added up. Fairness is asked only
of actions that the subject may take, for an enabled action that may never be
taken would make every liveness property hold for nothing. Some properties join
several facts about one promise (`RepliesAreTrue`, `ReceiptsAreTrue`,
`ReportsAreTrue`, `DoubtIsKept`, `RightInstance`, `NoEventLostUntold`); each fact
has its name and comment in the module.

*Bounds.* The arbiter's hazards need a holder, a waiter and somebody who
releases: two callers and the host give all of these; a parent with two children
has every relation `conflicts` can find. With two requests and two owners as
keys, a history of two records evicts. The workflow's hazards need one run that is isolated and another that
asks; a third adds no new relation because all ask for the same resources. Two
steps are the least with a step after the first, where a continuation must not
go back. A crash, a poisoned writer and a torn journal
(`Faults`) may each occur once; a torn journal stays so.

The bridge's requests do not share state but the page and the sockets, so one
request meets every order of retries, reloads and reconnections; a second
socket is a reconnection and a second document a reload. A pin needs a third of
each: one it saw, one in between and one that might look like the first. Keys
never return (a lemma of `BridgeProofs`), and pins are proved for every bound, so
that the run keeps to two documents.

Two callers and two page epochs give a flight its second attempt, a second
window life the destroyed window (`MaxLives`, `MaxEpochs`). Two sessions are the
least where one can disturb the other; `MaxTrouble` counts what disturbs a
capture: one meets each kind at every point of the rest. `MaxRecorded` events are two, one more than `MaxStored`, so
that retention evicts. Three actions are the least graph with a chain and a
bystander; every graph without a cycle is an initial state, with each mode, width
and value of stopOnError. Two processes, ports and pids are the least where one takes what
was another's; the client's second call is its reconnection.

`Tools` takes every tool and every state of the page's hooks as an initial state;
two calls of the backend are one that the monitor sees and one after it. A
capture has two attempts, so that one is retried; a store of one image in a
memory of two has a limit of its own to meet before the budget's. `Sessions`
needs a session that is idle and another whose request prunes it, and a clock
that passes the idle time while a handler waits. Three console entries overrun a
buffer of two; a second document adopts the early buffer. Three saves within
one millisecond need names twice. Two packets are a step and its duplicate.
`Bindings` has no bound but the classes it takes values from: each limit of the
validator is met from both sides. In `Calls` a caller passes one second or forty,
which lie on either side of every fixed deadline, or what leaves the standalone
server's patience with a drag shorter than the lag, and a lease comes at once or in
the last moment of the queue; a page answers within `Prompt` or never, and the
plugin is `Lag` late with each deadline: 300 and 100 milliseconds, well below the
margins of five seconds that are to absorb them.

*Fairness.* Tasks of the async runtime are scheduled, timers fire and the
journal's thread runs, so their actions are weakly fair. The page, its results,
clients and the host owe nothing. `GiveUp`, the deadline of a step, is strongly
fair: a page that refuses again and again disables it for an instant each time,
and the deadline is a fixed point in time that passes all the same. So are the
deadlines of the bridge, `GiveUp` and `TimeOut`, for the same reason; nothing is
assumed of its page, its sockets or its connection tasks. Of a picker its task
runs, its captures end and its deadlines pass; the page, the person and the
client owe nothing. A batch's dispatcher ends each call, as the client's timeout
makes it do. Nothing is said of the liveness of captures, whose session may stay
interrupted as long as its page does.

*Deadlock.* Nothing relies on a check for deadlock: that nothing waits for ever is
stated by the liveness properties. The workflow runs set `CHECK_DEADLOCK FALSE`: once its journal is
torn the engine refuses everything until somebody repairs it, and a finished
instance has nothing left to do. The bridge's runs set it too: sockets and
documents are bounded, and when they are used up an instance stops. So do those
of the composites, where every part has an end: a batch is reported, a picker
reaped, a process gone, a call answered.

### Findings

* A request parked on a plain lease is not woken when that lease becomes a
  quarantine and waits on it until its own deadline (`resources.rs:421`), while
  `resources.rs:13` says that a quarantine is never waited on.
* An MCP client that disconnects drops the handler's future and with it the
  lease, though the script was sent (`mcp.rs:124`, `resources.rs:456`), while
  `docs/workflow-design.md:85` promises the quarantine after a disconnect.
* A run cancelled while it waits for its slot, whose resources turn out to be
  busy, is reported `paused` with `continue` as a next action, and every
  continue is refused because it is cancelled (`service.rs:751`).
* `ipc_capture stop` of a session whose source was interrupted sends the page a
  configuration of that source, which leaves out the session that was started on
  the same document meanwhile: the page gives up the lease of a session that
  nobody stopped (`capture/store.rs:397`), while `docs/inspection-design.md:64`
  says that stop changes only that session.
* The standalone MCP server pins the instance it first verified and refuses
  every other (`crates/client/src/lib.rs:185`): an application that restarts is
  never found again, while `docs/release-notes/0.17.0.md:9` says that the server
  reconnects.

### Seen while modelling

Behaviour the models contain and no document contradicts, or that the properties
had to allow for; kept here for whoever changes that code.

* Capture: events that the page drops after its last batch are in no session's
  drop count when it is stopped, though the drain was confirmed (properties
  speak of what is counted); an acknowledgement of a start that crosses a reload
  leaves `applied` stale until the next status; events behind the end of an expired session are
  not counted; the ingress limit refuses whole batches, which are then sent again.
* Picker: when the page never confirms its cleanup just as the window is
  destroyed, `context_destroyed` may be overwritten by `unconfirmed`.
* Runtime: a caller that looked up a window which is then destroyed can install
  a runtime with the old window's context in its replacement, and
  `confirm_existing` (`runtime/manager.rs:137`) compares no window; a deadline that passes before the script is
  sent refuses the document although nothing was tried there. Such a caller of a
  destroyed window that comes too late also replaces the mark of another's
  attempt in `failed_for`, so that a third may try again in the same document;
  this takes three callers, and was found by the proof.
* PID files: the checks at `lib.rs:846-885` and the rename after them are not one
  step; copies that start together can replace or remove each other's file.
  Clients survive it: that is `RecordsAreHeeded`.
* DOM snapshots: an explicit snapshot that took its generation earlier can
  replace a later one; a background push between an explicit push and its patch keeps the patch out.
  A failed write of `layout.txt`, `refs.json` or `meta.json` is only logged
  (`handlers.rs:762-811`): the entry is patched and the reply names `allRefsPath`
  (835-838) though there may be no such file. A directory that cannot be removed
  stays, after a failed split (754) as after a prune (895), and no caller is told.
  `NothingIsMixed` excepts both.
* Discovery: the gate on stale records is skipped when some recorded application
  refuses its identity (`discovery.rs:709`); of two records with one port only
  the first is probed.
* A continue whose checkpoint cannot be stored (`service.rs:1876`) leaves a run
  queued without a driver. Quarantine age is wall-clock time (`resources.rs:100`).
* Tools: some refusals made before anything is sent are plain errors, which
  become unknown outcomes and quarantine: those of `drag` (`handlers.rs:1263`,
  1281, 1290), `get_pointed_element`, unknown actions, and every failure of a
  search in a snapshot; `docs/release-notes/0.17.2.md:14` wants them not to. A refusal
  by Tauri's access control is reported without effect though earlier
  statements of the same script may have acted.
* Calls: a lease that comes late is in no client's patience but that of the
  protected screenshot, though the comment at `crates/client/src/lib.rs:36` speaks of
  client waits in general; a drag of thirty seconds outlives the standalone
  server's thirty-five; a page that is slow rather than silent in several scripts
  of one screenshot can do so as well. `AnsweredInTime` excepts the first two and
  takes pages that are prompt or silent. A plain screenshot through the
  standalone server leaves two seconds for what three deadlines take to be
  noticed, the least of all tools.
* Console: a periodic push in flight when the page is asked (`bridge.rs:3074`) makes
  a read miss its entries, and a flush that timed out loses those it took. The
  line that says how many early messages were dropped (`bridge.rs:1887`) is never
  read: it is pushed ahead of as many early messages as the bridge keeps
  (`MAX_EARLY_LOGS` and `MAX_LOGS` are both 500), and shifted off again at 1893.
  The host goes on reporting listeners of `ipc_listen` and a monitor as in place
  after a reload that ended them.
* Screenshots: a change undone between two probes is invisible to them; a capture
  dropped at its deadline leaves its target handle in the page.
* Artifacts: prune deletes files and then rewrites the manifest in place; copies
  of one application share the directory but not the lock; the eight hex digits
  of a name repeat every 4.3 seconds; every entry has the kind `screenshot`, so
  that a list or prune by another kind finds nothing.
* Sessions: a handler reads the clock before it has the lock, so `last_seen` may
  go back; a wall clock set forward prunes every idle session.
* Workflow pages: change and keyup may go to an element that is no longer the
  target. The page's JSON pointer accepts `length` of an array, its depth limits
  are one looser than the validator's. Five texts pass the validator and are
  refused by the page, when earlier steps of the run have acted: a blank locator
  name; a byte order mark alone, which JavaScript trims and Rust does not; a key
  with an unknown modifier or without a key (`page.js:209`); a selector that does
  not parse (`semantic/core.js:161`); and a sensitive name of an attribute to read
  (`page.js:237`). `AcceptedCanRun` excepts these. The budget of one step's size is
  looked at again with its references expanded (`value_expr.rs:258`), where it may
  be exceeded though no literal was; sizes are not modelled.
* The include flags of `debug_snapshot` and `webview_act_and_verify` default to
  true in the embedded MCP server only; over the WebSocket they default to false,
  unlike `crates/cli/skill/references/mcp-tools.md:510` has it.

## What is proved

Every theorem holds for all values of the constants, under only the assumptions
declared beside them in the modules, which TLC evaluates on the runs. Each
component's inductive invariant was first checked by TLC, on instances of the
size of the runs', before it was proved. An invariant is proved by one lemma or
step per action; what an action leaves alone is said once, by lemmas about frames.

### Leases and commands

`LeaseProofs` proves of `ResourceArbiter`, for every set of resources, callers and
requests and every value of the bounds:

* `TypeCorrect`: `Spec => []TypeOK`
* `MutualExclusion`: `Spec => []ActiveIsExclusive`: two entries of the table that
  conflict are both quarantined, so no active lease shares a resource, a parent or
  a child with anybody.

`ActiveIsExclusive` is not inductive. A quarantine restored from the journal is
inserted without a look for conflicts, so nothing active may be in the table
before recovery; a caller inserts its lease under its own id, which must not be
there already; and the caller that is inside the mutex must be one that tries.
The inductive invariant is

    IInv == TypeOK /\ CallerOK /\ SectionOK /\ ActiveOK /\ ActiveIsExclusive

`CallerOK`: a caller that tries or waits has no entry, and if it asks for
anything recovery is done. `SectionOK`: the caller inside the mutex is trying.
`ActiveOK`: an active entry belongs to a leased caller, and claims something
only after recovery. Removal of entries (drop, sweep, release, late settlement)
keeps it by one lemma, `RemovalKeepsIInv`; insertion is `GrantKeepsIInv`, where
the test of `try_acquire` is used. The step theorem has a case per action, and
`Invariance` closes with temporal logic.

It goes on from `IInv`:

* `NoWakeupIsLost`: `Spec => []NoLostWakeup`. Stronger than it looks: a caller
  asleep and not yet notified is blocked by what is in the table. Entries that
  stay keep it asleep for good reason (`SleepersStayBlocked`); whatever removes
  an entry empties `waiting`.
* `SettledIsNotQuarantined`: `Spec => []SettledNotQuarantined`. A settlement
  removes the quarantines of its request (`SettlementFollows`), a quarantine is
  only made when its request is not in the history (`PutUnsettled`), and the
  history forgets but never changes its mind into "known" by itself
  (`RecordLateKnows`, `NothingNewFollows`).
* `EntriesLeaveForCause`: `Spec => IsolationEndsForCause`.
* `ArbiterImplementsIsolation`: `Spec => ImplementsIsolation`, the refinement:
  under the mapping of `ResourceArbiter`'s `Abstract` each step is a step of
  `Isolation` or a stutter (`LiftMaps`, `NextImplements`). It needs one more
  invariant, `WantOK`: who is inside `acquire_within` asks for one of `Scopes`.
* `LateHistoryIsBounded`: `Spec => []LateHistoryOK`, which no run has as a
  property: the history is within its limit and has a request once.

Of `CommandLeases` it proves `EffectsAreExclusive`, `CommandSpec =>
[]ExclusiveEffects`, for any number of commands and requests. A step of the
commands is a step of the arbiter, except for a client that leaves the queue
(`CommandStepsNext`, `AbandonKeepsIInv`), so that `IInv` is reused. The invariant
is

    CommandIInv == IInv /\ CommandTypeOK /\ StageOK /\ TableOK /\ PageOK
                        /\ LateOK /\ Apart

`TableOK`: a command has its lease until its answer is dealt with, and a
quarantine only under its own request. `PageOK`: a script that still runs is
waited for, or gave no answer, or is isolated, or was lifted. `LateOK`: only what
the page settled is remembered as known. `Apart`: no two claims meet, quarantined
or not, which the arbiter alone cannot promise, for it restores quarantines from
the journal side by side; here it follows because nothing is quarantined that
was not leased.

### Bridge

`BridgeProofs` proves, for every set of sockets and requests and every bound on documents and pins, from `BridgeAssumption` alone:

* `TypeCorrect`: `Spec => []TypeOK`
* `MirrorAlwaysAgrees`: `Spec => []MirrorAgrees`
* `NoneStranded`: `Spec => []NothingStranded`
* `StaleForEver`: `Spec => PinStaysStale`
* `LeavesForCause`: `Spec => ClientLeavesForCause`
* `RunsAtMostOnce`: `Spec => []AtMostOnce`
* `ToldTheTruth`: `Spec => []AnswersAreTrue`

The first five share `BridgeInv == TypeOK /\ Mirror /\ Tasks /\ Pins`. `Mirror`
has the connection as well as the key, with or without a client. `Tasks`: a
registered connection has a task that has not yet removed it, which is why an
entry made under the lock is always made before the rejection. `Pins`: as long
as a pin's key is the window's, the registry has that key and either equals what
the pin saw or has a greater revision. Lemmas say which actions touch the
registry (`WhatRegisters`), the tasks, the pending entries and the pins, that
keys are fresh and that revisions count; the theorems on steps follow from them.

`AtMostOnce` and `AnswersAreTrue` rest on `CallInv`: a request is at one place
at a time. Between attempts there is no trace of it (`Untouched`); on its way
or in the page it is there once (`OnePlace`), and has no reply; a reply comes
once, when it has left the page (`OneReply`), and a refusal means that its body
did not start (`Runs`). A request sent natively has no pending entry
(`OneWay`), which is what makes a refusal safe to retry on the other transport.
Most steps leave a request alone or lose its traces, and one lemma,
`QuietPlace`, serves for all of them.

### Workflow

`WorkflowProofs` proves, for every set of runs, any number of steps and slots and
any choice of the steps that write or have a postcondition, from
`WorkflowAssumption` and `NothingAssumption`:

* `ActsAtMostOnce`: `Spec => []AtMostOnce`
* `DoubtIsNotLost`: `Spec => []DoubtIsKept`
* `ReportsTellTheTruth`: `Spec => []ReportsAreTrue`
* `WritesNeverMeet`: `Spec => WritesDoNotMeet`

The invariant `WorkflowIInv` speaks of one run at a time, but for the claims:
`IndexOK` (steps up to `index` are verified and have acted, those after the next
are untouched), `PlaceOK` (what is known of the step at each await of the driver:
before the dispatch it is untouched and, once intended, on disk),
`NotDispatchedOK` (an outcome of not dispatched is never kept over a dispatch),
`ReportOK` (every report, in memory and on disk, is one that a later process may
rely on: it knows of the intent, is not final while a write is in doubt unless it
is quarantined, and says completed only if all was done), `DoubtOK` (in doubt,
the driver has not decided yet or the run is isolated) and `ClaimsOK` (two
claims stand side by side only if both are isolated, as all claim the whole
application; from the lease to the end of `leaving` the run has a claim). Recovery needs
`ReportOK` of the disk and nothing else: it isolates what is in doubt. That a
write is alone follows from `DoubtOK` of the other run and `ClaimsOK`.

### Journal

`WorkflowProofs` proves `NextOpenCanRead` (`JournalSpec => []HistoryIsReadable`),
`OneWriter` (two processes never have the journal at once) and
`JournalImplementsLog` (`JournalSpec => ImplementsDurableLog`), for any number of
processes, runs, records, keys, revisions and places in the queue. `JournalIInv`:
`OwnerOK` (only the holder of the lock has anything of the journal in memory),
`KeyOK` (a key is only made where there is no history, a history's key is whole
and its name synced, and every record, queued or written, has it), `WriterOK`
(the writer that still accepts remembers at least the last revision of each run
in the file; the record it is writing is the unsynced last line; a torn line
means it is poisoned) and `FileOK`. For the refinement, the synced prefix is
`DurableLog`'s log: a successful sync extends it and acknowledges, a power loss
leaves it, for it drops what is behind it, and every other step stutters. What open reads back
(`LastRevisionIs`) is the greatest of a set of naturals; that it exists is
`GreatestExists`.

### Runtime

`HandleProofs` proves `OneRuntime` (`RuntimeSpec => []OneRuntimePerDocument`) and
`RunsAreConfirmed` (`RuntimeSpec => []RunsWhereConfirmed`) for any callers, window
lives and page epochs. A document that took an installation is ready until it is
hidden and comes back under a new epoch (`DocumentOK`); whoever holds a flight asked the page
after all earlier attempts of that flight (`HolderOK`), and the mark of an attempt in
this document is only cleared by a runtime that is ready in it (`MarkOK`). The
attempt to prove that a flight tries once per document failed for a reason:
with three callers, one of which looked up a window that has since been destroyed,
`failed_for` has one place and the late caller's key replaces the other's. Two callers, as in the
run, cannot show it. `TriedOnce` now excepts exactly that (`Excused`), and counts
the attempts that came too late to be sent.

### Picker

`PartsProofs` proves `LeaseFollows` (`PickerSpec => []LeaseFollowsSurface`) for any
pickers, active at once up to any limit, and any number of documents. A surface is put up only by
the one start that is sent (`StartsOnce`), and that is sent while the entry has
the lease; `PickerOK` says, for what gives the lease back (a start not sent or
refused, a confirmed removal, another document), that no start is out and no
surface is up that is not removed.

### Batches

`PartsProofs` proves `BatchRunsInOrder` (`BatchSpec => []RunsInOrder`) for any
number of actions and every graph that `validate` accepts. The count of an
action is the number of its dependencies that are not over, and the queue holds
what is free, once each (`CountsOK`). So when nothing runs and nothing is queued,
whoever is not over waits for another that is not; and `validate` found all
actions in the rounds of Kahn's algorithm (`RoundsAre`), of which the earliest
with such an action gives a contradiction. The rounds are a recursive function
on `0..NumActions`; that it exists is shown through a least counterexample, not
by a theorem of induction.

### Discovery

`HandleProofs` proves `RightInstanceFound` (`DiscoverySpec => []RightInstance`)
for any processes, clients, directories, ports and pids. Of `Startup` it needs the
types only: nothing is assumed of when processes start, end and take ports, for
a client trusts nothing that it did not verify. `CallsOK`: a call is queued only
on a connection that ends at the pin, and an open queue is never carried over to
the next dial. `FindsOK`: every record that was read left evidence (a candidate,
one nearby, a stale application or a refusal), and with evidence others count
only if they are of the stale applications. `ChoiceOK` keeps what was chosen
until the connection is made.

### Snapshots

`HandleProofs` proves `SnapshotsDoNotMix` (`SnapshotSpec => []NothingIsMixed`) for
any number of calls and background pushes and any number of directories kept.
Every snapshot and every push has a number of its own (`NumbersOK`). While the
entry of the window has the generation that an explicit call drew, it holds that
call's snapshot, and only a background push moves the generation on
(`EntryOK`); that is why the comparison before the patch is enough. What was
written is there until a prune evicts it (`FilesOK`): all subtrees, or the call
answered without files, and of the files beside them those whose write did not
fail. For the bound on directories, `PrunerOK` counts those that are neither of a
call that will still prune nor about to be removed, and that the file system did
not refuse to remove: the limit holds for them at all times, and so for all but
the refused ones when nobody is at work.

### Logs

`PartsProofs` proves `LogsStayComplete` (`LogsSpec => []LogsAreComplete`) for any
number of entries, loads and stray flushes and buffers of any size. The lines of
the page's buffer have consecutive numbers (`Numbered`), so those after the last
that was pushed are its last lines, and they are exactly the ones that were
never handed over (`BufferOK`). An entry is in one place, in a buffer, in a push,
in a reply or in the log, or it is lost (`PlacesOK`); what is left in the buffers
after a flush that was answered came later (`ReaderOK`).

### Artifacts

`PartsProofs` proves `SavedStays` (`ArtifactSpec => []SavedIsKept`) for any number of
saves, faults and `keep` arguments. The difficulty is to relate the prune, which
sorts lines by time, to what the property allows it to let go, which counts
others as new: in the sorted order, a line beyond the first `keep` has `keep`
others before it. Two artifacts under one path are of one millisecond, and the
lines of a millisecond are in the order of the saves (`Ordered`, `FilesOK`), so the
file of one that is kept is not deleted with one that is not (`PruningOK`). The
sort is any bijection that is in order, and is not computed.

### Tool calls

`CallerProofs` proves `RepliesTellTheTruth` (`ToolSpec => []RepliesAreTrue`) for every
tool, every state of the page's hooks and any number of dispatches. `BodyOK` and
`HeardOK` say that what was heard is no more than what the script did; `EvidenceOK`
that what it did was counted since its mark or may have gone by a channel that is
not observed. The three parts of the property, that no effect stays no effect,
that what was not dispatched is untouched, and that what is in doubt stays
isolated, are conjuncts of the invariant, for they are about the rest of the
script's life as well: a script whose wait timed out goes on.

### Screenshots

`CallerProofs` proves `ReceiptsTellTheTruth` (`ShotSpec => []ReceiptsAreTrue`) for
any number of requests, attempts, callbacks, images and disturbances. A page never
returns to a look it had, so what a request saw is ordered: its binding, its mask
and first probe, the frame, the second probe, all no later than the page is now
(`ShotOK`). Where the two probes agree, the frame between them shows what both
saw. A native callback belongs to the generation that asked for it
(`GenerationsOK`), so a late one is not taken for another's; the store holds what
was promised (`PromisesOK`) and charges what it holds (`StoreOK`).

### Sessions

`CallerProofs` proves `SessionsEnd` (`SessionsSpec => SessionsEndForCause`) for any
sessions, streams and handlers. A handler reads the time before it waits for the
lock; `TimesOK` bounds how old that reading is, and with it how far `last_seen`
may lie behind. `RemovalsOK`: a task that removes a legacy session was spawned by
the end of its stream.

### Times

`CallerProofs` proves `CallersOutwaitThePlugin` (`CallSpec => []AnsweredInTime`) for
every timeout a caller may pass, where the run takes three, and `CallsActOnce`
(`CallSpec => []ActsOnce`). A plan of scripts `Takes` at most n milliseconds if
there is a bound for what is left at each of its places that every way through a
script respects; that of one plan after another is the sum (`InTurnTakes`). What
each tool takes (`Worst`) is then compared with each client's patience
(`AllWait`), and `TimeOK` carries the difference through the steps of the call. It
assumes what `CallConstants` says: a prompt page answers within 1.5 seconds, the
shortest deadline of a script; three deadlines lag by less than two seconds
together, which is all that a screenshot through the standalone server leaves;
and a lease is granted before `LeaseQueueWait` is over. The proof found that the
drags excepted by `Outlived` begin a lag earlier than the run had shown. For
`ActsOnce`, only the first script acts, no plan returns to it, and what is sent
again was refused before it or acts never (`ActsOK`).

### The workflow's step

`WorkflowProofs` proves `StepHappensOnce` (`DispatcherSpec => StepsHappenOnce`) for any
elements, packets and whatever handlers of the application do between the events.
`CarrierOK`: as soon as the step is in the cache, one packet carries it, and every
other found the cache and only replied. The carrier is the only code on the
stack, it has interacted once it is past its checks and not before, and what
is in the cache says no less than that. It also proves `AcceptedRuns`
(`BindingSpec => []AcceptedCanRun`) for conditions and locators of any size: of a
specification that was accepted, what is resolved has the type that validation
saw unless a step produced it (`ResolvedOrData`), and the page finds no fault but
the five texts of `PageOnly` (`PageAgrees`), which the goal cannot meet, for they stopped
the step before it.

### Capture sessions

`CaptureProofs` and `CaptureStopProofs` prove, for any number of sessions, sources,
documents and disturbances and a store and a queue of any size, from
`CaptureConstants` alone:

* `CaptureTypeCorrect`: `CaptureSpec => []CaptureTypeOK`
* `NothingMissed`: `CaptureSpec => []ReaderMissesNothing`
* `LeasesLostForCause`: `CaptureSpec => LeaseLostForCause`
* `NothingLostUntold`: `CaptureSpec => []NoEventLostUntold`

Most of what the host does to its store is one of five things: the store ages
(sessions and sources end or are forgotten, nothing begins), a source is drawn,
a session starts, sessions follow a page to its new source, a batch is added.
Each is a relation between two stores (`Ages`, `Draws`, `Starts`, `Follows`,
`Adds`), shown once of the operations and used wherever one of them occurs; an
action's step is then a short composition of them.

The invariant has three layers, each proved to be kept with the help of the ones
before it. `ReadInv` is about numbers. The page numbers what it records; what is
queued, or in a batch that was never answered, is above all that the store has
seen of its source, and what is in a batch that was answered is seen or was evicted
(`NumbersNew`). So a batch that the transport delivers again adds nothing, and one
that is new adds each of its events behind every cursor. It also says that a
document has one live source, that nothing but the last script in the page is
awaited, and that a script that configures the page is the first (`ScriptsOK`).
`LeaseInv` is about who is named: a script leaves out a session that its source
serves only while that session is being confirmed or stopped (`LeasesKept`), and a
batch that was refused finds no served session's lease in the page, unless the
source was interrupted (`EndsFairly`): the generation, which every change of the
leases moves, is what makes this so.
`TrackInv` follows each recorded event: for a session that captures and has
counted no drop it is stored, or on its way, or the page knows that it is lost; when the
page has answered that it is drained, nothing of the stopped session is on its way
and no script can give it its lease again (`DrainOK`); and so a session that is
complete has all of it, within the range of its numbers (`Tracks`). That a drop is
counted is needed wherever the chain breaks: an interrupted source, a stop without
a drain, an evicted event (`DropsTold`, `Adds`).

### Only model-checked

Liveness, which is beyond the prover, stays with TLC: `EveryCommandAnswered`,
`ClosingEnds`, `EveryDriverEnds`, `EveryCallEnds`, `TimedOutIsSettled`,
`EveryPickerCompletes`. So do the five violations, which a counterexample shows.
Every safety invariant and every action property of a passing run is proved.

Beyond it are also ENABLED, induction over recursive data and RECURSIVE
operators; no module here declares one.

## Not modelled

Some two fifths of the Rust lines are unit tests. Of the rest the modules leave
out what has no state or order to get wrong: parsing and printing, schemas of
tools, rendering of snapshots and of names and roles of elements, image
encoding and pixels, redaction, instructions for setup, the diagnosis of a
machine (`crates/cli/src/doctor.rs`), code for one platform beyond the callbacks it
owes, the TypeScript clients, which speak an older form of the same protocol,
build scripts and examples. Within modelled parts, `PROJECT.json` says under
`components` what was left out of each. Two copies of one process are modelled for
PID files, ports and the journal, but not for artifacts. Time is a counter
everywhere except in `Calls`; memory is counted in images only.
