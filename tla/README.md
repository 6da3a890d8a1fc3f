# A verification project for BMT AI OS

BMT AI OS (`src/bmt_ai_os`) is an operating system image for ARM boards that
runs a local AI stack.  Its own logic is Python: a controller that supervises
containers and serves an API, a router over LLM providers, a fleet server with
agents on the devices, over-the-air updates of two root slots, and services for
accounts, training, memory, plugins and certificates.  This directory holds
TLA+ models of the parts whose correctness depends on interleavings, crashes,
timeouts, boundary values and long sequences of calls, the TLC runs that check
them and TLAPS proofs of their central invariants.

    tlc -workers 2 -config MCFleet.cfg MCFleet      # one run
    tlapm FleetRegistryProofs.tla                   # one module of proofs

`PROJECT.json` lists the components, the runs, the source lines behind each
definition, the hazards of the code and the theorems.

## 1. The system: an inventory

| Component | State | Operations | What is hard | What makes it correct | Module |
|---|---|---|---|---|---|
| Fleet registry `fleet/registry.py`, `routes.py` | cache of devices and command queues under one lock; SQLite tables | register, heartbeat, enqueue, broadcast, deploy, remove; load at start | the cache changes before the database; a method may raise or die between two commits; `command_id` is chosen by the client; deploy releases the lock | a command is answered once, to one device, not after its removal; a restart rebuilds the cache | `FleetRegistry` |
| Fleet agent `fleet/agent.py` | bounded offline queue, thread, stop event | loop: flush, send, execute, queue on failure; run, stop | a heartbeat has a side effect on the server and its answer can be lost; `stop` gives up waiting | commands run at most once and in order; telemetry is kept; one loop | `FleetAgent`, `Fleet`, `Lifecycle` |
| OTA engine and orchestrator `ota/`, `update/`, `cli.py` | JSON state file, U-Boot environment, two root slots | check, download, apply, confirm, rollback, boot-time rollback | power loss at each step; two sources of truth for the current slot; no locks | the device can boot; a bad update is left again | `OTA` |
| Controller `controller/main.py`, `health.py` | consecutive failures, breaker and history of each service; thread, shutdown event | check, decide, restart; start and stop | two counters with different resets; restarts of minutes inside the loop; signals at any step | restarts are limited, a failing service is restarted, a stopped stack stays down | `Supervisor`, `Lifecycle` |
| Provider router `providers/router.py`, `circuit_breaker.py` | a breaker per provider | chat, embed, reset, reading the state | outcomes arrive after the breaker has moved on; cancelled coroutines | a bad provider is skipped, probed within a limit, and used again | `ProviderRouter` |
| Provider registry, discovery, API `providers/registry.py`, `controller/discovery.py`, `provider_routes.py`, `openai_compat.py`, `tool_executor.py` | registered providers, the active one, health history; requests in progress | register, reorder, list, chat, embed, stream, tools | requests hold names and providers over awaits | health is counted once per check | `Providers` |
| Provider clients `providers/*_provider.py`, `ollama.py`, `vllm.py`, `llamacpp.py` | none beyond a connection pool | chat, stream, embed, health check | which of eleven outcomes is repeated, and how often; an error before the headers is not one in the body | only what can be cured is repeated, within the limit; no success without an answer | `Clients` |
| Provider keys and OAuth `controller/provider_config_routes.py` | SQLite table of keys; pending OAuth states | add, use, cool down, authorize, callback | a callback that comes twice, late or for another provider | a state is spent once, at its own provider | `ProviderKeys` |
| Training pipeline `training/*.py` | files: dataset, adapter, merged model, GGUF; a trainer in memory | prepare, train, merge, convert, register | each step looks only at whether its input exists; a call may raise or be killed half way | what is served is explained by the dataset and by errors that were reported | `TrainingPipeline` |
| Training jobs `controller/training_routes.py`, `prometheus.py` | SQLite table of jobs; what the last scrape remembers | create, update, cancel, progress, scrape | check and update are two transactions; counters from differences | a job that ended stays ended; each end is counted once | `TrainingJobs` |
| Accounts `controller/auth.py`, `auth_routes.py`, `user_routes.py`, `rate_limit.py`, `middleware.py` | users, login attempts, JWTs, their blacklist, a sliding window | login in three transactions, lock, unlock, logout, manage users | a counter and two locks with different expiries; the command line beside the controller | a lock holds for its time; a logged-out token stays out | `Accounts` |
| Memory `memory/*.py`, `controller/conversation_routes.py` | conversations, messages, full-text index, memories | store, search, build a context, consolidate | a consolidation is many transactions; a budget smaller than a message | consolidated once and whole; searches are exact; contexts fit | `Conversations`, `ContextWindow` |
| Plugins `plugins/*.py` | enabled set in each process and in a JSON file | discover, enable, disable, load | a save that fails silently; a file that cannot be read counts as empty; several processes write the whole file | what was set is what is read next | `Plugins` |
| Terminals `controller/terminal_ws.py`, `ssh_ws.py` | a PTY or SSH session per socket; the shared executor | open, pump both ways, close | reads block threads that writes need; text that is JSON is not for the shell | input in order and in the end; nothing outlives its socket | `Terminals` |
| Packages and builds `dlc/*.py`, `controller/image_routes.py` | profiles, manifests, builds | wizard, configure, export, build | cyclic, missing and required dependencies | a manifest is complete and in order | `Packages` |
| RAG `rag/*.py` | ChromaDB collections | chunk, ingest, query | overlap arithmetic; headings in front of each chunk | chunks cover the text, each under its heading, and repeat little | `Chunker` |
| TLS `tls/*.py`, `tls setup` | pairs of files | generate, renew, load, sign | a kill between or inside two writes | a key fits its certificate | `Certificates` |
| Personas `persona/*.py`, `persona_routes.py`, `file_routes.py` | SOUL.md files, the activated one, a cached assembler | set, save, activate, edit, delete, chat | several routes find the file each in its own way | a chat is told what was saved | `Personas` |
| Command line `cli.py` | none of its own | one-shot commands on the state of the others | runs beside the controller on the same files | that of the others | within the others |
| Collector, messaging, MCP, git, SSH keys, metrics, benchmarks, logging, dashboard, image, kernel | files, counters | one call, one effect | - | - | not modelled (section 5) |

How they interact.  The controller process hosts the API (all `*_routes.py`) on
one event loop, the health thread, the registry and the terminals; agents and
the dashboard reach it over HTTP and WebSocket.  The registry, the OTA state,
jobs, accounts, conversations, keys, plugin settings, personas and certificates
survive on disk; the rest is lost with the process.  Requests interleave only
where a handler awaits: providers, identity providers, terminals.  The command
line is a separate process that writes the same files and databases, so its
commands fall between two transactions of the controller.

## 2. What is modelled

| Module | Of | Kind |
|---|---|---|
| `CommandDelivery` | what the fleet server promises about a command | abstract specification |
| `FleetRegistry` | `fleet/registry.py` and its routes | component |
| `FleetAgent` | the loop of `fleet/agent.py` | component without a specification of its own |
| `Fleet` | registry, agents and HTTP | composition |
| `OTA` | `ota/`, `update/orchestrator.py`, the update commands | component with its environment |
| `Supervisor`, `Lifecycle` | health thread and its restarts; start and stop of controller and agent | components |
| `ProviderRouter`, `Providers`, `Clients`, `ProviderKeys` | from a request of the API to the service that answers | components |
| `Accounts`, `TrainingJobs`, `Plugins`, `Terminals`, `Certificates`, `Personas` | services of the controller and the command line | components |
| `TrainingPipeline` | from a raw dataset to a model in Ollama | component |
| `Conversations`, `ContextWindow` | history, search and consolidation; what a model gets of it | components |
| `Packages`, `Chunker` | dependency resolution, chunking | algorithms, with the operations that call them |
| `Folding` | the loops over sequences that `ContextWindow`, `Chunker` and `Packages` are made of, and selections from a sequence | operators |
| `FleetRegistryProofs`, `FleetProofs` | theorems about the registry, that it implements `CommandDelivery`, and about the fleet | proofs |
| `DeviceProofs` | theorems about `OTA`, `Supervisor`, `ProviderRouter` | proofs |
| `ControllerProofs` | theorems about `Accounts`, `ProviderKeys`, `Certificates`, `Lifecycle`, `Plugins`, `Terminals` | proofs |
| `ServiceProofs` | theorems about `TrainingJobs`, `TrainingPipeline`, `Personas`, `Conversations`, `Clients`, `Providers` | proofs |
| `FoldingProofs` | induction over numbers and sequences, and what the operators of `Folding` compute | lemmas |
| `AlgorithmProofs` | theorems about `ContextWindow`, `Chunker`, `Packages` | proofs |
| `ControlPlaneProofs` | that the components `MCControlPlane` checks together behave as their own specifications say, so that their theorems hold of the whole | proofs |
| `MC*` | instances for TLC | model checking |

Operators whose comment begins with "Faulty:" are plausible bugs of the
definition that follows them.  Nothing uses them: each one, put in the place of
that definition, breaks a property, which shows that the property depends on
the code it talks about.

Three conventions hold everywhere.  A handler is one action from one point where
it can be interrupted to the next (a lock released, a transaction committed, an
await, a file written), with everything it changes on the way.  A time is the
number of ticks left or gone, not a clock.  Variables commented "history" are
read by properties and by no guard of the code; those commented "external" are
the environment.

### Fleet

*Registry.*  Methods hold the lock, so a method is one action; where it can stop
half way it has one action per outcome.  `heartbeat` is `HeartbeatNoop`,
`HeartbeatCommand` (pop, mark as delivered, answer), `HeartbeatUpsertFails` and
`HeartbeatMarkFails` (SQLite raises before or after `pop(0)`) and
`HeartbeatDies` (the process dies between the two commits).  `enqueue_command`
extends the queue, then inserts; the insertion can raise or meet the UNIQUE
constraint, which the code swallows.  `deploy_model` and `broadcast_command`
are `DeployStart`, `DeployOne`, `DeploySkip`.  `Crash` loses the cache, `Restart`
is `_load_from_db`.  A request is one call of `enqueue_command`; the constant
`IdOf` gives its `command_id`, so that ids can be repeated.
`CommandDelivery` is the promise: a request is accepted once, waits, and leaves
for good, answered to one device or dropped.  The refinement maps `waiting` to
what a queue *or a pending row* holds, because a restart turns a row into a
queue entry again.

*Agents and network.*  An agent has at most one HTTP call out, which the server
handles (`Serve`), refuses, or which times out before or after the server
handles it (with a stray that is handled later) or whose answer is lost.  The
flush peeks, posts and removes after the answer, and does not read the body.  A
heartbeat that fails is queued with a *new* timestamp, as in `_loop`.
`PrintHeartbeat` is the one-shot heartbeat of the command line.

### OTA

`update apply` and the OS stage of `update run` are `Found` or `NoUpdate`,
`DownloadFails`, `Refused` (signature) or `StartWrite`, `WriteDone` or
`WriteFails`, and `Switch`; minutes and other commands lie between them.
`get_current_slot` prefers U-Boot's `slot_name` to the state file; `hasEnv` says
whether the board has U-Boot, both are covered.  `switch_slots` swaps the
pointers of the file whatever slot was written and does not tell U-Boot;
`rollback_update` swaps them whatever the other slot holds and tells U-Boot if
it can.  `confirm_boot` reads and writes apart (`StartConfirm`, `EndConfirm`): it
alone writes back pointers it has read.  Power can fail in any state.

### Controller and router

*Supervisor.*  One round is a check of each service, a decision for each failed
one in the configured order, then the wait.  Time counts in units of
`health_interval`; during a restart the other breakers age by up to `RestartMax`
units.  *Lifecycle.*  The main thread's steps, the signal handler on top of them,
the health thread's restart, and the containers; uvicorn keeps a signal until it
has stopped serving.  `AgentRun`, `AgentStop` and `AgentLoopEnds` are the
agent's threads.  *ProviderRouter.*  An action is what happens between two waits
for a provider: record the outcome, skip what is not available, call the next
one.  Reading the property `state` may turn an open breaker half open.  `Cancel`
is a cancelled coroutine, which records nothing.

### Providers, clients, keys

`Providers`: a request keeps the names or the provider it has read while it waits
(`ListStart`/`ListEnd`, `Call`/`CallAnswers`, `AskNamed`, `AskActive`), streams may break
half way, and `chat_with_tools` goes round at most `MaxIters` times.  `Clients`: each
client is a record of what it repeats; a call is a log of outcomes.  A connection
that breaks or a timeout before the headers ("cut", "late") is an outcome of its own
beside one in the body ("torn", "slow"): `_request_with_retry` of the OpenAI-style
clients is over with the headers, so the second kind reaches the caller at the first
attempt and untranslated.  An answer without content ("empty") is `Good` where the
client takes it for one; the OpenAI client's `embed` hands an empty list on
(`NothingEmbedded`).
`ProviderKeys`: the table is a sequence of rows; a callback takes its state, which is
gone whether it fits or not, compares its provider (`FitsProvider`), waits
for the exchange, and stores or fails.

### The other services

- `Accounts`: a login is three transactions (`LoginStart`, `LoginFetch`, then
  `LoginFails` or `LoginSucceeds`), commands of the command line fall between them;
  both lock tables and both expiries are there.
- `TrainingJobs`: `UpdateRead` and `UpdateWrite` are the two transactions; `Scrape`
  turns rows into counters as `prometheus.py` does, by the difference to the last
  scrape and by the position in the list of durations.
- `TrainingPipeline`: the calls of a script, one at a time, each cut where it can leave
  a file half written; a file holds the numbers of the records it was made from.
- `Conversations`: the FTS index holds words by row number and reads the row from
  the content table, as an external-content FTS5 table does; a deletion looks for
  the row when it is gone.  A consolidation is one action per transaction; one runs at
  a time, which is a bound: nothing in the code keeps out a second one, and two that
  overlap may remember a conversation twice.
- `ContextWindow`: the arithmetic of `build_context` on word counts; its loops, those of
  the chunkers and of the resolution are folds of `Folding`.
- `Plugins`: each process has a cache; it loads the file, or nothing when the file
  cannot be read (`LoadStateFails`) or holds no JSON object (`FileIsSpoilt`, done by
  something outside); a save writes the whole file or fails unseen.  Two histories say
  what ought to be in the file: `saved`, the plugins whose last setting a write has
  put there, and `knows`, the settings each process has made or read.
- `Terminals`: the executor is a queue of jobs and a set of running ones.  A message
  is of one of three kinds: bytes or text for the shell ("typed"), text that is a
  JSON object and stays in the handler ("control"), and text that is other JSON, a 5
  typed alone, at which `_read_ws` ends with an `AttributeError` and the session with
  it ("json").  A shell may print at any time, and may leave a process behind that
  holds its terminal open ("held").
- `Packages`: depth-first resolution (`Visit`, by how deep the recursion may still go), both wizards, the two places a
  manifest is written to, and the states of a build.
- `Chunker`: a document is lines with kinds and word counts, a chunk a sequence of
  pieces of line numbers under a heading; text, code and Markdown chunkers on every
  short document.  `TextOf` is a chunk with the heading in front, which each chunk of a
  long section gets.
- `Certificates`: each file write is opening (the file is torn) and finishing; a
  process may be killed in between.  The PKI for mutual TLS is checked pair by pair.
- `Personas`: the two ways in which the workspace is found, the assembler that keeps
  what it found first, and the agents' own files.

## 3. What is checked

| Run | Checks | Bounds |
|---|---|---|
| `fleet_registry` | `AtMostOnce`, `OnePlace`, `PendingRowsAreQueued` (no orphaned row), `SurvivesRestart` (the database rebuilds the cache), `ImplementsCommandDelivery` | 2 devices (symmetric), 3 requests of which 2 share an id, 1 SQLite error, 1 crash |
| `fleet` | `ExecutedAtMostOnce`, `ExecutedInOrder`, `NothingLostWithoutFaults`, `TelemetryIsKept` | 1 agent, 2 requests, offline queue of 2, timestamps to 3, 2 network faults or reboots, 1 crash |
| `live` | Fleet: `QueuedIsFetched`, `OfflineDrains`; Terminals: `TypedIsWritten` | 1 agent, 1 request, 1 network fault, 1 SQLite error, 1 crash; 2 terminals on 2 threads, 1 message |
| `device` | OTA: `BootSlotIsWhole`, `NextBootIsWanted`, `UnconfirmedSlotIsLeft`; Supervisor: `RestartsAreLimited`, `FailingIsRestarted`; Router: `ClosedWhileFewCallsFail`, `ExhaustedIsProbed`, `AvailableAgain` | 2 updaters, 2 releases, 3 commands, 2 unconfirmed boots; 2 services, restart after 2, open after 4, reset 2; 2 providers, 3 requests, open after 2, 2 probes |
| `control_plane` | one property per component: `LockoutHolds`, `LoggedOutStaysOut`, `TimesMatchStatus`, `EndedStaysEnded`, `EndsAreCountedOnce`, `HistoryIsSound`, `ContextFits`, `SettingsAreKept`, `StatesAreSpentOnce`, `HealthIsCounted`, `RetriesAreSound`, `StackStaysDown`, `OneAgentLoop`, `SessionsAreOrderly`, `ManifestsAreComplete`, `ChunksAreSound`, `PairsAreWhole`, `SavedIsTold`, `PipelineIsSound`; and `ControlPlaneTypeOK` | below |
| `fleet_duplicate`, `fleet_returned`, `ota_inactive`, `supervisor_reset`, `supervisor_thread`, `lifecycle_shutdown`, `training_durations` | each violates one statement of a comment or a document (below) | `supervisor_reset` has the default settings, the others small ones |

**Combined runs.**  `MCDevice`, `MCLive` and `MCControlPlane` check components that share no
state in one run.  `focus` is chosen once and names the component that moves; the
others stay in an initial state.  The reachable states are therefore the sum and
not the product of the components' states, and each property is checked on all
the states of its component.  Interactions between components are modelled where
they exist: `Fleet` composes registry and agents, `Lifecycle` the threads of the
controller, `Terminals` the sessions that share an executor.

**Deadlock** is checked in the runs of the fleet, the device and the supervisor.
In `control_plane`, `lifecycle_shutdown` and `training_durations` it is not:
builds, terminals, jobs and a controller that has exited stop, and a document
stops growing at its bound.

**Why these bounds are enough to be interesting.**  *Registry*: two requests with one
id and one of its own give every order of repeated, lost and restored commands;
two devices are needed for removal, deployment and repeated ids across devices;
one error and one crash together already produce each mixture of stale row and
missing queue entry, and the proofs remove the bounds.  *Fleet*: two requests for
order, two faults for a lost answer followed by a lost retry, an offline queue
that overflows.  *OTA*: two updaters overlap; three commands are two updates and a
rollback in any order.  *Supervisor*: room for two restarts below the threshold; a
restart can outlast the reset.  *Router*: more requests than probes, so that late
outcomes meet a half-open breaker.  *Accounts*: two failures lock, one name is
enough since rows of different names do not interact.
*Jobs*: two callers race on a job, two jobs end in either order.  *Memory*: two
conversations, so that one is deleted or created while the other is consolidated.
*Context*: budgets below, at and above the reserve, a message and the system
messages.  *Plugins*: two processes.  *Keys*: one state and two callbacks that both
want it; two providers, one of them in two spellings, so that a callback may come under
its own name, another spelling of it or another provider's.  *Providers*: two requests, two names.
*Lifecycle*: three loops, so that a stop can be followed by two more runs.
*Terminals*: in `control_plane` a PTY and an SSH session on two threads with two messages
between them, so that one waits behind the other; in `live` two PTYs on two threads,
whose reads take both, also after one of them is closed.
*Packages*: all dependency relations on three packages, with cycles and missing
ones.  *Chunker*: all documents of four lines whose lengths are zero, fitting, and
longer than a chunk.  *Certificates*: controller and `tls setup` overlap; three pairs,
so that a renewal follows an interrupted renewal.
*Pipeline*: every kind of record of each format; one call breaks, at any point, and
any calls follow.

### Fairness

- `FleetFairness`: the loop has a thread of its own and waits at most
  `heartbeat_interval`; a call ends within `_REQUEST_TIMEOUT`; the init system
  restarts the controller.  Faults are bounded, which is the assumption that
  connections eventually succeed; nothing is assumed of the operators.
- `OtaFairness`: a device that is off boots; a device that nobody confirms is
  restarted; strong fairness of the init system's step, since a board that
  loses power before that step on *every* boot never counts its boots.
- `Supervisor`: weak fairness of the thread; nothing of the services.
- `ProviderRouter`: `wait_for` ends each call within its timeout, and time passes
  (`Cool`).

- `TermFairness`: the threads of the executor serve the queue and end the calls that
  can end, and the event loop takes the input.  Nothing is assumed of clients and
  shells, so a silent terminal may keep its thread for ever.

`LiveFairness` in `MCLive` is the first and the last of these, `DeviceFairness` in
`MCDevice` the other three.

The components of `control_plane` have safety and action properties only.

### Conditions on the properties, and why they are there

Several properties carry a condition, each because the code does not promise more.

- Without `dbErrors = 0` order and persistence of commands fail: the row of a command
  may stay pending after the command left the cache, and comes back at a restart.
- `BootSlotIsWhole` needs one command at a time (nothing locks the slots), no
  confirmation that undoes a switch (nothing locks the file) and no switch to an
  empty slot (nothing looks at it, and a dry run switches without writing); it then
  holds through every power failure.
- `NextBootIsWanted` and `UnconfirmedSlotIsLeft` concern boards without U-Boot: with
  it, a switch is not told to `slot_name`, and whether the board's boot script knows
  is not in the repository.
- `ExhaustedIsProbed` and `AvailableAgain` need that nobody cancelled a request: a
  cancelled probe leaves a half-open breaker with no attempts left and nobody to
  move it on.
- `EndedStaysEnded` and `EndsAreCountedOnce` except jobs of which two updates
  overlapped: a cancellation and a completion can then both be written.
- `SearchesAreExact`, a part of `HistoryIsSound`, holds until the first deletion.
- `SettingsAreKept` excepts a setting whose own write failed and was not followed by
  another one of the same process, the settings in a file that was spoilt, and those
  that a process overwrites which had neither made nor read them, because it started
  earlier or could not read the file.  That the code lets all of this happen is
  told under "Met while reading" below.
- `SessionsAreOrderly` promises that nothing typed is missing only for terminals: a
  write to an SSH channel that fails is dropped without a word.  `TypedIsWritten`
  excepts connections that end and an executor whose threads are from some time on
  all held by silent terminals (`Exhausted`): the hazard at `terminal_ws.py:146`.
- `RetriesAreSound` promises no embedding for each text of a request, which no client
  looks at, and calls the empty list of the OpenAI client by its name ("nothing")
  rather than an answer.
- `ChunksAreSound` adds the heading to both of its bounds: `MarkdownChunker` and
  `ObsidianChunker` put it in front of every chunk of a long section after the
  lengths were compared, so that such chunks exceed `chunk_size` and repeat it.
- `StackStaysDown` excepts a restart that outlasts the join of 10 s and a signal
  before the server runs; `OneAgentLoop` excepts a loop that `stop` has given up.
- `ContextFits` needs a budget with room for the system messages and a summary of
  one word.  `PairsAreWhole` excepts processes that overlap, a forced setup that is
  cut off and an interrupted second file of the PKI.  `SavedIsTold` holds while the
  workspace is still the one the assembler has found.

### Disagreements between code and documentation

Found by a run:

1. *A repeated `command_id` is not ignored* (`fleet_duplicate`).  The comment says
   "Duplicate command_id — ignore (idempotent)", but the queue was extended before
   the insertion; the device receives both.
2. *Commands in the answers to flushed heartbeats are dropped* (`fleet_returned`).
3. *A second update before the reboot overwrites the running slot*
   (`ota_inactive`).  The target is the opposite of a pointer that has already moved.
4. *An open breaker does not reset after `circuit_breaker_reset`*
   (`supervisor_reset`).  Each failed check refreshes `last_failure_time`, so with the
   default settings the timeout never elapses while the service fails.
5. *One slow restart ends the health thread* (`supervisor_thread`).
6. *A signal during the start does not end the controller* (`lifecycle_shutdown`): it
   stops the stack and then serves without it.
7. *A job's duration is observed twice, another one's never* (`training_durations`),
   when a job ends before an older one between two scrapes.

Met while reading, each visible in the module named, without a run of its own:

- `Conversations`: after a deletion the full-text index keeps the words; a later
  conversation that gets the row number answers for them
  (`conversation_routes.py:323`, against "Full-text search over conversation titles.",
  line 211).
- `OTA`: `update apply` never downloads the signature file, so it succeeds only with
  `BMT_OTA_ALLOW_UNSIGNED=true`; `--dry-run` switches the slots without writing.
- `Fleet`: `fleet heartbeat` of the command line prints the command it receives; the
  server has marked it as delivered.
- `Accounts`: with `BMT_API_KEY` set and users present, neither kind of credential
  passes both checks of a non-exempt route; a token keeps the role of its login.
- `Providers`: `docs/api/overview.md:50` promises 502 and 503 for failing providers,
  some paths give 500; `Clients`: a date in `Retry-After` becomes a `ValueError`, the
  total timeout a `TimeoutError` instead of `ProviderTimeoutError`, and a chat repeated
  after a timeout may be executed twice.
- `ProviderKeys`: the renewal of a stored OAuth token that equals a manual key
  updates another row (`provider_config_routes.py:765`).
- `Plugins`: "the process state always matches what is persisted" (`manager.py:8-10`, 42),
  for which `enable` and `disable` roll back when `_save_state` raises an OSError; but
  `_save_state` swallows it (line 97), so nothing is rolled back, success is reported, and
  the setting is gone after a restart.  A state file that cannot be read for a moment
  counts as empty, and the next change writes the file without all the other settings
  (lines 66-73).  A process that started earlier writes back what it knows over what
  another one has set since.
- `Terminals`: as many idle shells as the executor has threads block what every client
  types (`terminal_ws.py:146`); a line typed as one text frame that is a JSON object
  never reaches the shell, and one that is a number, a string or a list ends the
  session (`terminal_ws.py:174-183`, `ssh_ws.py:311-316`).
- `Chunker`: fences do not protect headings (`chunker.py:134`); a heading longer than a
  chunk with nothing under it is lost; the heading in front makes chunks longer than
  `chunk_size` (`chunker.py:170`, 402).
- `Clients`: the OpenAI-style clients repeat no request whose body is cut
  (`openai_provider.py:286`, 382), and return no embeddings without an error when the
  service sends none.
- `Conversations`: two consolidations that overlap remember a conversation twice.
- `Packages`: the wizard drops unknown packages without a word.
- `Certificates`: one of `BMT_TLS_CERT` and `BMT_TLS_KEY` alone is ignored; renewal is
  looked at only when the controller starts; an interrupted second PKI file is never
  repaired.
- `Personas`: the assembler keeps the workspace it found first, so that a persona set
  later is shown by the route and not told to a chat before a restart; a copy of
  SOUL.md cut short stays blank.
- `TrainingPipeline`: an error in `prepare_dataset` leaves a shorter dataset, which
  trains without a word; `register_with_ollama` promises a RuntimeError "When Ollama is
  not reachable after registration." (`export.py:248`) and logs at most a warning; an
  error in `configure` leaves the status "configuring"; a
  first stage of the conversion that fails leaves its intermediate file.  A ShareGPT
  role with blanks around it is accepted by the iterator and refused by
  `validate_sharegpt_record`, a turn that says nothing the other way round.
- `TrainingJobs`: progress changes after the end of a job (`training_routes.py:330`); a
  status that no row has any more keeps its old value in `bmt_training_jobs_total`.
- Elsewhere: `DocumentIngester` passes arguments its chunker does not take
  (`rag/ingest.py:53`), so that ingestion always fails while `/ingest` answers
  "accepted"; `git status -z` rename records are parsed as two entries; the request
  log reads its trace id after the middleware has cleared it; `MetricsCollector` is
  never fed.

## 4. What is proved

For every value of the constants that satisfies the modules' assumptions:

| Module | Theorem | Says |
|---|---|---|
| `FleetRegistryProofs` | `TypeCorrect`, `OnePlaceAlways`, `AnsweredAtMostOnce`, `RemovalIsFinal` | `FleetRegistry`: `TypeOK`, `OnePlace`, `AtMostOnce`, `RemovedStaysRemoved` |
| `FleetRegistryProofs` | `RegistryImplementsCommandDelivery` | the registry implements the abstract specification |
| | `RestartRebuildsTheCache`, `NoRowIsOrphaned` (from `MirrorAlways`) | `SurvivesRestart`, `PendingRowsAreQueued` |
| `FleetProofs` | `FleetRunsTheRegistry` | `Fleet` takes only steps of the registry's specification, so the six theorems above hold of it |
| | `CommandsRunAtMostOnce`, `CommandsRunInOrder`, `NoCommandIsLost`, `TelemetryOutlivesFailures` | `ExecutedAtMostOnce`, `ExecutedInOrder`, `NothingLostWithoutFaults`, `TelemetryIsKept` |
| `DeviceProofs` | `OtaTypeCorrect`, `DeviceCanBoot`, `NextBootIsSelected` | `OtaTypeOK`, `BootSlotIsWhole`, `NextBootIsWanted` |
| | `SupervisorTypeCorrect`, `BreakerIsExact`, `RestartBudget` | `Supervisor`: `TypeOK`, `ClosedWhileFewFailures`, `RestartsAreLimited` |
| | `RouterTypeCorrect`, `RouterBreakersAreExact`, `ExhaustedIsAlwaysProbed` | `RouterTypeOK`, `ClosedWhileFewCallsFail`, `ExhaustedIsProbed` |
| `ControllerProofs` | `AuthTypeCorrect`, `LocksHold`, `LogoutIsFinal` | `AuthTypeOK`, `LockoutHolds`, `LoggedOutStaysOut` |
| | `KeysTypeCorrect`, `NoStateIsSpentTwice` | `KeysTypeOK`, `StatesAreSpentOnce` |
| | `TlsTypeCorrect`, `PairsFit` | `CertificatesTypeOK`, `PairsAreWhole` |
| | `LifeTypeCorrect`, `ShutdownSticks`, `AgentLoopIsSingle` | `LifeTypeOK`, `StackStaysDown`, `OneAgentLoop` |
| | `PluginTypeCorrect`, `PluginSettingsSurvive` | `PluginTypeOK`, `SettingsAreKept` |
| | `TermTypeCorrect`, `TerminalsStayOrderly` | `TermTypeOK`, `SessionsAreOrderly` |
| `ServiceProofs` | `JobTimesAgree`, `EndsAreFinal`, `EndsCountedOnce` | `TimesMatchStatus`, `EndedStaysEnded`, `EndsAreCountedOnce` |
| | `JobTypeCorrect`, `MemoryTypeCorrect`, `ClientTypeCorrect`, `ProvidersTypeCorrect` | `JobTypeOK`, `MemoryTypeOK`, `ClientsTypeOK`, `ProvidersTypeOK` |
| | `PipelineStaysSound` | `PipelineIsSound` |
| | `WhatIsSavedIsTold`, `HistoryStaysSound` | `SavedIsTold`, `HistoryIsSound` |
| | `RetriesStaySound`, `ChecksAreCounted` | `RetriesAreSound`, `HealthIsCounted` |
| `AlgorithmProofs` | `ContextTypes`, `ContextAlwaysFits` | `ContextTypeOK`, `ContextFits` |
| | `ChunkTypes`, `ChunksAlwaysSound` | `ChunkTypeOK`, `ChunksAreSound` |
| | `PackTypes`, `ManifestsAlwaysComplete` | `PackTypeOK`, `ManifestsAreComplete` |
| `ControlPlaneProofs` | `EachBehaves` | `ControlSpec` implements the specification of each of its sixteen components |
| | `ControlPlaneTypeCorrect`, `ControlPlaneIsSound` | `ControlPlaneTypeOK`, and the other properties of the run `control_plane` |

`BreakerIsExact` is proved and no run checks it: its `ClosedWhileFewFailures` says of
the supervisor's breaker what `ClosedWhileFewCallsFail` says of the router's.

A theorem whose invariant carries a condition (section 3) carries the same one.
The bounds of the models (commands, faults, errors, times) are constants like any
other: the theorems hold for every value of them.

### Assumptions

They are the `ASSUME`s of the component's module, and TLC evaluates each of them in
a run.  What they say of the code:

- the limits and periods are natural numbers, positive where the code has a
  positive constant or default (thresholds, attempts, lifetimes, threads of the
  executor, the offline queue), and `MaxFailed > 1`;
- marks of absence ("none", "torn", `NoCommand`, ...) are none of the names they are
  the absence of; PTY and SSH sessions are different, and the setup command is not
  the controller;
- the requests of the registry and the row ids of the memory database are finite in
  number and ids are numbers, as SQLite's are;
- `Supervisor`: the configured order names each service once; `Personas`,
  `Certificates`: the listings of agents and of the PKI are sequences;
- `Fleet`: heartbeats carry the times `1 .. MaxTime`;
- `TrainingPipeline`: a dataset is a finite sequence of records.  `Certificates`: a
  certificate is renewed no earlier than it was made.  `Providers`: the ports discovery
  probes have different names, as in `_CANDIDATE_PORTS`; the cap on
  the counted errors, a bound of the model, lies above the length of the history, so
  that it is never what limits the count;
- `ContextWindow`, `Chunker`: budgets, lengths and sizes are natural numbers, and chunks
  overlap by less than their size (the defaults are 512 and 50 words; nothing in the
  code checks it);
- `Packages`: there is a package, and presets are lists of packages.

Services, devices, accounts, tokens, plugins, sessions, callers, providers and
callbacks are sets of which nothing is assumed.

### The arguments

Each safety theorem has the same outline: the invariant of the runs is not inductive,
a stronger one is, and the proof has one step per action of the component.  What
is added, and why:

**Registry.**  `AtMostOnce`: a state in which an answered request still waits in a
queue satisfies it and breaks it one step later.  `OnePlace` says where a request
is: one not yet made is nowhere; an id has one row; a queued request is queued once,
at the device its row names; what was answered or removed waits in no queue and in no
pending row.  The last part is the heart: `HeartbeatMarkFails` and a crash may leave a
row pending whose command left the queue, but then it was not answered; and a
repeated id is marked together with its original, so a row can not bring back what
was answered.

**Refinement.**  From `OnePlace` alone: what waits was made, what was answered does not
wait.  A step is a request, an answer, or a step after which fewer requests wait (or
none, a stutter); queueing after an error, a removal, a repeated id and a crash
are of the last kind.

**Cache and tables.**  `Mirror`: without SQLite errors both tables agree with the
cache while the controller runs, and pending rows belong to devices that have a row also
while it is down.  A crash needs the part that holds while it is down; the restart
gives the other part back.

**Fleet.**  `FleetStepsTheRegistry` shows that a step of the composition is a step of the
registry or leaves it alone; so the registry's theorems are cited and not proved
again.  The agent's part is `Fit` (how far its call can be, given where its loop is),
`ExecutedAt` (the command of an answer not yet executed was answered and is not among
those executed), `QueueOrdered` and `ExecutionAt` (older commands were handed out,
executed and queued before younger ones, in queues and in the rows a restart
loads), and `CalmAt` (while nothing has failed nothing is in the offline queue, whose
answers are not read).  `ExecutedAtMostOnce` combines `ExecutedAt` with the registry's
`AtMostOnce`.

**OTA.**  `SlotsInv`: until two commands overlap one updater at most is under way and
its target is the slot that would not boot; no updater survives a reboot; what is
about to be switched to is the release that was read back.  `BootSlotIsWhole` and
`NextBootIsWanted` are conjuncts of it and are proved together.

**Supervisor.**  Nothing in `RestartsAreLimited` relates past restarts to the failures
counted so far.  `Spent(s)`: while the breaker of s is closed each restart of the
outage was tried at a failure count of its own, so there are at most
`failureCount - MaxRestarts` of them, and one more when this round's decision has
been taken.  A restart needs `consecutive >= MaxRestarts`, and `consecutive <= failureCount`
(part of the type invariant) ties the two together.

**Router.**  `Probed(p)`: without cancellations, a half-open breaker whose `attempts` is
positive has a request among its `probes` that is waiting for p.

**Lifecycle.**  `ShutdownInv`: a handler that has begun has set the event, and when
the stack is stopped the health thread, which alone could start containers again, is
gone or was given up.  `OnlyTheCurrentLoop`: a loop no stop has given up is the agent's
current thread.

**Plugins.**  `CachesAreFresh`: a process has in its cache what was last set for the plugins
it knows, so that writing the whole file puts exactly these into it.

**Terminals.**  `Executor`: a job waits once, is not running too, and at most `Workers`
run.  `HandlerFits`: which jobs and which shell a session can have, given how far its
handler is; an open session may have a read and a write, a closed one no waiting
job.  `InputFits`: what the shell got was typed, and taken before, and while a write
is in the executor it is the message taken last and was typed; order follows, and
that nothing is missing, since a write that fails closes the session.

**Accounts.**  `AttemptsKeepLocks`: `login_attempts` alone keeps each lock for its whole
time (the other table is lost with the account), and a login under way has found no
lock.  `EntriesOutlive`: the entry of a logged-out token lives as long as the token, and
its id is not issued again.

`BucketFits`: the rate limiter records a login only where the limit leaves room, and
what it keeps of its list is no longer than the list (`KeptShorter`).

**Keys.**  `StatesInv`: a state never made is neither pending nor exchanged, so that a
callback that takes a pending state, which takes it away for good, is the first; and a
pending state is stored under the provider it was made for.

**Certificates.**  `Undisturbed`: one process at most is busy, between its two writes the
key file holds its key, its certificate is torn while it is written, and when nobody
writes a certificate not due goes with the key.  `PkiInv`: each pair is whole, absent, or
the one in work; without a whole CA nothing has been signed; the pairs before the
one in work are made.

**Jobs.**  `TimesInv` also speaks of the row an update has read, which may be out of
date when it is written.  `SeenIsCurrent`: unless updates overlapped its status is
still the job's.  `CountersInv`: the existing jobs are finite in number, so that those
that ended can be counted, and cardinalities of sets that grow do.  `RowsFit`: an update
that is to write has read a job that exists, so that the table has a row for each job
and no other, and no more durations are remembered than it has rows.

**Pipeline.**  `PipelineInv` says what each file holds relative to the records read so
far: while `prepare_dataset` runs, the file holds what it read and the counters add
up; data handed on is the reading of some first records, and of all of them unless a
preparation broke; a partial file is being written or a step that broke explains it.

**Memory.**  `ConvInv`: until the first deletion the rows are numbered one by one, in
the table and in the index; nothing a consolidation under way is still to write has
a memory yet, and the messages it has read are all of the conversation it writes
next, unless that was deleted meanwhile.  After deletions `RowsAreDistinct` is left: rows
in use are at most as many as ids were generated, hence there is a largest one, and the
next row is past it (`NextRowIsNew`).

**Personas.**  `EditsStay`: the file of an agent that a user has edited holds what was
saved, which no later creation of presets overwrites.

**Clients, Providers.**  `TalkIsSound`: while the client asks or sleeps, every request so
far came to something curable; a stream that is read began with an answer.
`LogIsSound`: one more request is then allowed.  `Counts`: some run of k failures
ends the history and the count is k, or at least k once the run is as long as the
history.  `OrderFits`: the order lists no provider twice, and the active one is listed as
long as any is; a selection from a sequence repeats nothing that the sequence does not
(`KeptDistinct`), and a new order with the same names and length repeats nothing either.

**Loops over data.**  The induction theorems of the library take an operator as a
parameter, which the provers cannot instantiate, so `FoldingProofs` derives induction
for sets: `<` is well founded on the numbers, so a set of them that is not empty has a
least one (`LeastNumber`); hence a set that holds 0 and with each number the next holds
all of them (`Induction`), and a set that holds the empty sequence and with each
sequence those of one element more holds all of them (`SeqInduction`).  A property is
then the set of what has it.  `RecursionExists` gives a recursive function that takes
given steps, so that the one CHOOSE names takes them too, and `FoldAppend` is the law
that everything else uses: a fold over `Append(s, x)` is one step more than that over
`s`.  The other operators of `Folding` (`Total`, `Gathered`, `Joined`, `Kept`) have their
laws from it.

**Context.**  Each lemma on `Compact` bounds the tokens of one part: the messages kept are
the longest suffix that fits the room left (`TrimmedFacts`), a summary cut to
`SummaryLimit` fits even if it is rounded up (`SummaryLimitFits`), and tokens of system and
other messages add up to all (`CountSplits`).  The invariant says that the context is
the one built from the history stored.

**Chunks.**  `MergeSound`, by induction over the pieces: merging keeps the lines of
pieces in their order, and each new chunk begins with an end of the one before of at
most `Overlap` words.  The chunkers differ in how they cut a document into pieces;
that each way keeps the lines in order and loses only blank ones is an induction over
the lines of the document (`TextSound`, `CodeSound`, `MarkdownSound`).  For Markdown each
section holds a heading and lines that stand under it, so a heading is not among
the lines of its chunks (`HeadLineFacts`), the text of a chunk is in order with its heading in
front, and what a chunk repeats is the carry and, within a section, that heading
(`TextFacts`, `ApartContinues`).

**Packages.**  Each package has one of three colours: it is unseen, being visited (seen and
not listed) or listed.  `WellVisited`: the list has no package twice, and what a listed
package needs is seen, and is listed earlier or needs it in turn.  A call keeps this
and leaves the packages being visited as they were (`Settled`), given that each of
them needs the package it is called for (`Chain`): so what is seen and not listed at
the time a package is listed closes a cycle.  By induction over the list of
dependencies and over the depth; a call sees one package more, so that the depth
`MaxPackage` is never used up (`VisitWorks`).  At the end nothing is being visited, so the
list is closed, and it holds nothing that was not asked for, since `WellVisited` also keeps what
is seen within any closed set that holds the roots.  For builds: a manifest that
exists is what its profile resolves to, hence exporting it again changes nothing.

**Control plane.**  A step of `ControlNext` is a step of one component that leaves the
variables of the others (`OneMoves`), so it is, for each component, a step of its own or
a stutter (`EachSteps`).  A behaviour of the whole is therefore one of each component's
specification, and what is proved of the components holds of the whole.

### What stays with TLC

- *Liveness* (`QueuedIsFetched`, `OfflineDrains`, `UnconfirmedSlotIsLeft`,
  `FailingIsRestarted`, `AvailableAgain`, `TypedIsWritten`): out of reach of TLAPS.
- The runs that expect a violation: TLC shows the trace.

## 5. What is not modelled

- *Collector, messaging channels, MCP server, benchmarks, logging, git and SSH key
  routes, status pages*: one call, one effect, no state that a later call depends on;
  a model would restate assignments.
- *Training itself, merging and quantizing*: done by PyTorch, PEFT and llama.cpp; in
  `TrainingPipeline` they copy what they are given or raise.  Progress, metrics, the
  split for evaluation and the TensorBoard log are left out.  Nothing in the source
  connects a `LoRATrainer` with the table of `TrainingJobs`.
- *RAG storage and queries*: calls of ChromaDB; a query is a function of what is
  stored.
- *Signatures, hashing, encryption, password hashing, the SSL context*: computed by
  libraries; where the outcome matters (`Refused`, login, `LoadPair`) it is a choice.
- *Message formats and token counts of the clients* (with them answers that are not
  JSON, embeddings for some of the texts only, and a date in `Retry-After` of a 503), parsing of configuration files,
  telemetry fields, latencies*: data that no modelled decision reads.
- *A corrupted OTA state file*: the code replaces the file by a rename and never tears
  it; it would read any other corruption as the defaults.
- *Dashboard, operating system image, kernel*: a web interface and build files.

## 6. Plan

The models are complete as far as sections 2 and 5 say, and every safety property
of the passing runs is proved.  What is left:

1. A refinement of an abstract specification for the OTA engine (a device that runs
   one whole release and changes it by confirmed updates), as `CommandDelivery` is one
   for the registry.
2. Properties for the hazards that have none (`PROJECT.json`, "hazards" with a note).
