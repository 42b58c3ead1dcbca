# A TLA+ model of Spouet

Spouet is a self-hosted platform that puts several LLM machines ("nodes") behind one
API.  A FastAPI backend talks to the web client, keeps its data in Postgres, its
short-lived requests in Redis, and runs Celery workers and a Celery beat; on every
machine a node agent drives `llama-server` processes and one image pipeline.  Nearly
every part of it is a handful of coroutines, threads or processes that share a row, a
key, a lock, a file or a child process, and wait (for HTTP, Docker, IMAP, SMTP, a model)
between reading it and writing it.  Those waits are what this project models.

`src/` below is the repository.  Line numbers are those of the modelled commit; the
exact lines behind every definition are in `map` of `PROJECT.json`.

## 1. Inventory

### Parts that are modelled

| Part | State it keeps | Operations | Hard because | Correct when |
|---|---|---|---|---|
| Agent control API, `node-agent/spouet_agent/{agent_api,llama_server,main}.py` | `_load_status`, `_load_lock`, `LlamaServer._process`/`_current_model`, the files, the child processes | load, unload, config, delete, download; llama.cpp update loop; self-update; boot and exit | handlers answer at once and leave a task behind; the update loop and the heartbeat use the same object without the lock; a child may die, fail or be slow at any await | tasks do not overlap in `start`/`stop`, no server is left behind, "loading" ends |
| Cold start, `backend/spouet/nodes/agent_client.py` | none: it polls the agent | check, post, poll, time-out | between two polls another chat loads another model, the agent restarts | whoever was told "ready" meets its own model or none |
| Hardware and configuration, `node-agent/spouet_agent/{capabilities,llama_server,agent_api}.py` | the hardware found at boot, the configuration of llama-server | boot, load, patch, refuse | a dozen sources that contradict each other; sizes at their limits | layers only where a GPU was found; what was computed fits in the memory |
| Heartbeats and the naming server, `node-agent/spouet_agent/main.py` | what runs, the report being made, the row of the backend | start, watch, restart; look, ask, post | a report is made across awaits, arrives late, twice or never | a report was true when it was made; the row settles on what runs |
| Self-update, `node-agent/spouet_agent/self_update.py` | the checkout, the stamped and the running commit | compare, pull, leave, start | pulls fail, are late, cross a request of the administrator | a version that was deployed arrives |
| Downloads of models, `agent_api.py`, `backend/spouet/api/nodes.py`, `web/src/lib/downloads.svelte.ts` | the one status of the agent, the pages that follow it | pull, poll, close | one status for all files, answers that overtake each other | one download at a time, published as it is; no page polls for ever |
| Image pipeline, `image_gen.py`, `image_api.py` | `_pipe`, `_current_model`, two thread locks, a cache of weights | generate, load, delete, pull | two globals written one after the other, read under another lock | they agree whenever the lock is free; the model asked for is the one used |
| Node registry, `backend/spouet/api/nodes.py`, `workers/tasks.py` | rows of nodes and models | heartbeat, create, delete, poll, sweep | four writers, row locks, copies held across probes | the models of a row are those last reported; who answers is online |
| Metrics, `workers/tasks.py`, `api/nodes.py` | two partitioned tables | insert, roll up, create and drop partitions, chart | days, minutes and late ticks; default partitions | charts show whole windows; rolled minutes are whole; old rows go |
| Router, `backend/spouet/nodes/router.py` | none: it reads the rows | pick for a chat, an image, a title; failover | rules that overlap, a fallback for each | a failover tries nodes in the promised order |
| Chat reply, `orchestrator/chat_loop.py`, `api/conversations.py` | the messages of a conversation | send, regenerate, edit; failover; tool turns; cancellation | placeholders are committed before their text; a failover, a stop or another tab cuts in | every stream ends, once; history stays a conversation |
| The stream of an answer, `nodes/client.py`, `orchestrator/tool_salvage.py` | the pieces accumulated of each call | read a chunk, put calls together, salvage calls from the text | chunks are cut anywhere; one call may come structured or written | each call of the model runs once and whole |
| Names, `orchestrator/autoname.py`, `api/conversations.py` | title and tags | rename, tag, autoname | a model is awaited between read and write | what the user wrote stays |
| Voice dialogue, `web/src/lib/voice.ts`, `VoiceMode.svelte` | queue of sentences, recorder, timers | speak, mute, cancel; listen, stop, transcribe | every call of the browser is awaited; flags are read before and used after | sentences in order; "listening" listens |
| Voice engine, `voice-engine/`, `api/voice.py` | models loaded on demand, two locks | transcribe, speak | threads; failing loads; a backend that gives up | a model is loaded once and every request ends |
| Tool calls, `tools/approval.py`, `tools/runner.py`, `api/tools.py` | requests in Redis with a time to live, execution rows, containers | ask, decide, poll, expire, run, record, cancel | the decision, the time-outs and the administrator race | nothing runs unapproved or untraced; every call ends |
| Desktop bridge and macros, `desktop/bridge.py`, `orchestrator/builtin_tools.py`, `api/desktop.py`, `web/src/lib/realtime.ts` | one key per step in Redis, events | publish a step, execute it, answer, poll | answers that are late, lost or given by several applications | a macro that answers "ok" had its steps done in order |
| Built-in tools, `orchestrator/builtin_tools.py` | the session of a reply, macros, sub-agents | define a macro, start a sub-agent, wait for the user | one session for the reply and everything it starts | a built-in never kills the turn; replies end |
| Workspaces, `api/workspaces.py`, `_execute_delegate` | manager, workers, the delegation | delegate, run the worker's reply, hand it back, delete | the worker replies in the manager's session; nodes fail in the middle | the manager is told what its worker wrote |
| Memory, `memory/files.py`, `memory/store.py` | files under a quota; rows by key | write, delete; upsert, forget | count, then write; look, wait, insert; several processes | the quota holds up to the writers under way |
| Image gallery, `images/storage.py`, `api/images.py` | rows and files under a quota | generate, prune, delete | a row dated before its image exists; requests cut anywhere | a row has its file; the quota holds |
| Documents, `rag/{ingest,chunker}.py`, `api/rag.py` | rows, chunks | upload, cut, embed, delete | an embedding is awaited for each batch; restarts | a document that searches use has its whole text |
| Spotify tokens and the vault, `spotify/{client,oauth}.py`, `secrets/store.py` | refresh token, access token | renew, store, log in, disconnect | Spotify turns the token it is shown | the vault holds a token that is accepted |
| Mail synchronisation, `mail/sync.py`, `mail/imap_client.py`, `workers/tasks.py` | accounts with `last_uid`, mails, drafts, a Redis lock; the mailbox | fetch, classify, insert, move, commit | the lock expires during a long cycle and is deleted by whoever leaves; crashes fall between IMAP and commit | no mail is skipped, one draft per mail |
| Drafts, `api/mail.py`, `mail/smtp_client.py` | status and body of a draft | send, edit, reject | the SMTP exchange lies between the check and the commit | "sent" was sent; one mail, as stored |
| Connectors, `connectors/manager.py`, `api/connectors.py`, `api/realtime/connector_ws.py`, the monitor in `workers/tasks.py`, `cli/admin.py` | the row (status, container id, token hash), the container, the sockets | start, stop, restart, delete, refresh, install, monitor, connect, close | Docker calls between read and write of the row; four writers of `status` | the running container can authenticate; the status tells the truth in the end |
| Bridge, `connectors/bridge.py` | routes and conversations of a channel | find or create, answer, delete | concurrent first messages, a unique constraint, cascades | one conversation per channel |
| Realtime hub, `realtime/hub.py`, `api/realtime/{sse,websocket,connector_ws}.py` | channels of Redis, streams | publish with retries, subscribe, send on | lost answers of Redis, streams that come and go | the events of a publisher arrive in order, whole while the stream is up |
| Discord bot, `connectors/registry/discord/bot.py` | one task per command | look up the channel, cut, post | each command is a task of its own; pieces fail | what is posted of a command is its text |
| Scheduled jobs, `api/jobs.py`, `scheduler/syncer.py`, `workers/{app,tasks}.py` | job and run rows, `beat_schedule` of each process, the queue | create, change, delete, trigger; take, retry, redeliver | late acknowledgement, retries, deaths; the schedule lives in several processes | every order ends; a run that is "running" is being worked on |

How they interact: a chat reply picks a node (router over the registry's rows), makes it
load the model (cold start against the control API), reads the stream of
`llama-server`, and runs tool calls (approvals and containers, the desktop, macros,
sub-agents, delegations, memory, images).  The bridge and the jobs start the same reply.
The mail cycle asks a model as well.  The agent tells the registry of itself by
heartbeats; metrics are inserted by the same request.  Everything else meets in the
database and in Redis: cascades of foreign keys, unique constraints, row locks and
time-outs are part of the models, not of the environment.

### Parts that are not modelled

`PROJECT.json` lists each of them with its reason.  In short:

* accounts, keys and passwords; prompt texts; web search; database schema, settings and
  health checks; statistics: single statements on one row, library calls or formatting;
* installation scripts and the tools of the registry: programs that run once; what they
  leave to the system is an action: the version that `install.sh` stamps (`Deploy`), the
  systemd unit that starts an agent again (`AgentStarts`), a tool that runs (`Execute`);
* web client and desktop application: the stream of events and desktop actions, the
  popups of downloads and the voice dialogue are modelled; pages that only show what
  they were sent are not.  Elsewhere a client makes any request at any time;
* inside modelled parts: the recognition of speech by the browser, the texts of messages
  and prompts, embeddings and their similarity, cron expressions, sensors, clones and
  exports of conversations, the logs and the config of a connector.

## 2. Modules

| Module | Role | Instance |
|---|---|---|
| `AgentControl` | the control API and `llama-server`, one step per stretch between two awaits | `cold`, `nodes` |
| `ModelSlot` | abstract specification: what a node promises about its one model slot | `cold` |
| `ColdStart` | `AgentControl` composed with the backend's calls of `ensure_model_loaded`, and the refinement mapping to `ModelSlot` | `cold` |
| `AgentUpdate` | how a node comes to a new version | `nodes`, `update_restart` |
| `NodeRegistry` | rows of nodes and models, four writers, transactions and row locks | `nodes` |
| `NodeMetrics` | the partitioned measurements of a node and its charts | `nodes`, `metrics_default` |
| `NodeRouter` | the choice of a node as formulas over a table, and the failover on it | `nodes` |
| `ImagePipe` | `image_gen.py` and `image_api.py`, one shared access per step | `agent` |
| `ModelDownloads` | a download from the page to the agent | `agent` |
| `NodeHardware` | the probe and the configuration derived from it | `agent` |
| `AgentPulse` | heartbeat, naming server, the row they reach | `agent` |
| `ChatReply` | replies on one conversation | `chat` |
| `TokenStream` | the chunks of one answer and the calls in it | `chat` |
| `ConversationNames` | title and tags | `chat`, `title_rename` |
| `VoiceDialogue` | player and microphone of the web client | `chat` |
| `VoiceEngine` | threads, locks and models of the engine | `chat` |
| `ToolApproval` | tool calls with approvals, executions and containers | `assistant` |
| `DesktopBridge` | runs of desktop actions and macros | `assistant` |
| `BuiltinTurn` | macros and sub-agents on the session of a reply | `assistant`, `builtin_session` |
| `Workspaces` | delegations to workers | `assistant` |
| `MemoryFiles`, `MemoryRows` | the two memories of a user | `assistant` |
| `ImageGallery`, `Documents`, `SpotifyTokens` | as their names say | `assistant` |
| `MailSync`, `MailDrafts`, `JobRuns` | the mail cycle; the drafts; jobs, schedules, queue, workers | `worker` (`JobRuns` also `jobs_beat`) |
| `ConnectorLife`, `ConnectorRoutes` | the container of a connector; the channels behind it | `connector` |
| `EventHub`, `DiscordBot` | from `publish()` to a socket; from a socket to Discord | `connector` |
| `SequenceFacts` | facts about what is computed along a sequence, for sequences of any length | |
| `AgentControlProofs` | proofs about the control API, and that it implements `ModelSlot` | |
| `AgentServicesProofs` | proofs about `ImagePipe`, `ModelDownloads`, `AgentPulse`, `NodeHardware` | |
| `NodesProofs` | proofs about `NodeRegistry`, `NodeMetrics`, `NodeRouter` | |
| `ChatProofs` | proofs about `ChatReply`, `TokenStream`, `ConversationNames`, `VoiceDialogue`, `VoiceEngine` | |
| `AssistantProofs` | proofs about `ToolApproval`, `MemoryFiles`, `MemoryRows`, `SpotifyTokens`, `ImageGallery`, `DesktopBridge`, `Documents`, `Workspaces` | |
| `WorkerProofs` | proofs about `MailSync`, `MailDrafts`, `JobRuns` | |
| `ConnectorProofs` | proofs about `ConnectorLife`, `ConnectorRoutes`, `EventHub`, `DiscordBot` | |
| `MCAgent`, `MCChat`, `MCAssistant`, `MCWorker`, `MCConnector`, `MCNodes` | instances for TLC | |

*Scenes.*  An MC module extends several components that do not meet.  Its variable
`scene`, chosen in the initial state from the constant `Scenes`, says which component
acts in a behaviour; the others keep one initial state.  The state space is the sum of
those of the components, not their product, and one run checks them all.  Fairness is
stated for each component with its scene as a guard.  A property that joins those of
several components (`DialogueIsSound`, `WorkerEnds`, ...) is a conjunction whose parts are
defined and explained in their modules.  Components that do meet are composed in a
module: `ColdStart` with `AgentControl`, `AgentPulse` with the row of the backend,
`ModelDownloads` with agent, backend and page, `DesktopBridge` with backend and
applications, `NodeRouter` with the failover.

Conventions shared by all modules:

* *Granularity.*  A step ends where the code awaits, commits, releases the GIL between
  two shared accesses (images, voice engine), or calls another system.  What one
  coroutine does between two awaits is atomic, as it is in asyncio and in JavaScript.
* *Processes* are slots of a function (`task`, `th`, `st`, `cycle`, `proc`, `handler`,
  `work`, `access`) with a `pc` and the copies of shared data they hold.  A stale copy is
  a field of the slot; the commit writes the attributes that differ from it, as
  SQLAlchemy does.
* *Database.*  A transaction's inserts become visible at its commit; an insert under a
  unique constraint waits for the transaction that inserted the same key; cascades are
  in the action that deletes.
* *Failures* are a set.  Where it is the constant `Faults`, all of them are in play in
  the run.  Where it is a rigid variable `faults` (or `ops`) chosen in `Init` from
  `FaultSets` (or `Mixes`), one run covers several kinds of behaviours: a property
  that needs a condition states it (`faults = {} => ...`), and one that does not holds
  under all of them.
* *Mutants* (`Mut...`) stand beside the definition they change; each breaks the
  property `PROJECT.json` names with it, and none is used by a specification.

### Correspondence, module by module

**AgentControl.**  `load` is `_load_status`; `queue` is `_load_lock`, holder first,
then waiters in FIFO order as `asyncio.Lock` serves them; `task` holds one slot per
accepted request, plus the update loop and the heartbeat; `proc` is every child
process, referenced or not, and `ref`/`cur` are `LlamaServer._process` and
`_current_model`.  `BeginStop`/`EndStop`, `Drained`/`Spawned`/`Healthy`/`ExitSeen`/
`StartTimeout` are the pieces of `stop` and `start` between their awaits; they are used
by the load task, the restart task, the unload and the update alike, each with its own
continuation (`Finish`, `Failed`, `Unloaded`, ...).  `SelfUpdate` and `Exit` end the
process; `BootIdle`, `BootAutoload`, `BootMissing` are the three ways `_run` of `main.py`
brings it up again.

**ColdStart.**  `chat` gives each call its point in `ensure_model_loaded`; its
guards read the variables of `AgentControl`, its `PostLoad` performs the agent's
`AcceptLoad` in the same step, as the HTTP request does.

**NodeHardware.**  A machine is what the probes read (`nvidia-smi`, `libcuda`,
`rocm-smi`, the DRM directory with its vendors and two memory figures, RAM, cores).
The operators compute the hardware found, the layers that fit and the configuration as
the code does, with its thresholds; the actions boot, load, patch and refuse.

**AgentPulse.**  `pulse` is the heartbeat between its awaits, `wire` the reports on their
way, `naming` the second server with its process and its starter; `known` is the row.

**AgentUpdate.**  Commits are numbers of one branch, compared by equality where the code
accepts a prefix, and there is one `/self-update` at a time.  Time is counted in
heartbeats.

**ModelDownloads.**  The agent's status is one record whatever the file; a page keeps
for each file it follows what it last heard and the answers still on their way.

**ImagePipe.**  `pipe` and `cur` are the globals; `loader` and `infer` the holders
of `_load_lock` and `_infer_lock`; `tasks` the FIFO of `/load`; `cache` distinguishes
absent, partial and full weights because `pull` and `delete` leave partial ones.

**NodeRegistry.**  A request or a poll is a transaction with the rows it read, flushed
and locked.  `world` chooses which actors, names and hosts take part in a behaviour.  A
tick is five seconds: `OfflineAfter` and `Period` keep the proportions of the sweep's
delay and of the beat.

**NodeMetrics.**  Days of three minutes and hours of two keep every boundary: between
minutes, hours and days, before and after a partition exists.

**NodeRouter.**  `PickNode`, `PickImageNode`, `PickNamingNode` are formulas over a table of
rows; `Failover` applies the first with a growing set of excluded names.

**ChatReply.**  A message is role, content class and parent.  The class is what the
prompt depends on: an empty placeholder is filtered out by `build_messages`, a partial
text is not.  `Pick`, `Load`, `Place`, `Build`, `Token`, `Answer`, `Fail`,
`ToolResult` and `Cancel` are the stages of the loop, with its iteration and exclusion
bookkeeping; `DeleteFrom` is the first transaction of regenerate and edit, and
`DeleteChat` takes the messages with it, whatever streams are under way.  A node that
does not serve the model excludes like one that breaks.

**TokenStream.**  An answer is a sequence of pieces; a chunk is the next few.  A call is
whole if it was put together from exactly its pieces.

**ConversationNames, VoiceDialogue, VoiceEngine.**  One slot per request, sentence or
thread; the flags of the dialogue (`muted`, `open`, `listening`, the timers) are
variables, and each await of the browser separates two actions.

**ToolApproval.**  Time is explicit, in ticks; `req` is the Redis key with its time
to live; a decider reads the key and writes it in two steps (`GET` then `SETEX`).
Polling is made between two ticks unless Redis hangs.  Redis may also raise
("redis error"): while the request is set, which ends the reply and may leave the request
behind (`Ask`); while it is polled (`PollFails`); or under a decision, written or not
(`DecideFails`).  The events of a call are published by a function that swallows every
exception (`hub.py:68`).  A `set` that hangs for ever is not modelled.

**DesktopBridge, BuiltinTurn, Workspaces.**  A run of a macro has one key and one event
for each step; applications hold the events their stream brought.  The state of a
session (usable, or failed by a flush) is a field of the turn, and the sub-agent and the
worker act on that of the agent that started them.

**MemoryFiles, MemoryRows, ImageGallery, Documents.**  One slot per call; a file, a row
and a chunk are counted, not written out.  `RemoveImage` is `os.remove`, whose failure
the code swallows: `stuck` remembers the images whose file once could not be removed.

**SpotifyTokens.**  Refresh tokens are numbered as Spotify gives them; `alive` are those
it accepts, `lost` those whose successor was lost with an answer or with a process.

**MailSync.** `mailbox` is the IMAP server; `cycle[c].pend` are the rows inserted but not
committed; `lock` is the Redis key, which `Leave` deletes whoever set it, so that a cycle
that did not get it opens the way for a third.  `LockExpires` drops it once no cycle works
any more (its holder has died) or, with "slow" in `SyncFaults`, at any time.  The order of
the code (insert, flush, move to spam, commit, then the next account) is the order of the
steps.

**MailDrafts.**  A request reads its draft (`Begin`), talks to SMTP (`Smtp`) and
commits (`Store`, `PatchStore`, `RejectStore`).

**ConnectorLife.**  `row` and `box` are compared through the token: `row.hash` and
`box.token` name the token that was generated.  The monitor, requests and CLI commands
share the steps of `manager.py`.

**ConnectorRoutes.**  Conversations are named after the message that creates them,
so the race between two first messages is visible in `conv`.

**EventHub, DiscordBot.**  Events of a publisher are numbered; a stream has what Redis
gave it and what it sent on.  A text of Discord is a sequence of characters and ends of
lines, so that the rule for the cut is checked as it is written.

**JobRuns.**  `conf` is `celery_app.conf.beat_schedule` of each process; `msg` the
messages of the queue with their delivery state; `work` what each worker does with
one; `runs` the rows of `job_runs`.

## 3. What the runs check

| Run | Instance | Checks |
|---|---|---|
| `cold` | 2 chats, 2 models, 1 locked task, 2 processes; loads, deletions, downloads, self-update, exit; crashes, failed and overlong starts | `NoLeak`, `ReadyNeverLies`, `PolledNeverWrong`, `ImplementsSlot`, `ChatsEnd` |
| `agent` | images: 2 threads, 2 models, all requests, or generate and pull alone; 2 files and 2 pulls; 11 machines, 4 model files; 2 reports, 2 changes | `ImagesAreRight`, `OneDownload`, `ConfigFits`, `ReportsWereTrue`, `AgentWorkEnds` |
| `nodes` | agent: 1 model, 2 tasks, 3 processes, load, unload, restart, update; 3 commits, cooldown of 2; 7 sets of writers on 2 names; 11 minutes in days of 3; every table of 3 nodes | `TasksAreOrderly`, `ModelsAreReported`, `AnsweringIsOnline`, `MetricsAreWhole`, `FailoverOrder`, `NodeSettles` |
| `chat` | 2 streams, 2 nodes, 2 requests, 2 turns, 1 call per turn; answers of 4, 5 and 6 pieces, 3 per chunk; 2 devices naming at once, 3 tags; 3 sentences; 2 microphones; 3 threads | `OneEnding`, `HistoryIsSound`, `CallsAreWhole`, `NamesAreKept`, `DialogueIsSound`, `ChatWorkEnds` |
| `assistant` | 1 call, 2 deciders, delays 5/4/5; 1 run of 2 steps, 2 applications; 1 reply, depth 2, 2 calls; 2 processes on 4 files, quota 2; 2 upserts; 2 images, quota 1; 3 texts, 2 uploads; 2 requests, 3 tokens; 2 workers, 2 delegations | `BoxesAreAllowed`, `OkMeansDone`, `DelegationsAreWhole`, `MemoryIsBounded`, `GalleryIsSound`, `DocumentsAreWhole`, `VaultIsAlive`, `WorkEnds` |
| `worker` | 1 account, 2 cycles, 2 mails, `fetch_new` of 1, 1 crash; 1 draft, 3 requests, 2 texts; 1 job, 1 order, 2 workers, 2 losses | `MailsAreKept`, `OneDraft`, `DraftsAreTrue`, `RunningIsWorked`, `RetriesRepeatNothing`, `WorkerEnds` |
| `connector` | 1 user job, 1 monitor, 2 sockets, 3 events; 4 messages; 2 publishers of 2 events, tried twice; 2 commands, 4 texts, limit 4 | `TokenMatches`, `OneConversation`, `DeliveredAsWritten`, `ConnectorEnds` |
| `title_rename` | the names of `chat` | `UserTitleStays`, **violated** |
| `jobs_beat` | 1 job, 1 order, 1 worker, no fault | `BeatLearnsJobs`, **violated** |
| `update_restart` | the updates of `nodes` | `LeavesForNewCode`, **violated** |
| `metrics_default` | the measurements of `nodes` | `RawIsPurged`, **violated** |
| `builtin_session` | the replies of `assistant` | `TurnSurvives`, **violated** |

What each run shows is said in `PROJECT.json`, what each property says stands above its
definition.  The properties that join several components:

* `ImagesAreRight` = `PipeMatches`, `UsedIsAsked` (`ImagePipe`);
* `AgentWorkEnds` = `GenerationsEnd`, `FollowingEnds` (`ModelDownloads`), `RowSettles`
  (`AgentPulse`);
* `TasksAreOrderly` = `LockDiscipline`, `LoadingHasOwner` (`AgentControl`);
  `MetricsAreWhole` = `ChartsAreWhole`, `AggregatesAreWhole` (`NodeMetrics`);
  `NodeSettles` = `LoadingEnds`, `UpdatesArrive` (`AgentUpdate`);
* `HistoryIsSound` = `AnswersHaveQuestions`, `PromptEndsOpen`, `ResultsFollowCalls`
  (`ChatReply`); `DialogueIsSound` = `ReadInSequence`, `ListeningIsReal`
  (`VoiceDialogue`), `ModelsAreKept` (`VoiceEngine`);
  `ChatWorkEnds` says that streams, sentences and requests of the engine are at rest
  again and again: as one of the three acts in a behaviour, this is what `StreamsEnd`,
  `SpeechEnds` and `EngineEnds` say of each;
* `BoxesAreAllowed` = `RunsOnlyApproved`, `BoxIsRecorded` (`ToolApproval`);
  `MemoryIsBounded` = `FilesWithinQuota` (`MemoryFiles`), `KeysAreBounded` (`MemoryRows`);
  `WorkEnds` = `CallsEnd`, `RunsEnd`, `TurnsEnd`;
* `MailsAreKept` = `PassedIsRecorded`, `MovedIsRecorded` (`MailSync`); `DraftsAreTrue` =
  `SentWasMailed`, `MailedAsStored` (`MailDrafts`); `WorkerEnds` =
  `MailIsRecorded`, `OrdersEnd`;
* `DeliveredAsWritten` = `EventsInOrder` (`EventHub`), `PostedAsWritten` (`DiscordBot`);
  `ConnectorEnds` = `StatusSettles`, `MessagesEnd`, `CommandsEnd`.

The type invariant of each module (`TypeOK`, or `...TypeOK` where modules are composed)
holds as well; most of them are theorems, or parts of the inductive invariants of
section 5, and the runs spend their time on the other properties.

### Bounds, and why they are enough

* *Agent.*  The lock serialises tasks: two tasks give a holder and a waiter next to the
  update loop, which is not a task; two models make "the wrong one" possible; the number
  of processes bounds how many may be alive at once: two show a leak, three are needed
  as the update may start one that nobody references.  Finished processes give their
  slot back.  The proofs remove these bounds.
* *Cold start.*  Two chats wanting two models is the least conflict; one locked task is
  enough as the second load is refused while the first is in progress.
* *Hardware.*  A machine for each branch of the probes (none, one NVIDIA card at, below
  and above the size of a model, two cards, a tool without its library, ROCm with and
  without a figure, an APU, two vendors, the forced CPU), a small, a middle and a large
  model and one whose layers are unknown.
* *Pulse.*  Two reports overtake each other; `MaxChanges` bounds loads and unloads.
* *Updates.*  Three commits make an update stale while it is pulled; `MaxFetches` bounds
  the pulls that overlap, the cooldown counts heartbeats.
* *Images.*  Two threads meet in every pair of operations; a third would only wait for
  one of the two locks.
* *Registry.*  The seven worlds pair every two writers, and the clock with each writer
  that reads it; the one in which hosts answer while time passes has one that does not, as
  many as the proportions of the code allow (section 5); two names are needed for circles
  of row locks.
* *Metrics.*  Eleven minutes in days of three and a retention of two days: the first
  partition, a full window, a purge and a day without a tick; two heartbeats
  (`MaxRows`), one before and one after a boundary.
* *Router.*  Every table of three nodes: two to be compared and one to come between.
* *Chat.*  Two streams (two tabs, or a tab and a retry), two nodes (one failover, then
  none left), two turns of tools so that the limit is reached.  `MaxRequests` bounds
  how often a user acts; `MaxCalls` the calls of one answer.  One reply at a time
  meets every fault; two that overlap meet breaking nodes, or stops and a deletion, as the
  proofs do not depend on which faults are put together.  A script of a structured,
  one of a written and one of a mixed answer, cut in every way, in chunks of at most three
  pieces.
* *Dialogue.*  Three sentences are one read, one waiting and one being made; two
  permissions overlap; three threads are one in a model, one at its lock, one looking.
* *Tools.*  The three delays keep the order and the proportions of `_TTL`, `timeout_s`
  and `TOOL_APPROVAL_TIMEOUT_S`.
* *Desktop, macros, delegations.*  Two steps show an order, two applications a double;
  two writers of one slug; two delegations that cross, of two turns of two pieces.
* *Stores.*  Two processes with a quota of two and four names fill it, exceed it and
  come back under it; two upserts of one key; one file that cannot be removed
  (`MaxStuck`); three images with a quota of one, one of
  them cut; a text that fits, one with a paragraph over the target, one that is empty.
* *Spotify.*  Two requests and three tokens: one stored, one turned, one turned again.
* *Mail.*  Two mails with a limit of one make `fetch_new` leave one behind; one crash
  at any step; two cycles overlap as soon as a third one, which did not get the lock,
  deletes it.  `worker.cfg` has no "slow" (an expiry under a working cycle, which leads to
  the same overlap); the theorems about mail hold with it.
* *Drafts.*  Three requests: two that overlap and one that comes after.
* *Connector.*  `MaxEvents` bounds requests and failures; `MaxToken` is never reached
  (each start spends an event).  Two sockets show the old one closing after the new one
  has opened.
* *Routes.*  Four messages: a winner, a loser, one that comes after a deletion and one
  more.  The proof removes the bound.
* *Events.*  Two publishers interleave, and each is tried once more after a lost answer.
* *Jobs.*  One order is retried twice (`MaxRetries`), two losses suffice to lose it at
  two different points; the second worker receives the redelivery while the first still
  works.

No symmetry is used.  Deadlock is checked in `agent`, `cold`, where something is always
possible; the other systems stop when their requests are used up.

### Fairness

* `cold` (`ColdFairness`): weak fairness of every task, since an awaiting coroutine
  resumes, of the exit of a process that was told to terminate, and of each call, whose
  polling ends by its own deadline.  The strong forms are not needed because the lock is
  FIFO.  Requests, crashes and starts that hang are not fair: an overlong start is ended
  by `_wait_ready`'s deadline.
* `nodes`: the same for the agent; heartbeats go on, a pull ends (it has a deadline) and,
  tried again and again, succeeds (strong fairness of `PullSucceeds`); systemd restarts
  an agent that left.
* `agent`: strong fairness per thread of the image pipeline, as a `threading.Lock` gives
  no order but a thread that keeps finding it free gets it.  Pulls and polls go on, and
  a page that asks again and again hears from its node (strong fairness of its answers).
  Heartbeats go on, reports on their way arrive or are lost, and the naming server's
  starter has a deadline.
* `chat`: weak fairness of the streams as one event loop, since every network call has a
  time-out; the engine answers or fails and a sound comes to its end; threads go on.
* `assistant`: weak fairness of time, of polls, deciders and the steps of runs and turns.
  A tick cannot overtake a poll that is due.  Clients, applications and administrators
  are not fair.
* `worker`: weak fairness of the cycles and of the expiry of the lock; strong fairness of
  `Fetch`, i.e. an IMAP server that fails again and again also answers in the end.
  Strong fairness of taking an order (a worker that dies is replaced), weak fairness of
  redelivery (the visibility timeout) and of each step of a worker.
* `connector`: weak fairness of Docker calls, monitor and closing sockets, since the beat
  repeats the monitor every 30 s; of the handlers of messages as one event loop; of the
  tasks of the bot.

## 4. Refinement

`ModelSlot` is the contract the backend reasons with: one slot, a published state, and
at most one model that answers.  `ColdStart` maps `served` to the model of the process
`LlamaServer` refers to, if it serves.  `ImplementsSlot` is checked in `cold`, i.e. with
loads as the only locked operation, next to deletions, downloads, self-updates, exits
and every fault.  It is not claimed for the other operations: a restart or an unload that
was queued first overwrites the published state of the load that waits behind it, and the
update loop starts a server outside any load.

Two algorithms are checked against definitions that say what they are for and not how:
the chunks of a text against its sentences (`DocumentsAreWhole`), the failover against
the order the interface promises (`FailoverOrder`), over all inputs within the bounds.
Section 5 says what the proofs add to both, and to the refinement.

## 5. What is proved

The theorems hold for every value of the constants that the named assumptions of the
modules allow: any number of requests, nodes, mails, messages, workers, any bounds.  The
assumptions say that numbers are numbers, that absent values are no values, that actors
are distinct, and that sets which are counted are finite; TLC evaluates all of them.  A
theorem with a hypothesis of its own (`ASSUME ... PROVE`) is mentioned with it.  Hardly
any property is inductive as it stands.  Each paragraph says what the inductive invariant
adds; the proof has one lemma or step per action, and the step of an action is about the
slot that moves: a lemma of the module (`OneMoves`, `OneGoesOn`, ...) says that the
others stay as they are.

**The control API** (`AgentControlProofs`; any set of operations, any set of faults).
`TypeCorrect`; `LockIsExclusive`, that tasks never overlap inside `stop`/`start` whatever
the update loop and the heartbeat do; `LoadingIsOwned`; both as `TasksStayOrderly`;
`NoServerLeaks` (`NoLeak`), if the update is not among the operations.  `LockDiscipline`
says nothing about the operation of an actor in the middle of a stop; `TaskShape` adds for
each program counter which operations may be there, and `LockInv` is inductive.
`OwnerInv` (a published "loading" belongs to the queued tasks) and `LeakInv` (every living
process is the referenced one or the victim of the one stop in progress) rest on it.

**The refinement** (`AgentControlProofs`; loads, deletions, downloads, self-updates and
exits, the operations of `cold`: `LoadsOnly`).  `AgentImplementsSlot`
(`ImplementsSlot`): every step of the agent and of the chats is a step of `ModelSlot` or
leaves load and slot alone.  `SlotInv` adds that the one load at work is the one that is
published and that what it starts is what it was asked for.  From it follow
`ReadyTellsTheModel` (`ReadyNeverLies`) and the action property `PollingEndsOnTheModel`
(`PolledNeverWrong`).  `ColdInv` is `LockInv` and `LeakInv` of the agent, `SlotInv` and
the types of the chats; a chat that posts its load is a request like any other, so that
the lemmas about the agent are used as they are.

**The agent's other services** (`AgentServicesProofs`).  `ImagesUseTheirModel`
(`ImagesAreRight`): `PipeInv` says who holds `_load_lock` at each point and how far it has
come between the two globals, `GenerationInv` the same of `_infer_lock` and of the model a
generation is about to use, when only generations and downloads are asked for.
`DownloadsAreSerial` (`OneDownload`): the published status is that of the one task that
fetches.  `ReportsAreTrue` (`ReportsWereTrue`): what a report will say of `llama-server` ran
at a moment since the heartbeat began, while it is made, on its way and once it has arrived.
`ConfigsFit` (`ConfigFits`): a server that runs with what was computed for it runs with the optimum of the machine its agent found; the lemmas follow
`compute_optimal_config` over any machine and model.  The hypothesis, that a model has no
more layers than the reserve of the GPU has MB (`Overhead`, 600 in the code), bounds what
the division of the model by its layers rounds away.

**The nodes** (`NodesProofs`).  `RegistryTypes` and `ReportsStayWhole`
(`ModelsAreReported`): a heartbeat that has locked its row knows the models of that row, and
a poll holds the rows of the hosts that answered with what it knew of them, except the one
it is writing.  `AnsweringStaysOnline` (`AnsweringIsOnline`), for any number of hosts and
polls, if the worlds in which time passes are `Punctual`: the hosts that do not answer cost
a poll less than a period, and a period together with that cost is less than the limit of
the sweep.  Then at most one poll runs and no row it wants is locked (`Alone`); the time it
has taken is what the mute hosts asked so far cost, every host that answers is still to be
asked or was, and what will be written of it is no older than the poll (`Running`).
With more such hosts polls overlap, wait for each other's rows and the property is false
(section 6).  `MetricsStayWhole` (`MetricsAreWhole`), for days and hours of any number of
minutes and any retention: `MetricsInv` says that a minute that is rolled up takes no more
measurements, and that what is missing has gone with its day.  The lemmas about
divisions say how ranges are cut into the points of a chart.  `FailoverKeepsOrder`
(`FailoverOrder`), for any number of nodes: once a node that has to load the model was
tried, all that are left have to, as the order of `PickNode` puts the others first.

**Replies and conversations** (`ChatProofs`).  `ChatTypes`, `EndsOnce` (`OneEnding`),
`HistoryStaysSound` (`HistoryIsSound`).  `ChatInv` says of every reply which rows it refers
to; of one that does not overlap with others (`Calling`) that its own row is the last one
and empty until it is written, and that in the middle of its calls the history ends with
them; of one that is not broken either (`Prompting`) that behind the last message which is
not the assistant's there are only rows that `build_messages` leaves out (`EndsOpen`).
`AnswersAreWhole` (`CallsAreWhole`), for any answers and any cut into chunks: what the
client has accumulated of each call are the pieces of that call among those that came
(`StreamInv`), the text is what else came, and an answer that says it is finished came
whole.
`NamesStay` (`NamesAreKept`): what a naming has read already holds what the user had
settled.  `DialogueStaysSound` (`DialogueIsSound`), for any number of sentences, recorders
and threads: a sentence is with the pump only while the pump runs, and all before it are
over; a thread that loads a model holds the lock of its part and found none.

**What tools do** (`AssistantProofs`).
* `ToolTypes`, `ApprovedBeforeRun` (`RunsOnlyApproved`), `UpIsRecorded` (`BoxIsRecorded`),
  both as `BoxesStayAllowed`, for any faults, those of Redis included.  An approval
  travels: a decider writes it to Redis, a poll reads it there, the call is granted and
  only then its container starts.  `ApprovalInv` adds these stations; `BoxInv` adds in
  which states of a call its container is up.
* `MemoryTyped`, `QuotaHolds` (`FilesWithinQuota`), `KeysStayBounded` (`KeysAreBounded`), both
  as `MemoryStaysBounded`.  Two processes may be past the count when the directory is full, so
  `QuotaInv` counts the files there are together with those that are being written;
  `RowsInv` counts the rows of a key together with the requests about to insert one.
* `GalleryStaysSound` (`GalleryIsSound`), for any quota.  The date of an image in the
  hands of a request is nobody else's, so that nobody takes its file away
  (`HandsAreApart`); a file that was pruned does not come back; and the rows that nobody
  prunes are within the quota or someone has still to enforce it (`QuotaIsKept`), for
  which the proof counts the newest images.  Files without a row are those of requests
  that were cut and those that could not be removed.
* `OkRunsWereDone` (`OkMeansDone`), for any number of runs, steps and applications.  A
  request that says "ok" was executed, and so were the steps that a run without failure has
  behind it; the events of a run reach an application in the order of its steps, and none
  before it was asked for.
* `DocumentsStayWhole` (`DocumentsAreWhole`), for texts of any length.  A row is worked on by
  the one upload that inserted it, which takes its chunks once.  What `chunk_text` cuts is
  followed step by step: the groups of a long paragraph have its sentences up to each one
  (`Grouping`); the chunks that were cut together with the one under way have the items up
  to each one, and the tokens that are counted are at least those of the chunk (`Packing`).
* `DelegationsWhole` (`DelegationsAreWhole`).  What the pages heard piece by piece and what
  the session holds answer by answer say the same (`SessionAgrees`, `FeedAgrees`); a result
  is all of it, and the database has it as long as the worker is there (`ResultAgrees`).
* `SpotifyTyped`, `VaultAlive` (`VaultIsAlive`).  The token of a request that stores it is
  alive, not in the vault and known to nobody else (`KeepingInv`); one that Spotify
  has not given yet is known to nobody (`IssuedInv`).

**The worker** (`WorkerProofs`).
* `MailGetsOneDraft` (`OneDraft`): a mail that a cycle has inserted and not committed has
  neither row nor draft, its account is there and no other cycle has inserted it
  (`PendInv`).
* `NoMailIsLost` (`MailsAreKept`), if the server answers for every UID it is asked for
  (`"unreadable" \notin SyncFaults`): the code passes over a mail that the server leaves
  out.  `KeptInv` says that what a cycle remembers as seen is recorded or in its hands,
  and that the mails it fetches are the lowest it has not seen.
* `DraftTypes`, `SentDraftsWereMailed` (`SentWasMailed`), `DraftsAreMailedAsStored`
  (`MailedAsStored`), both as `DraftsStayTrue`.  A request that has mailed a draft but not
  recorded it is what the first invariant adds; without faults requests come one by one, and
  the second follows what such a request has read and sent.
* `JobTypes`, `RunsAreWorked` (`RunningIsWorked`), `EndedRunsStay` (`RetriesRepeatNothing`).
  `WorkShape` says which row a worker at each point refers to; `Held` that, unless a worker
  is lost or too slow, one worker at a time holds the message of an order, and that the
  message of an order with an ended run is done.

**Connectors** (`ConnectorProofs`).  `LifeTypes`, `TokensMatch` (`TokenMatches`):
`OneByOne` says what an operation has made sure of at each of its Docker calls, as long as
no other one overlaps with it and nothing that `Serial` leaves out happens (section 6).
`RouteTypes`, `SharedConversation` (`OneConversation`): at most one message holds the
uncommitted insert of a route, its conversation does not exist yet, and one that is
"created" has or had the route.  `EventsComeInOrder` (`EventsInOrder`): what a stream has
of a publisher ends with the event that is being tried, as often as it was tried at most.
`SplitLosesNothing`: the pieces of `_split_message` fit and put together are the text, for
every text and limit; with it, `PostsAsWritten` (`PostedAsWritten`): what Discord shows of
a command are the first of its pieces.  Both together are `DeliveriesStayAsWritten`.

**Sequences of any length** (`SequenceFacts`).  Several of these properties are about what a
recursion or a fold computes: the calls put together from pieces, what a session kept, the
cut of a text.  The provers cannot use the library's induction theorems, whose parameter is
an operator, but induction is at hand for sets: of the numbers up to n at which something
holds, which has 0 and with each number the next one (`UpTo`, from the least number outside
it).  A recursive function that is defined by `CHOOSE` exists as one that is computed step
by step (`Iterated`).  From these two come what `FlattenSeq` does with one more piece, with
two sequences and with a replaced last piece, and `Spread`: every member of a sequence
becomes a sequence, as when some are kept (`Keeping`) or a chunk becomes its sentences.

**Only model-checked.**  The seven liveness properties (`ChatsEnd`, `AgentWorkEnds`,
`NodeSettles`, `ChatWorkEnds`, `WorkEnds`, `WorkerEnds`, `ConnectorEnds`), as the provers do
not do `ENABLED`.  Every other property of a passing run is the conclusion of a theorem.
What a theorem takes as a hypothesis, its run satisfies: the operations of `cold` are those
of `LoadsOnly`, which has no update; the models of `agent` have few layers; the one world of
`nodes` in which hosts answer while time passes is `Punctual`; the mail server of `worker`
answers for every mail.

## 6. What the models found

Five disagreements with a documented promise are runs of their own:

* `jobs_beat`: `scheduler/syncer.py:3-5` promises that the beat is given the up-to-date
  list of jobs; `reload_beat_schedule` (line 90) changes the configuration of the worker
  process that runs it, and the beat is another process (`deploy/docker-compose.yml`,
  services `worker` and `beat`).  Jobs run when triggered by hand, never at their time.
* `title_rename`: `autoname_conversation` (`orchestrator/autoname.py:167`) tests the
  title its session read before it waited for the model; a user who renames the
  conversation meanwhile loses the title to the naming, which is only to replace a title
  that is "encore par défaut" (`api/conversations.py:188`).
* `update_restart`: `maybe_self_update` says that it returns `True` when the code was
  updated (`self_update.py:92`); it does so as well when the pull had nothing to pull
  (line 113), and the agent leaves, and after its start again, as the cooldown is lost
  with the process.
* `metrics_default`: raw measurements are kept 24 h (`db/models.py:708`), but rows that
  fell into the default partition make the creation of their day's partition fail, and
  the purge never looks there (`workers/tasks.py:217`, `341-345`).
* `builtin_session`: a built-in "ne doit jamais tuer le tour"
  (`builtin_tools.py:469`); a `define_macro` whose commit fails (line 915) leaves the
  session of the reply unusable, and the message of the tool raises.

While modelling, the following behaviours of the code turned out to limit what can be
stated.  They are in the models, unless said otherwise; the properties are stated so as
to say what remains.

* *Agent.*  The update loop stops and starts the server around `_load_lock`
  (`llama_server.py:449`): with a load at the same time a process may be left behind, so
  `NoLeak` excludes the update.  The autoload publishes "ready" even if the server did
  not become healthy in time (`agent_api.py:69`); a config change publishes "ready" as
  well, even for a file that has been deleted meanwhile (`451`).  A naming server whose
  first start times out is dropped while its process goes on (`main.py:328`).
* *Cold start.*  The short cut (`agent_client.py:89`) trusts a running process with the
  right model, healthy or not: `PolledNeverWrong` is about those who polled.
  That a chat takes the short cut before the server answers is forbidden by no property.
* *Images.*  `generate` reads the pipe and its name under the inference lock only: a
  `/load` in between makes it run the other model (`image_gen.py:437-438` and `448`),
  and a deletion in between makes its assertion fail (`449`).  A load over partial
  weights completes them (`242`).
* *Registry.*  With two hosts that do not answer, the poll takes so long that one that
  answers may look gone (`tasks.py:79`); `AnsweringIsOnline` is proved for as many as cost
  less than a period, which is one with the delays of the code.  The
  metric insert of a heartbeat is meant not to fail it (`api/nodes.py`, end of
  `heartbeat`), but after its rollback the notification reads a row that may have been
  deleted, and the heartbeat answers 500 (not modelled).
* *Metrics.*  A tick of the rollup that comes a minute late leaves its minute out
  (`tasks.py:294`).  A chart may have one point more than its limit; the totals of the
  cluster, differences of a maximum and a minimum, count wrong when a counter starts
  again (`api/nodes.py:915-930`, not modelled).
* *Router.*  The docstring excludes nodes with too little memory; the code only gives
  them a malus.  The model follows the code.
* *Chat.* After a failover in the middle of an answer the partial text stays in the
  history, so that the next prompt ends with the assistant (`chat_loop.py:280`,
  `context.py:90-93`), and the attempt has used up a turn of tools (`128`).
  `PromptEndsOpen` excludes such streams.  Two replies at once interleave their messages.
  A cancelled call leaves its execution row `running` (`505`).
* *Voice.*  A sentence that is cancelled while it plays fires no `ended`, so that the
  player it held stays held, and one whose sound was on its way may be read after the
  cancellation (`voice.ts:325`, `439`).
* *Desktop.*  Two applications of one user both execute an action; an answer after the
  deadline is taken and read by nobody; a macro is not confirmed step by step as single
  actions are.  A macro that is renamed can be overwritten by one defined under its old
  name.
* *Workspaces.*  A worker whose reply broke on one node and was finished on another
  hands both texts to its manager; one deleted in the middle ends the manager's turn
  (`chat_loop.py:646`).
* *Stores.*  The quota of the memory is exceeded by writers at once, and a file is
  readable while it is cut (`files.py:147`); two upserts of a key make two rows
  (`store.py:27`); an image may be pruned by its own quota when another was faster, yet
  is answered as made; requests cut anywhere leave files without rows, and so do removals
  that fail, which are swallowed (`images/storage.py:101`, `123`).
* *Tools.*  An exception of Redis while a request is set or polled ends the reply
  (`chat_loop.py:444`, `459`); the request may stay until its time to live is over.
* *Spotify.*  A process that dies, or an answer that is lost, after Spotify has turned
  the token leaves a dead one in the vault: the user has to connect again.
* *Mail.*  The lock is deleted by whoever leaves (`tasks.py:370-371`, `393`), so cycles
  can overlap; the unique constraint still keeps drafts single.  A crash between the
  move to spam and the commit (`sync.py:151`) loses the trace of the mail, so
  `MovedIsRecorded` excludes deaths.  A new
  `imap_host` keeps the old `last_uid` (`api/mail.py:215`, not modelled).
* *Drafts.*  Two requests, a lost answer or a restart may send a draft twice
  (`api/mail.py:398`, `427`): `MailedAsStored` is for requests one at a time.
* *Connectors.*  A re-install rotates the token under a running container
  (`api/connectors.py:122`); a failed stop is swallowed by the deletion
  (`manager.py:155`); a start that has rotated the token and then misses its image or its
  secrets leaves the old container with the old token.  `TokenMatches` excludes these and
  operations that overlap (`Serial`).
* *Bridge.*  A route deleted between the commit and the re-read trips an assertion
  (`bridge.py:132`, `139`): the message ends as `asserted`.
* *Events.*  `publish` tries again after an answer that was lost, so an event may come
  twice; a stream says hello before it has subscribed (`sse.py:66`), and misses what is
  published in between.
* *Jobs.*  A database failure or a death leaves a run `running` for good; a task that
  takes longer than the visibility timeout is delivered to a second worker.
  `RunningIsWorked` excludes crashes and database failures.

## 7. What is not claimed

The models are of the interactions, not of the data: prompts, mails, images and
manifests are choices; where an algorithm is modelled (router, layers, chunks, cuts,
calls put together) its inputs are those of section 3.  Time exists in `ToolApproval`,
`AgentUpdate`, `NodeRegistry` and `NodeMetrics`; elsewhere a time-out is a step that may
happen once its wait has begun.  Liveness is relative to the fairness of section 3.
Each scene is on its own: that a heartbeat competes with a chat for the event loop, or a
metric insert with the sweep for the database, is not in any run.

### Not modelled, and why

The parts of section 1 without a module are single statements, library calls, formatting
or programs outside the system; none of them has two steps that could interleave.  Of
the parts marked partly in `PROJECT.json`: the messages users write in Discord, the
texts of web pages and shown visuals are data; the rest of the installation scripts
prepares a machine once; the reply to a connector's message is that
of `ChatReply`; the recognition of speech is the browser's.

## 8. What could come next

1. The liveness properties for any number of actors, by hand or with a prover that does
   `ENABLED`; the type invariants that no theorem states.
2. `Recall` of the memory, whose commit fails if one of the memories it touched is
   deleted meanwhile (`memory/store.py`).
3. The composition of `AgentPulse` with `NodeRegistry`, whose rows are one variable each.

## 9. Running

    tlc -workers 2 -config chat.cfg MCChat
    tlapm ConnectorProofs.tla

The run names of section 3 are the names of the `.cfg` files; `PROJECT.json` gives the
module of each.  Every run ends within four minutes on two workers.
