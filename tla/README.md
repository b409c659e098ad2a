# TLA+ models of Sycophant

Sycophant runs AI agents in Kubernetes. A workspace has one *harness* pod that talks to
the model, dispatches tools and owns the conversation log; clients reach it through a
*relay*; tools and model calls run in short-lived pods. These modules model the parts of
that system whose correctness depends on interleavings, failures and restarts.

## The system

| Component | State it keeps | Operations | What is hard | What makes it correct |
|---|---|---|---|---|
| Message loop, tool-use loop (`harness/runtime_entrypoint.rs`, `agent.rs`, `turn.rs`, `message_source.rs`) | the turn being served, the context resent to the model, the iteration count | receive, append the user turn, open and consume a model stream, run tool rounds, deliver the outcome | cancels at any point, pod deaths, failed writes, lost frames | the history stays acceptable to a provider, replies are durable, a cancel stops its own turn, every turn ends |
| Conversation log (`harness/conversation.rs`) | entries in memory, one JSON line per record on disk | append, rebuild, snapshot | a write cut short fuses with the next one | results follow their tool use in memory and on disk |
| Registry (`harness/registry.rs`, `grpc_server.rs`) | id -> name, owner; cached logs; turn tokens; `meta.json` sidecars | mint, rename, delete, cancel, rebuild at boot | requests interleave over several file-system calls; reboot in between | owners are kept, deletes hold, minted conversations survive |
| Tool dispatch (`harness/dispatch.rs`) | call queue, active Jobs, parked result senders, cancel tokens | begin a call, drive it on a pod, retire a dead Job, cancel | a lock that covers only part of `begin_call`; drivers that take each other's calls | one terminal per call, run at most once, on a pod of its own grant |
| Tool router, execution log (`harness/tool_router.rs`, `execution_log.rs`) | live call sessions, frames, the per-conversation execution log, the catalogue | dispatch, await, cancel, rebuild the catalogue | late subscribers, lag, retirement of a session, torn reads of the catalogue | a subscriber sees every frame once and a terminal; the record is whole |
| Approvals, channel-stream tools, sub-agents (`tool_approval.rs`, `channel_stream_tools.rs`, `runtime_tools.rs`) | a stack of loops per turn, the request each waits for | ask, answer, time out, dispatch a sub-agent | late and repeated answers, a cancel inside a nested turn | nothing runs unapproved, an answer reaches its own prompt, a cancel unwinds |
| Model calls (`dispatch.rs`, `inference-runtime`, `model-provider`, `turn.rs`) | the provider's stream, the events, the frames shown | resolve, call, parse, forward, assemble | chunks that end anywhere, two wire formats, timeouts, abandoned calls | the result is the answer, whole; the call ends with its turn |
| Relay (`relay-controller/state.rs`, `gateway.rs`, `internal.rs`) | channel streams, last turn state, pending server requests, message bus | ingest, receive, deliver, server request with timeout | a turn that ends before WORKING is recorded; bounded channels under a lock | a client that listens learns its turn's end, and nothing false |
| Relay identity (`identity*.rs`, `capabilities.rs`, `shared/configmap_watcher.rs`, `watcher_retry.rs`) | identity table, owner cache, stream bindings | watch, resolve, review, reauthorize | revocation between a check and its use; lists that fail half way | nothing is served without what admits it; a revocation takes effect |
| Tool and inference pods (`toolset-runtime`, `inference-runtime`, `shared/keepalive.rs`, `harness/job.rs`) | the child and its pipes, counters, the idle timer, the staged credential | serve a Run stream, cancel, shut down when idle | helpers that keep a pipe, tasks that die, staging against scrubbing | terminals are true, frames scrubbed, the pod goes away |
| `syco` client (Go) | one-shot chat; TUI model, queue, stream | send, queue, recall, reconnect | results of old connections arriving late | nothing typed is lost or doubled; one reconnect at a time |
| `sycoadm` (`cli`) | the config root and what is in the cluster | setup, destroy, upgrade, tenant up, down, remove | interruption between external commands, probes that fail | running a command again completes it; a ready cluster stays usable |
| Helm charts and policies | none | none | | not modelled |

The relay checks who calls, puts a user message on the workspace's bus; the harness
receives it, appends it to the log, asks the model through a local source or an inference
pod, and calls tools through the router. Tool calls that need a person go back through the
relay to the clients. Toolset calls go to the dispatcher, which creates a Job or attaches to
a warm pod and dials it. The harness sends turn states, reply and stream items back through
the relay. Conversation requests (mint, rename, delete, history, cancel) reach the harness
beside the loop. `sycoadm` builds the cluster all of it runs in.

## Modules

| Module | Models | Abstracts from |
|---|---|---|
| `AgentTurn` | one harness's message loop and tool-use loop over its log | `CallSession`, `Inference`, `ServerRequests` stand behind its tool and model steps |
| `ToolDispatch` | `begin_call`, drivers and tables of the dispatcher | `CapabilityPod` is the pod it reaches |
| `ConversationRegistry` | registry requests over the file system | |
| `Relay` | channel streams, turn state, bus, one-shot clients | `Access` is what may deny a call |
| `CallSession` | a call's frames from the channel to the record and the await streams | `ToolDispatch` decides that there is a pod |
| `AwaitStream` | the promise of an await stream; `CallSession` implements it | |
| `ServerRequests` | approvals, user input and sub-agents through the relay | |
| `Inference` | one turn's model calls | |
| `Access` | authorization of calls and streams, the identity watcher | |
| `Tui` | the interactive client's event loop | `Relay` has the server's side |
| `CapabilityPod` | a Job, its pod, the calls it serves | |
| `Catalogue` | what a tool name means to a call | `ToolDispatch` takes over once the Job is chosen |
| `Sycoadm` | the operator's commands over host and cluster | |

`MC*` modules give names to the constants of small instances. `*_proofs` hold the theorems;
where one of them is about two modules, those name their specifications apart (`TuiSpec`,
`InferenceSpec`, `SycoadmSpec`, the others `Spec`).
Operators named as mutants in their comments are wrong variants of the action that
follows them; no specification uses them, they show that each property can fail.

### AgentTurn

One harness process: `pc` is the program counter of `message_loop`. `recv` waits in
`next_message`; `append`, `working`, `register` are the statements up to `register_turn`;
`open`, `stream`, `round`, `tool` are `llm_loop`; `end`, `reply`, `state` what follows it;
`down` is a pod that is not running. An action runs from one await that another actor can
observe to the next.

* `mem[c]`, `disk[c]`, `tail[c]` are a conversation's log, the records of its file that
  parse, and how the file ends. `Written` and `CutShort` say what a complete and an
  interrupted write leave: a record without its newline still parses, until the next
  write joins it.
* `messages` is the context `llm_loop` resends; `round` the completion being handled.
* `turns` and `fired` are the registry's token for the turn; `Cancel` removes and fires it.
* `frames` are the turn frames the relay received; a failed delivery is only logged.
* `ended`, `asked` are history variables.

A message is abstracted to its role, turn, round, number of calls and call index. What a
tool returns, prompts, stream items and attribution are left out. A tool call in AgentTurn
returns (content and errors are both tool results) or, once the token fired, is cut short.

### ToolDispatch

The dispatcher's tables for one tool and several grants; all of them are keyed by tool
first. Each call has the program counter of its `begin_call` (`pc`) and of the driver
it spawned (`dpc`). A Job is named after the call that spawned it, as in the code.
`WindowPasses` is time: `attachable` becomes false at any moment, which includes every
duration of `KEEPALIVE_ATTACH_MARGIN`. Retirement is four actions because it takes four
locks in turn. A reached pod completes or breaks off (`PodStep`).
The dispatcher without a Kubernetes client (a test configuration) is left out, and frames
before the terminal are in CallSession.

### ConversationRegistry

Each request is a process: it admits, runs the file-system calls of `write_meta` or
`delete_all` one by one, then changes the registry. Files are inodes named after the
request that created them, so that two writers may hold one file and a renamed file may
still be written. `Reboot` kills all requests and seeds any subset of the readable
sidecars (a read may fail, and a failed walk leaves the registry empty). Owners are
abstracted to the id they were stamped on. Names, `touch` and cached logs are left out.

### Relay

The relay between one-shot clients of one workspace and its harness. `handler[s]` is where
the call of `channel_stream_receive` for a stream is, then the state of its response
stream; `reg` is the table of channel streams, `queue[s]` the stream's bounded channel.
`cpc[c]` is where the client is, and inside `ingest`, `notify`, `record`, `lookup`, `send`
where its `channel_stream_ingest` is. `hpc` is the harness's loop as the relay sees it:
one delivery at a time, each fanned out stream by stream with the table read-locked
(`fanFrame`, `fanLeft`). A reader may pass a waiting writer, which tokio's lock does not
allow: the model has more behaviours, and its properties are invariants. `record` is
`last_turn_state`; the start frame of a turn carries no subject and is not recorded.
`bus`, `fwd` and `wire` are the broadcast channel, the forwarding task and the gRPC stream.

A conversation is not deleted while its turn runs, so its owner is known when the outcome
is delivered. A review that denies is `Refused` or `StreamEnds`. A client that returns
closes its stream in the same step. Server requests are in ServerRequests, the owner cache in
Access. Left out: heartbeats, replies to a channel that is not a person.

### CallSession and AwaitStream

`made[c]` are the frames put into a call's bounded channel, `taken` and `pub` how many of
them the consumer has received and published, `cpc` where the consumer is; it appends to
`execution.json` before it publishes, and retires the session when the channel ends. All
calls write one file, but a reader only selects the lines of a call: `log[c]` are those that
parse, `tail` how the file ends, and `ends` whose line that is when it lacks its newline and
the next write will spoil it. An await stream (`apc`) that finds the session takes a snapshot and subscribes
in one step, as under the code's lock, then follows the fan-out, which drops the oldest
frame beyond `FanCap`; one that does not is served from the record, or told NotFound if the
record has nothing of the call. Frames are numbered; 0 is the FAILED an await stream
makes up. Faults are failed and torn writes, broken pods, clients that leave, a deleted
conversation and restarts of harness and relay.

`AwaitStream` knows neither session nor record: frames in order, none twice, a live stream
skips none, the last is a terminal. `PromiseKept` is `AwaitStream!Spec` under a mapping
that forgets session, record and channels: a call's frames are what was put into its channel,
what a stream was given is what its client has read.

### ServerRequests

A turn is a stack of loops; DispatchAgent pushes one with the parent's token. An *ask* is
one run of `send_server_request_and_await`: it parks a oneshot under its request id, which is
the model's tool call id, fans the request out stream by stream with the table read-locked,
and waits. The timeout removes the slot in a later step than it decides. `pending` is a set
of (id, ask): a second ask under an id replaces the first's slot, as the map does.

### Inference

A server-sent event is a record (text, call fragment, finish) that takes two units on the
wire, so a chunk may end inside it. `pend` are the stream events one server-sent event
becomes, `events` what the source has kept, `chan` the pod's channel; `held` is false once
the turn has dropped its source, which a pod notices at its next send. A pod may be lost with
the last events of its channel. `history` is what is
resent; `emit` and `items` are the frames shown to the client. What the source keeps of an
answer, the messages built from the history and the arguments of a call are recursive functions
over positions, so that they can be reasoned about. `AnswersAssumption` is what the parsers
rely on: the event that finishes an answer is its last, and Anthropic starts each call once,
before its arguments.

### Access

A call steps through its checks, one action per await, against `tokens`, `reach` (both asked
of the API server each time), `table` (the watcher's copy of the ConfigMaps) and, for a
conversation, `owners` through a cache. `held` records what was true at some moment since
the call began. `states` is the history of the ConfigMaps; the watcher works on an older one.
The assumptions say that a channel is not a person, and that there are finitely many
ConfigMaps.

### Tui

The event loop handles one message at a time; `cmds` is the bag of commands under way and
their results, which come back in any order. Streams are numbered. Texts are numbered as
they are typed. Times and the display are left out.

### CapabilityPod

The Job is chosen in `Init` (tool, entry, grant), then the pod boots, stages the credential
and serves. `wrote[c][s]` are the kinds of the lines written to a pipe of the call's child, in
order; a call's task reads the two pipes line by line (`taken`), up to the first line that is
not UTF-8 (`Readable`), and a helper process may hold them after the child's exit. A frame
has the number its line has on its pipe, so that a gap shows. Time is two facts: the idle window has passed, and the
deadline strikes. What a built-in tool computes is left out, how it ends is not.

### Catalogue

ConfigMaps are merged into the dispatch table; inside the merge the router rebuilds its
catalogue, and the table is swapped after it (`Rebuild`, `Swap`). A call reads source, args,
grants and the table's entry in separate actions.

### Sycoadm

`proc` is the running command and where it stands; each external command is an action that
may fail (`Fails`), and Ctrl-C is a failure too. `kube` and `host` are what a later command
finds. Certificates and Dex users are numbers, so that two of them can be told apart. A
failing probe says "absent" (`Probe`). `Older` starts from a cluster that an earlier release
of `sycoadm` set up, since this one cannot (see below).

## Runs

| Run | Configuration | Instance | Distinct states | Shows |
|---|---|---|---|---|
| `agent_turn` | `AgentTurn.cfg` | 1 conversation, 2 turns, 2 iterations, 2 calls, 1 crash, 1 lost frame, no write errors | 2,192,034 | `ResultsFollowToolUse`, `AnsweredBeforeNextRound`, `UnpairedOnlyWhenCutShort`, `ContextIsLog`, `ReplyIsDurable`, `CancelledOnlyIfAsked`, `NothingAfterTerminal` |
| `agent_turn_fair` | `AgentTurnFair.cfg` | 2 conversations, 1 turn, 1 crash, 1 write error | 125,846 | `CancelEndsTurn`, `TurnEnds` |
| `tool_dispatch` | `ToolDispatch.cfg` | 2 calls, 2 grants, keepalive | 37,876 | `OneTerminal`, `GrantContained`, `RunsOnce`, `NothingStranded`, `EveryCallEnds` |
| `conversation_registry` | `ConversationRegistry.cfg` | 2 ids, 4 requests, 2 reboots | 43,581 | `OwnerKept`, `DeletedStaysGone`, `MintedSurvivesReboot` |
| `relay` | `Relay.cfg` | 2 clients, one reconnects, channels of 2, bus of 1, 1 item, 1 fault | 2,394,473 | `NoMissedTerminal`, `ToldTruth`, `NothingSkipped` |
| `call_session` | `CallSession.cfg` | 2 calls, of a client and of a turn, 1 await stream, channels of 1, 1 fault | 227,021 | `RecordWhole`, `MadeUpOnlyIfLost`, `PromiseKept`, `AwaitEnds` |
| `server_requests` | `ServerRequests.cfg` | 2 turns, 1 client, 1 call id, 1 nested sub-agent, 2 asks, channel of 1, 1 relay restart | 326,186 | `RunsOnlyIfApproved`, `OwnAnswer`, `SlotsAccounted`, `CancelUnwinds` |
| `inference` | `Inference.cfg` | 6 answers over 2 formats, 2 rounds, channel of 1, 1 fault | 411,103 | `TurnIsWhole`, `ItemsNest`, `ResultsTogether`, `CallEnds` |
| `access` | `Access.cfg` | 2 subjects, 1 handle, 2 ConfigMaps, 1 call, 1 stream, 1 edit, 1 fault | 695,482 | `ServedOnlyIfAllowed`, `TableIsDelivery`, `RevocationTakesEffect` |
| `tui` | `Tui.cfg` | 2 texts, 1 fault | 630,753 | `TypedOnce`, `OneReconnect` |
| `capability_pod` | `CapabilityPod.cfg` | 2 dials, 6 tools, 3 entries, 2 grants, 3 kinds of lines, 2 events | 638,823 | `TerminalTellsTruth`, `FramesScrubbed`, `PodGoesAway` |
| `setup` | `Sycoadm.cfg` | setup only, nothing fails | 50 | violated: `FromNothingToReady` |

Deadlock is checked in `agent_turn`, `agent_turn_fair`, `tool_dispatch`,
`conversation_registry`, `call_session` and `capability_pod`. In the others the clients,
turns or the user finish, and nothing is left to do.

Why the bounds are enough. Two turns let a token, a torn file or an unpaired call of one
turn meet the next turn; two iterations reach both a second round and the limit; two calls
let a cancel fall between them. Two calls of a tool let each driver take the other's call or
retire it; `ToolDispatchThreeCalls.cfg` (1,635,012 states) lets a third retire the tool
meanwhile and passes too. Two writers and a deleter of one id, with a mint, are the four
requests. A channel of 1 or 2 is full as soon as a second frame comes, in Relay, CallSession,
ServerRequests, Inference and CapabilityPod. One call id for two asks is the case of a reused
id; two asks are enough for one to take the other's slot. The provider's answers are chosen
so that text, fragments and the finish share and split events. One edit and one fault can
fall between any two checks or watch events. Two texts and one lost connection let a queued
message meet a pending one over a reconnect. `ReplyIsDurable` and `ContextIsLog` are checked
without write errors: the code logs a failed append and goes on, so neither holds with one.

### Fairness

* AgentTurn: the loop's own steps are taken, an open returns (keepalive and dial timeouts),
  the pod is restarted, and a tool wait ends once the turn's token is fired (toolset and
  approval waits race the token; channel-stream requests have a timeout). That tools answer
  and streams stop is a hypothesis of `TurnEnds`; `CancelEndsTurn` does without.
* ToolDispatch: tasks are scheduled; the API call has a timeout of 10 s and a dial the
  readiness window. That reached pods answer or break off is a hypothesis of `EveryCallEnds`.
* CallSession: tasks run, a pod's call ends (its Job has a deadline), a runtime tool answers,
  a client that stays reads its stream.
* ServerRequests: tasks run, timers fire, and a client reads its stream or loses it. Without
  the last, one client that neither reads nor goes blocks the table for all (`state.rs:363`).
* Inference: the provider's client has timeouts, so a response goes on or ends; tasks run.
* Access: the watcher's task runs and starts again after its backoff.
* CapabilityPod: tasks run, time passes, the harness reads what it holds. That processes end
  and no task panics are hypotheses of `PodGoesAway`.
* Sycoadm: the operator runs setup again when it failed, and external commands return.

### What the passing properties except

`NoMissedTerminal` excepts turns that ended before the ingest recorded WORKING
(`overtaken`): the late WORKING replaces the terminal record, and a client that loses its
stream then waits for ever. `ToldTruth` excepts clients whose record a restart of the relay
lost (`forgotten`). A message dropped by the bus leaves its turn WORKING; the properties are
about turns the harness got. `MadeUpOnlyIfLost` lists when an await may be given an outcome
that is not the call's: a record that was lost, a client `FanCap` frames behind, a guard whose
terminal did not fit. `OwnAnswer` excepts an id used twice in a workspace, which the model
chooses. `SlotsAccounted` excepts slots of waits the harness dropped on a cancel: the relay's
handler, and its timeout, are dropped with the wait, so the slot stays until a response, another
use of its id or a restart removes it. `TurnIsWhole` excepts a wide character cut by a chunk and interleaved
argument fragments, both of which the parser loses. `ServedOnlyIfAllowed` allows a check that
was true when it was made and false when the answer goes out.
`TerminalTellsTruth` reads a streamed pipe only up to its first line that is not UTF-8,
which the code takes for the end. `ReadyMeansLogin` and `NodeLeftAlone` speak of the time before
the first misread probe: a probe whose command fails reads as "absent" (`setup.rs:480`), and
after that setup may make new trust for a live cluster, give Dex's user a new id under the old
binding, or signal the node under Cilium.

### What is violated

Listed as a run:

* `FromNothingToReady` (`setup`): `setup` logs the operator in (`setup.rs:171`) before it
  installs the cluster layer (`:174`), and the login reads issuer and CA from the cluster
  layer's release (`operator.rs:308`). From nothing, it fails there every time.

The following configurations state what a comment of the code says and are violated by what
the code does. They are kept beside the listed runs and are run by hand
(`tlc -config X.cfg M`):

| Configuration | Module | Property | What the code says | What it does |
|---|---|---|---|---|
| `AgentTurnPairing.cfg` | `MCAgentTurn` | `EveryToolUsePaired` | `agent.rs:283`: a cancelled call persists a marker, so "every tool_use has a paired result" | the marker is for the interrupted call only; later calls of the message stay unpaired |
| `ToolDispatchCrossGrant.cfg` | `MCToolDispatch` | `FailedOnlyWithItsJob` | `dispatch.rs:147`: two grants' Jobs "occupy distinct slots and neither can evict the other" | retiring a Job selects calls by tool only |
| `ToolDispatchCancel.cfg` | `MCToolDispatch` | `CancelReachesDriver` | `tool_router.rs:678`: fires the cancel "so the tool pod's AwaitToolCancel wakes and stops" | the fired token is removed; a driver that looks later makes a fresh one (`dispatch.rs:635`) |
| `ConversationRegistryTorn.cfg` | `MCConversationRegistry` | `MetaNeverTorn` | `conversation.rs:58`: "concurrent readers never see a half-written file" | all writers share `meta.json.tmp` |
| `ConversationRegistryResurrect.cfg` | `MCConversationRegistry` | `NoResurrection` | `registry.rs:7`: "a previously-deleted id can never resurrect" | a rename admitted before a delete writes the sidecar after it |
| `RelayAck.cfg` | `MCRelay` | `AckIsFirst` | `state.rs:317`: the ack is "the first frame of the outbound stream" | the stream is registered before its ack is queued |
| `CallSessionBroken.cfg` | `MCCallSession` | `BrokenCallIsError` | `execution_log.rs:54`: a terminal that is not DONE is an error | a call whose channel ends with no terminal, the guard's having found it full, folds to a success |
| `ServerRequestsCapable.cfg` | `MCServerRequests` | `SentToCapable` | `common.proto:534`: the method "Must be in the client's last-advertised supported_methods" | the request goes to every stream once any client advertises the method |
| `TuiRunning.cfg` | `Tui` | `RunningIsLatest` | `tui.go:228`: running is the relay's latest turn state for the viewed conversation | a late ack sets it after the turn's end |
| `Catalogue.cfg` | `MCCatalogue` | `GrantsFollowDefinition` | `tool_router.rs:96`: "a tool's grants can never lag its definition" | a call reads definition and grants in separate snapshots (`:619`, `:621`, `:628`) |
| `SycoadmSuspended.cfg` | `Sycoadm` | `SuspendedStays` | `upgrade.rs:288`: "A suspended tenant is never re-provisioned" | only the reap-after annotation is looked at, which `tenant down` without a keepalive never sets |

`SycoadmReady.cfg` is run by hand too and passes (176,362 states): one tenant, two versions, all
commands, one fault and one misread probe on a cluster that an earlier release left (`Older`),
since `setup` cannot finish from nothing: on a new cluster `ready` is never reached and
`ReadyMeansLogin` says nothing. The theorems below state its two properties for every instance.

## Proofs

Eight modules hold the theorems, of eleven modules. Each states inductive
invariants, which TLC checked on the run's instance before they were proved, shows that the
initial states satisfy them and every action keeps them, and draws the theorems from them. They
hold for every value of the constants that the named ASSUMEs of the modules allow: any number of
calls, clients, conversations, texts, answers or lines, any channel capacity, any number of
faults. Where a theorem states a property of a run, the statement is that property, unchanged.

| Module | About | Theorems | Property of a run |
|---|---|---|---|
| `AgentTurn_proofs` | `AgentTurn` | `TypeCorrect`, `CancelSafe`, `ContextCorrect`, `TerminalIsLast`, `ResultsAreIntroduced`, `RoundsAreAnswered`, `UnpairedIsCutShort`, `RepliesAreDurable` | all seven of `agent_turn` |
| `Dispatch_proofs` | `ToolDispatch` | `TypeCorrect`, `GrantsSeparate`, `CallsRunOnce`, `OneTerminalEach`, `NoCallStranded` | all four invariants |
| | `Inference` | `ItemsStayNested`, `ResultsInOneMessage`, `TurnsAreWhole` | all three invariants |
| `Restart_proofs` | `ConversationRegistry` | `TypeCorrect`, `OwnershipSurvives`, `DeleteIsFinal`, `MintIsDurable` | all three |
| | `Sycoadm` | `LoginSurvives`, `NodeIsLeftAlone` | both of `SycoadmReady.cfg` |
| `Relay_proofs` | `Relay` | `TypeCorrect`, `ClientsAreToldTheTruth`, `TheEndIsAhead`, `NoItemIsSkipped` | all three |
| `CallSession_proofs` | `CallSession` | `TypeCorrect`, `RecordIsWhole`, `FailedOnlyForAReason`, `AwaitsKeepPromise` | both invariants and the refinement |
| `Client_proofs` | `ServerRequests` | `TypeCorrect`, `ApprovalGates`, `AnswersFindTheirCall`, `TableIsAccounted` | all three invariants |
| | `Tui` | `ReconnectsOnce`, `TextsInOnePlace` | both invariants |
| `Access_proofs` | `Access` | `TypeCorrect`, `OnlyTheAllowedAreServed`, `TableIsWhole` | both invariants |
| `CapabilityPod_proofs` | `CapabilityPod` | `TypeCorrect`, `FramesAreScrubbed`, `TerminalsAreTrue` | both invariants |

What the invariants add to the properties, and why:

* AgentTurn. `Inv` is `TypeOK` and `WithinTurn`: a token exists only for the conversation
  served and inside `llm_loop`, and a tool round has been counted. `CancelInv`: inside a turn
  a fired token or a result of "cancelled" means the turn was asked to stop. `ContextInv`:
  the log is in the cache from the receive on. `FramesInv`: frames are ordered by turn, and
  none of the running turn is terminal before `end_turn`. `LogInv` is what every history, in
  memory or in the file, satisfies: it holds records of turns received; the served turn's
  rounds are answered while the model is asked, and the last one up to the call dispatched; a
  last record without its newline is of a turn a crash ended, so what the next write spoils
  is of no turn that replied; a reply with text is in the file before it is delivered.
  `MessagesInv` carries it over to the context that is resent.
* ToolDispatch. `Inv`: a call is bound to a Job of its grant, a queued call is in its own
  bucket once and unclaimed, a driver claims once and only a call of its Job; a refused call
  was taken out of the queue before anyone claimed it. `Inv2` for the terminals: a call's
  sender is parked, held by the driver that claimed the call, or gone, and a terminal was
  sent exactly if it is gone; and there is an injective map from the queued calls to drivers
  of the same Job that have yet to take a call. That matching is what `NothingStranded`
  needs: a driver may take another's call, but then that one's driver is left for it.
* ConversationRegistry. Until a delete begins, everything that holds an owner (the registry,
  a request about to write one, a file) holds the mint's; a file belongs to one conversation
  and has one name; a mint that has not answered is alone with its id; while no two
  writers met, the one that writes has the temporary file to itself and a file with the
  final name is whole.
* Relay. `Places` ties a client's position to its stream's, `Line` says where a message is
  (bus, wire, turn or over) and that there is no outcome before, `Truth` that frames and
  records carry the outcome, `Ends` that a client about to listen has its end in the queue or
  in the fan-out under way, `Items` that the items in a queue can be numbered without a gap
  from what was read to what was sent.
* CallSession. A call's terminal is its last frame; the record holds what it was offered, in
  order, and all of it but images unless something was lost; an await stream's line is in
  order, without a gap if live, and only its last frame is a terminal. `AwaitsKeepPromise`
  maps every step of sessions, fan-out, record and restart to a step of `AwaitStream` or a
  stutter.
* ServerRequests. A slot is under the id of its ask, which is open or was dropped, and
  unanswered; an approval has an id of its own (only client tools use the model's call ids);
  an ask is approved only by a client that was shown that request.
* Access. The watcher's sets are those of one delivery, and of a listing under way, what is
  left of it; the table is a delivery's, whole; each check a call has behind it is noted,
  and so is what holds now; a cached owner is the owner, or the conversation is deleted.
* CapabilityPod. `Staging`: a credential is staged only from the Job's Secret, and a pod that
  serves scrubs what is staged. It rests on `JobRegisters`, a lemma about `BuildToolJob`:
  the credential map and its registration come after the entry's own env and name the same
  target, so an entry cannot unregister it. `Clean`, `Pumps` and `Terminals` speak of a call's
  whole stream, read, in the channel and with the task: what was read of a pipe is what is
  on the stream, numbered; a pipe that ended is spent, nobody is left to write to it or a line
  that cannot be read stops it; a terminal on the stream is the last frame and true for
  good, since a call that has its end has no process that could write again.

* Inference. `BaseInv`: the parser is behind what has arrived and that behind what was said,
  there is no answer before its request, and nothing is in the channel of a turn that has gone.
  `NestInv`: the open text run and the open call of `emit` are items started and not stopped, and
  only text items stop. `AnswersFollow`: in the messages built from the history every one with
  calls is followed by one with as many results; adding the results of a round one by one keeps
  them in one message. `AnswerInv`: what the source has kept and what is pending, together, are
  the text and the calls of the events parsed so far, each call once and, in answers whose
  fragments come together, with its own fragments; and a Complete, in the channel or handled, has
  all of it and nothing is still to be parsed. `TurnIsWhole` speaks of the end only; the parts of
  `AnswerInv` are its meaning half way through an answer.
* Tui. `CmdInv` counts the commands under way by kind: one reconnect exactly while the chat is
  disconnected, one ingest exactly while `sending`, and nothing that could report a loss before
  the first connection. `TextInv`: a text is at one place of input, queue and messages sent; the
  ingest under way is of the message sent last; and what the relay took is a subsequence of what
  was sent, of all before the last one while that one's ingest has not reached it.
* Sycoadm. `SetupInv`: a running command is where it can be. While no probe misread,
  `OneTrust`: the trust on the host is the one the apiserver was booted with, and setup makes
  new trust only when there is no cluster. `Bound`: a binding is of a user who can log in;
  setup that will install Dex, or a new cluster, finds no binding, and setup that skips the
  login finds one; past the login there is one. `Runtimes`: gVisor is on the node wherever
  Cilium is, and the node is signalled only where Cilium is not. The properties speak of a
  ready cluster; the invariant has to speak of every point at which a setup may have been cut
  short, and of what the next one has probed but not yet used.

Two theorems of AgentTurn need hypotheses beside the ASSUMEs, both of them the run's.
`MaxWriteErrors = 0` (`ContextCorrect` and the four about the log): the code logs a failed
append and goes on, so with one the log may lack what the context has. `"end" \notin CallsOn`
(`UnpairedIsCutShort`): a completion that ends its turn with calls is stored with them, and
they are never dispatched. Crashes and torn records are not excluded.

The answers of Inference are restricted by `AnswersAssumption` (above). The theorems of Sycoadm
have the hypothesis `SycoadmConstants`: a version is a number other than 0, which stands for "not
installed", and the two switches are Booleans.

What a recursive function computes is proved by induction all the same: `LeastNumber`, from the
well-foundedness of the naturals, says that a non-empty set of numbers has a least element;
applied to the set of positions at which a fact fails, it gives the fact at all positions
(`Upward`). So the facts about collected text, calls and arguments, about flattened queues and
about built messages hold for sequences of any length.

Only model-checked is liveness: `CancelEndsTurn`, `TurnEnds`, `EveryCallEnds`, `AwaitEnds`,
`CancelUnwinds`, `CallEnds`, `RevocationTakesEffect`, `PodGoesAway`. The prover has no rule for
fairness or ENABLED. Every invariant and every safety action property of the passing runs is a
theorem.

## Plan

1. Composition of AgentTurn and ConversationRegistry: a delete beside a running turn, whose
   next append makes the directory anew.
2. The Gemini format in Inference; heartbeats and forwards in Relay.
3. A refinement of AgentTurn's tool wait by CallSession, as AwaitStream is for await streams.

## Not modelled

* Helm charts, Kyverno policies and network policies: configuration of other systems. Where
  a policy acts on what the code writes (a Job started for a command, a reap) it is an
  external action of Sycoadm.
* `instructions.rs` and the rendering of prompts and tool schemas: text built from files.
* The Gemini format and the merging of request parameters: no parameters are passed, and
  Gemini is a third translation of the same shape.
* What the built-in tools compute, JSON and protobuf encodings, display and log lines.
* `sycoadm`'s prerequisite checks and image builds, which leave nothing in the cluster that
  another command decides by; the up and down of workspaces, users, toolsets and channels,
  which take the same path as a tenant's.
* Names and `touch` in the registry, attribution data in the log: no operation decides by them.
