# Garlic Claw: specifications and proofs

TLA+ models of the server of Garlic Claw (`packages/server`) and of the connection part of its
plugin SDK (`packages/plugin-sdk`), the TLC configurations that check them on small instances, and
proofs of their safety properties for every instance, checked by TLAPS. Paths below are relative to
the repository; `modules/` is `packages/server/src/modules/`.

The server is one Node process. Nothing in it is preempted, so its races lie between the awaits
of different requests: a check before an await and a write after it, a timer that fires while a request
waits, a provider, a plugin or a child process that answers late or never. Its state is kept in memory and
in JSON files that are written whole, and a crash can come between two writes. An action of a module is a
run of code between two awaits that really wait; an await of a promise that is already resolved lets no
request in.

## The system

| Component | State | Operations | Hard behaviour | Correct when |
|---|---|---|---|---|
| Conversation tasks (`modules/conversation/conversation-task.service.ts`) | `tasks`: reply id to handle (abort signal, settled flag, listeners, completion) | start, generate, retry, complete, stop, force-stop, finalize | provider and hooks answer late, stop with a 20 ms grace period, new task under an id whose old task still runs | the table holds exactly the live tasks; stop returns and is final; every reply ends; every listener is told |
| Event streams (`modules/conversation/conversation.controller.ts`) | one subscription per open stream | answer to a send or retry, attach, follow the continuation, `[DONE]` | subscribes after the start, catches up from the store, moves on to the next reply | a stream tells what the store says; `[DONE]` means that nothing is generated |
| Message lifecycle and message service (`conversation-message-lifecycle.service.ts`, `modules/runtime/host/conversation-message.service.ts`) | a status per message, in the conversation file | send, retry, stop, edit, delete, continue after a compaction | checks and writes separated by plugin hooks | one task at work; no reply in progress loses its task |
| Conversation store (`modules/runtime/host/conversation-store.service.ts`) | conversations, plugin sessions, revisions, approvals: one file | create, update, replace messages, delete trees, load, settle interrupted replies | crash between and inside writes, a deletion that fails half way | what is loaded is what was last saved; nothing stays in progress after a start |
| Compaction (`modules/conversation/context-governance.service.ts`) | the history it read and its revision | ask a model for a summary, retry with more, replace the history | history changed during the model call | what the model is shown tells of every message |
| Deletion of conversations (`modules/conversation/conversation.controller.ts`) | the tree it read | stop tasks and subagents one by one, remove, delete directories, save | the tree grows and work starts while it waits | what is removed was stopped first |
| Subagents (`modules/runtime/host/subagent-runner.service.ts`) | status and active reply on disk; timers, executions and waiters in memory | spawn, next input, wait, interrupt, close, execute, recover at start | crash between two writes, wait timeout against completion, interrupt against a turn that ends | no turn and no waiter is forgotten; a status that is over stays over |
| Remote plugins (`modules/runtime/gateway/`, `modules/plugin/ws/`, SDK `client/plugin-client.ts`) | connections, index by plugin, pending requests, sockets and timers in memory; the plugin's record on disk | connect, authenticate, register, heartbeat, call, answer, sweep, disconnect, delete | reconnects, replaced connections, late answers, restart while plugins live on | one connection per plugin; answers settle their own calls; no call outlives its connection |
| Tool permissions (`modules/execution/runtime/runtime-tool-permission.service.ts`) | pending requests, cached and stored "always" approvals | review, ask, reply, abort | abort against reply, deletion and restart while a request waits | each question gets one verdict, and the tool runs only after a yes |
| File tools (`modules/execution/runtime/runtime-file-freshness.service.ts`, `modules/execution/{read,write,edit}/`) | lock chain per file, stamps per session | read, guarded write, append, edit | lock chains that fail, shells that write between two awaits | writers exclude each other and are all served; a write follows a read of the same content |
| MCP (`modules/execution/mcp/`) | configuration in memory and files, records, clients and their child processes | boot reload, save, rename, delete, enable, reload, health check, call | a connect that ends after a newer change, a failing call that closes a newer client | no process is lost; what is listed and offered is what the configuration says |
| Automations (`modules/execution/automation/automation.service.ts`) | automations and run histories on disk, timers in memory, one conversation per run | create, update, toggle, remove, cron run with pruning | overlapping runs, changes during a run, pruning that fails | what is on has a timer or a run; the history misses no conversation |
| Plugin cron jobs (`modules/runtime/host/plugin-runtime.service.ts`) | jobs on disk, timers in memory | list, register, delete, reconcile, tick | every listing starts all timers anew, ticks that overlap | a job that is on goes on ticking, one that is off does not |
| Hook chains (`modules/runtime/kernel/`) | none of their own | run a hook over the connected plugins | plugin gone between two hooks | a missing plugin does not fail the request |

The components meet at the conversation store (the tasks, the subagents, the compactions, the deletions, the
automations and the edits of the controller all read a record, await and write it back), at the hooks (message
lifecycle and tasks await plugins), at the session environment of a conversation (file tools and shells use it, its deletion
removes it), and at callbacks (the gateway's drain and closer, a task's listeners and completion hooks).
`PROJECT.json` lists every component with what is modelled of it, and the hazards at their lines.

## Modules

| Module | What it is |
|---|---|
| `ConversationTask` | the replies of one main conversation: tasks, requests, statuses |
| `ResponseOwnership` | what the task table promises: a message has one owner at most, who takes back what it shows as streaming; others may only feign a message the owner does not show |
| `TaskStream` | an event stream of the conversation, composed with `ConversationTask` |
| `ConversationRecords` | the store: records in memory and in the file, sessions, crashes, torn writes, the start |
| `HistoryCompaction` | the compactions that read a history, await a model and replace it |
| `ConversationDeletion` | work in a conversation, and the requests that delete a tree |
| `ConversationStore` | the three above composed |
| `ConversationLog` | what the store promises of a history: it grows by new messages, loses one at a time, and survives a restart |
| `SubagentRunner` | one subagent: status, replies, timer, execution, waiters, requests, crashes and boots |
| `SubagentJob` | what a subagent's status promises to the plugins that use it |
| `PluginGateway` | one remote plugin: its processes, sockets, connections, record and calls |
| `PluginLease` | what the gateway promises a caller: one holder, its calls, none that outlives it |
| `SessionCalls` | the tool calls of one conversation: the constant the next three share |
| `RuntimePermission` | the permission questions of the calls |
| `FileFreshness` | one file, its lock chain and stamp, and the tools on it |
| `ToolCalls` | permission and file tools composed: a call is reviewed, runs and returns |
| `PermissionDialogue` | what the user is promised: one question, one verdict, no tool without a yes |
| `McpConnections` | MCP servers: configuration, records, clients, requests, boot, calls, processes |
| `CronTimers` | the phases of a timer to the next cron date |
| `AutomationRuns` | automations, their timers, overlapping runs, pruning |
| `PluginCrons` | the jobs of plugins, their timers and ticks |
| `Schedules` | the two schedulers in one process |
| `...Props` | properties, refinement mappings and fairness of a module |
| `...Proofs` | their proofs |
| `MC...` | instances for TLC (symmetry, the names of servers and plugins; the constants are in the `.cfg` files) |

`TaskStream`, `ToolCalls`, `ConversationStore` and `Schedules` are compositions: their actions are conjunctions of actions of the
modules they extend. Some definitions are marked `Fault:`. They are not part of any specification: each is a plausible
mistake in the definition that follows it, kept to see that the properties notice it.

### ConversationTask

`tasks`, `aborted`, `settled`, `finished` and `attempt` are the fields of the service and of its handles;
`pc` is the await a handle's `runTask` is suspended in (`creating` the stream, `reading` a chunk,
the `usage` annotation, the retry `backoff`, the `completing` and `sending` hooks); `req` is what an HTTP
request is doing, with what it read before it waited. `SendMessage`/`SendMessageCreates` are the two halves
of `startMessageGeneration` around its hooks, `UpdateMessage...` and `DeleteMessage...` those of an edit and a
delete behind `stopTask`; `TaskStep` is `runTask`, one disjunct per await; `GraceExpires` is the forced stop;
`Restart` loads the file and settles what was in progress. Texts, tool calls and token counts are left out:
the statuses and who may write them are what the properties tell apart.

An edit writes the message it has read before the `message:updated` hooks, its status included; a hook may also return
another status (`MessageUpdatedHookMutateResult.status`), which goes through the patch into the file whatever the tasks do
(`conversation-message.service.ts:163`, `:201`, `:88`). `HookStatuses` is the set of those that hooks return. They are the one
source of a reply in progress that nobody generates: `OnlyHooksFeign`, `OneReplyAtWork` and `StopIsFinal` say that every other
write keeps the statuses true, and except the very step in which a hook chooses (`HookChooses`). Left out: the status that a
`message:created` hook gives to a message that a plugin sends.

Bounds: two replies, two handles, two requests (one where the property is about a disciplined client), one
automatic retry. A handle is reused when its `runTask` has ended and it is settled, so two handles are a
forced-stopped task that still runs beside the new one of the same message, the case the table must
survive; more handles repeat it. The retry limit matters at 0, below and at the limit: 1 shows all three.
`HookStatuses` is `{"pending", "streaming"}` where the table and what is shown are compared, `{"pending", "completed"}` in the other
two runs: one status that starts a reply again and one that ends it. The proofs take any set.

### TaskStream

`stream` is one HTTP response: closed, waiting for a task to start, or following a task, with the status it was last told.
Streams influence neither the tasks nor each other, so one that opens at any time is all of them. What it does after an
event, an end or a start costs microtasks only, so every step of `ConversationTask` carries the stream's reaction (`StreamReacts`):
the next event, the continuation of a compacted reply (`AfterReply`), or `[DONE]`. `Told` takes the events from what the task does, not from
the store, and `ViewIsCurrent` compares the two. `OpenStream` answers a send or a retry, `AttachStream` is the GET request. The buffer
between an attach's subscription and its snapshot stays empty, because that code does not await. The user's messages, their deletion, and the
streams of subagents are left out. `TakesTheNext` fixes which unused id and handle comes next.

Bounds: those of `ConversationTask` with one request. Two replies are one with its continuation.

### SubagentRunner

`sub`, `active` and `reply` are on disk, the rest in memory. `Spawn`, `SendInput`, `Wait`, `AbortExecution`,
`InterruptQueued` and `CloseQueued` are the calls; `TimerFires` to `PruneDone` are
`executeSubagentConversation`, cut at its awaits; `CrashBetweenWrites` stops after a prefix of the writes of
one action, and `Boot` is the recovery in `resumePendingSubagents`. An edit writes the status it has read or any that a hook returns
(`HookStatuses`: all five in `subagent_runner`). Bounds: three or four replies (a turn,
its continuation after a compaction, a next turn), two waiters and two callers, so that a wait and an interrupt,
or two interrupts, meet at one turn.

### PluginGateway

A connection is one WebSocket: `link` is the client's end, `socket` the server's entry, `toServer` and `toClient`
what is under way, in order. `conn` and `owner` are `connections` and `connectionByPluginId`, `timer` the
authentication timeouts, `pending` and `issued` the request ledger, `record` the persisted `connected` flag.
The server's handlers do not await, so a received message is one action. A lost connection may still deliver
what was sent on it; the server learns of the loss from the socket's close event (`SocketCloses`) or from the
sweep (`Sweeps`), at any later time. `Restarts` is a crash or a redeployment: memory is gone, the record
and the clients' handlers are not. `UpsertRemotePlugin` and `DeletePlugin` are the administrator's requests.

Left out: calls from the plugin to the host and their authorized contexts, the health probe, the batches of
100 ms in which calls go out (a call is sent at once), replies that the client ignores (`register_ok`, `pong`,
`protocol_error`), wrong access keys (a refusal for a missing record stands for every refusal), several plugins
on one connection, and the sweep of connections that never authenticated. Pings go one at a time.

Bounds: two processes and two sockets are what a replacement needs (the old and the new connection), one call and one
restart what a late answer needs. The run on reconnection has one process with two sockets, the one it gave up
and the one in use.

### ConversationStore

`records` is the map in memory, `file` the JSON file, both with the histories as functions from message ids to what a
compaction looks at: is the message a summary, is it in progress, is it covered, and of which messages it tells.
A revision is kept as what it is used for: `held[r]` is the set of conversations that compaction `r` may still
replace, and every update takes its conversation out of these sets. `Touch` stands for all updates that change no history
(titles, approvals, personas, todo lists, texts of messages). Each of them uses up the revision, also an approval, which the code saves without a
new revision (`conversation-store.service.ts:216`): in the model a compaction gives up more often. The status that a `message:updated` hook may
return is `ConversationTask`'s matter and left out here.

`HistoryCompaction` is `runCompaction`: `StartCompaction` takes the history and the revision, chooses a prefix and waits for the model,
`AsksAgain` chooses a longer one, `GivesUp` ends without a summary, `Replaces` writes if the revision is still held. Which prefix is chosen depends on token counts,
so any is. `ConversationDeletion` is the request: the tree is read, its work is stopped piece by piece, each with an
await, and then the store removes what is the tree by now, one record and one directory after the other, and saves at the end.
A directory that cannot be removed ends the request with memory and file apart, `failures` counts those (a bound). `since` is a history
variable: the newest message when the deletion began.

Bounds: two conversations, one of which may be a subagent of the other, three messages, one compaction and one deletion
at a time, one failure. Three messages are a summary, a covered message and one that came in between; two compactions at once are
kept apart by the revision alone, which one compaction against sends, edits and plugin sessions exercises. Work begins where no other work is going on (`BeginsWork`): sends that overlap
(Known behaviours 1) are left out, and what is said of replies and compactions is conditional on that. The user's message of a send
is left out (it is never in progress); a torn write is a file that loads empty; several files torn at once are left out.
The proofs have none of these bounds.

### ToolCalls

`RuntimePermission` keeps the fields of the service: `pending`, the cached `approvals` (`loaded`) and the stored ones, and for each call where
its review stands. `told` is the last event the page got about it. Calls of a task carry its abort signal (`Signalled`), calls
of a plugin carry none. `ReviewPasses` stands for every bypass: a subagent, the mode that asks nothing, a policy
that allows. `FileFreshness` has one file of one session. `tail` and `previous` are the lock chain: a promise per waiting
call. A content is kept as its origin: `known` (a tool of the session returned or wrote it), `foreign` (a shell made it),
`exposed` (a shell made it while a file tool was between two awaits, which no check can notice). The stamp is none, fresh or stale.
In the code it is the modification time in ms and the size, and reading a part of a file stamps all of it: a shell's write within the same ms to the same
size goes unnoticed there, and is left out here.

Bounds: two calls, one of a task and one of a plugin, on one file; the policy asks for writes. A chain of two is
enough for a lock that is taken over and one that is passed on after a failure. Left out: torn `writeFile`, removal of an empty session directory,
the stop of a deleted conversation's calls (deleting removes the record only, which is the worst case for the questions).

### McpConnections

`file`, `memory` and `override` are the configuration store, `records` and `clients` the maps of the service, `sessions` the child processes.
A worker is an administrative request or the boot's reload; `op` says which await it is suspended in. `syncServerRecord` is
`StartSync`, `SyncGoesOn`, `Spawns`, `AttemptFails`, `SyncConnects`; a removal and a health check likewise. A process may end at any moment,
and a call may fail at any moment and closes whatever client the table has then.

Nothing in the code serialises two workers on one server, and where two meet every promise below fails (see Known behaviours). `disturbed[n]`
is a history variable: two workers, or a worker and the close of a failed call, met on `n`. The properties speak
of the other servers, and of those the boot has already visited.

Bounds: two servers, two configurations, one request beside the boot and one call, two sessions, two entries of one name. `AsksOn = FALSE`: after a meeting
only reloads go on there, since nothing is claimed of it (the proofs do not need this bound). Left out: the order in which the boot visits the servers, secrets, tool lists, error texts, torn configuration files.

### Schedules

A timer is `none`, `far` (just set) or `near` (its time has come): a cron date is no number here. `AutomationRuns` has
the automations with a cron trigger. `runs` are the cron runs, which may overlap; a run with a history creates its conversation,
deletes those that are too many one by one (`pruning`: each deletion is awaited and may fail), then acts, and at its end
saves the list and sets the timer. The order of a history is left out: where the code deletes the oldest, any earlier may go. `touched`
and `lost` are history variables: an automation whose timer a request set during a run, and conversations of a crashed
or overlapped run. `PluginCrons` has the jobs of the manifest and those a plugin registers; a listing merges the first
into the stored list and starts all timers anew (`Reconciles`), `reread` remembers that it did so during a tick.
`Register` is a call of a plugin that is known, the only kind there is; the code would also arm the job of an unknown one, and drop it at the next
reconciliation (`plugin-runtime.service.ts:211-215`). A job whose expression cannot be parsed gets no timer (`:428-436`): it is a job that is
`off`. `RunsAreRemembered` compares with `MaxHistory`, the largest `keep` an automation may ask for.

Bounds: one automation, two runs at once, three conversations, a history of two; one plugin with one job of each kind, two overlapping ticks.
`Together = FALSE`: a behaviour uses one of the schedulers; they share no state. Left out: runs by hand and by event beyond their saving,
what a run does (messages, device commands), logs, and the length of delays.

## Runs

| Run | Instance | What it shows |
|---|---|---|
| `conversation_task` | two requests of any kind, slow hooks, undisciplined clients, crashes | the table, the settled flags, waiting stops and finish events agree; only hooks feign a streaming reply; late provider answers change nothing; the table implements `ResponseOwnership` |
| `disciplined_conversation` | one request at a time, clients that wait for `[DONE]`, hooks that end within the grace period | one task at most, no reply in progress loses it, no unhandled rejection; stop is final (but for what a `message:updated` hook returns); an event stream tells what the store says and its `[DONE]` is the end; every reply that has a task ends, and so does every stream |
| `stop_returns` | fair timers only | stop returns though provider and hooks may never do |
| `subagent_runner` | two waiters, two callers, edits, torn writes | turns and waiters are carried; waits see the outcome; the status implements `SubagentJob` |
| `subagent_calls` | no edits, no torn writes, fair environment | no reply stays in progress after its turn; calls return and the server comes up |
| `plugin_gateway` | two processes, one call, one restart | index, connections, record and pending requests agree and implement `PluginLease`; answers settle their own calls |
| `plugin_reconnect` | one process, fair | every call ends; the plugin comes back |
| `tool_calls` | two calls on one file, shells, aborts, a deletion, restarts | questions, reviews and listeners agree and implement `PermissionDialogue`; approvals survive; the lock excludes and serves everybody; read before write |
| `conversation_store` | two conversations with replies, edits, sessions, compactions, a deletion that may fail, torn files | memory and file agree; replies have work; compactions forget nothing; deletions stop what they remove; the histories implement `ConversationLog` |
| `compacted_restart` | the same without sessions and torn files | finding: a start drops conversations that were compacted |
| `mcp_connections` | two servers, boot and one request, one call | no process is lost, records follow the store, offers are current, where no two workers met |
| `schedules` | one automation with two runs, one plugin with two jobs | what is on has a timer or a run; overlaps have a cause; the history misses nothing; what is on ticks again |

Deadlock is checked in every run: the environment can always act, so a state without a step would be an error of the
model. A module's type invariant is proved rather than run (see Proofs).

## Fairness

* `TimersFair` (stop): Node runs a due timer and a resolved promise. Nothing else is assumed.
* `AnsweringStreams`, `Answering`: providers, hooks and compactions return. The code sets no timeout on them, so this
  is an assumption about the environment and every property under it is conditional on it.
* `Restarted`: a process that went down is started again.
* `ServerFair`, `ClientFair` (gateway): messages of an open connection arrive, timeouts fire, a socket the server closes
  ends, the client reconnects and pings, its handlers return. A lost connection is only noticed
  by the sweep. Nobody has to start, stop, call or delete anything.
* `ComesBack` has two premises. After some time nothing disturbs the plugin (network failures, administrator's
  requests, messages that take longer than the timeouts). And a connection does not authenticate after its client
  left it: if it does, it takes the plugin from the connection in use, whose client is not told and never connects again.
* `ToolFairness`: file system calls and shells return, and a call whose lock is free goes on. Nobody has to answer a question.
* `TimersRun` (schedules): time passes and a timer whose time has come fires. Runs, hooks and deletions may take for ever, so
  `KeepsTicking` allows a run that does not end, besides requests or restarts that set the timer anew for ever
  and, for automations, the exhaustion of the bound on conversations. An automation whose conversation was deleted ticks in vain (`FiresInVain`).

## Findings

`compacted_restart`: a compaction gives its summary the id `context-compaction:<uuid>`, and a start keeps a conversation
only if all its message ids are plain UUIDs of version 7. The start then writes the reduced store back: a compacted conversation is
gone, also from the file. `ConversationRecords` models what is loaded as the code does it, and `ConversationLog` allows the loss of a
conversation as a whole at a restart for this reason.

## Known behaviours

Met while modelling. The models behave as the code does; no run asks for more than the code keeps.

Six can be reproduced with the modules here. In each case one assumption of a passing run is dropped (in 1 to 3 with
`HookStatuses = {}`, so that the cause is the one named):

1. Two sends that overlap in the `message:received` hooks start two replies: `DisciplinedConversation.cfg` with
   `Requests = {r1, r2}`, `SPECIFICATION StreamSpec` and `INVARIANT OneActiveReply`.
2. A retry between the finish event and the end of the after-send hooks leaves the reply pending for ever: the same
   file with `WaitsForDone = FALSE`, `SPECIFICATION AnsweringStreams` and `PROPERTY EveryReplyEnds`.
3. A forced stop during slow completion hooks is taken back to "completed": `HooksOutliveGrace = TRUE`,
   `SPECIFICATION StreamSpec` and `PROPERTY StopIsFinal`.
4. Deleting the reply of a running subagent makes every later start of the server fail: `SubagentCalls.cfg` with
   `MaxReplies = 2`, one waiter and one caller, `EditsHistory = TRUE` and `PROPERTY ServerComesUp`.
5. Request ids start again with the server while plugins live on, so that an answer of before the restart settles a new
   call: `PluginGateway.cfg` with one client and `PROPERTY AnswersAreTheirs`.
6. A `message:updated` hook that returns "pending" or "streaming" leaves a reply in progress without a task: every send and every retry
   of the conversation is refused until that reply is stopped, edited or deleted, or the server starts again:
   `DisciplinedConversation.cfg` with `SPECIFICATION StreamSpec` and `INVARIANT ActiveHasTask`. In the same way a hook turns "stopped"
   into "completed".

Others:

* Event streams. When a reply that is not the last of its history is retried and compacted, its continuation is appended at the end
  and not right behind it: the stream says `[DONE]` while the continuation is generated (three replies show it, `DoneIsTheEnd`
  excepts it). The web client offers the retry of the last reply only.
* Gateway. `auth_fail` is sent under the type `error` (`modules/plugin/ws/plugin-ws.module.ts:90`,
  `plugin-ws-inbound.service.ts:69`) although the protocol table (`docs/软件架构文档.md`, section 20.5) and the client put it
  under `auth`: a refused client connects again every few seconds. The ledger has no timeout for pending
  requests although section 27.4 names one.
* Compaction. A second compaction that covers the first summary strips its annotation, and what the first covered is shown again. A reply that was
  covered while it was being written streams text the model is never shown (`early`). A generated title may overwrite a rename made meanwhile.
* Deletion. It answers 404 and stops half way when a subagent it listed is gone. Pruning by an automation deletes without stopping work.
* Permissions. A question of a plugin's call has no abort signal: after its conversation is deleted nobody can answer it.
* MCP. A connect that ends after a disable enables the server again (`docs/扩展内核契约说明.md:39` says otherwise), after a removal
  brings it back. An overwritten or deleted client leaves its process. A rename onto an existing name keeps both entries in memory and the older
  one wins until a restart. The boot's reload stops at a server that was deleted meanwhile. A failed health check leaves a client
  that is not offered. Nothing reconnects by itself.
* Schedules. Jobs of the manifest of a plugin that registers after the boot get no timer before somebody lists, registers or deletes a job. Reading the
  list puts off every job of the plugin, and during a tick makes two ticks overlap. A failed save in `runCronJob` is an unhandled
  rejection and the timer stays unset. An update during a run lets two runs overlap, and one conversation is lost from the history. A crash during a run
  leaves its conversation behind. The delay is not capped at 2^31-1 ms, so a monthly expression fires after 1 ms, again and
  again; `0s` is a delay of 0.

## Proofs

The proofs hold for any values of the constants that satisfy the modules' assumptions; a theorem that needs more states it
as a hypothesis. Each `...Proofs` module proves first that `TypeOK` is an invariant (`TypeCorrect`), then that an inductive
invariant `IInv` is one, then the properties of the runs from it.

* `ConversationTaskProofs`: `IInv` adds to the run's invariants how the phase of a handle, its settled
  flag and its entry in the table belong together (a free handle is settled, a live one is scheduled or in an
  await, a request that waits names the task of its message). `TableAgrees`, `OriginOfFeigned`, `NobodyWaits`, `LateAnswersIgnored` and
  the refinement `ImplementsOwnership` follow. `OneReply` and `StopStaysFinal` hold of `Disciplined` clients: they ask one by one
  and only after `[DONE]`, and the hooks of a stopped reply end within the grace period. `CalmInv` is why. The table holds one task at most,
  and the status of a reply with a task says how far the task is; whoever was force-stopped and still runs waits for its provider and was told to abort, so that it
  writes nothing; a request behind its hooks deals with a reply without a task, whose status is still what it has read. Each of the three conditions is
  necessary (Known behaviours 1 to 3), and so is the exception for what hooks choose (6); nothing is supposed of hooks otherwise, `HookStatuses` is any set. `RunsOut` needs none: a task has a number of awaits left, in its attempt and in those it is still granted, which
  nobody raises and each of its steps but a chunk lowers.
* `TaskStreamProofs`: `StreamsOnlyWatch` carries the theorems of the conversation over to the conversation with a stream. For disciplined
  clients `ViewsAreCurrent` and `DoneEndsAll` follow from `CalmInv`: a live task goes on in its own message or ends with an event, and
  when a reply ends, either its continuation is the one task of the table, which the loop reaches, or there is no task.
* `SubagentRunnerProofs`: `IInv` adds that a server that is down has empty memory, that the recorded reply and the
  execution's reply are the same stored message, and that an edit does not write back an absent one. `RepliesEndWithTurns` supposes that nobody
  edits the history and no write is torn; then the recorded reply is the only one in progress while the turn is queued or
  generates, and none is afterwards (`TurnInv`). Without edits alone no reply is ever missing, so that every start succeeds (`EveryStartSucceeds`,
  torn writes included): Known behaviour 4 needs an edit.
* `PluginGatewayProofs`: `IInv` adds that calls wait only on the connection of the index and that no id beyond the sequence is
  in use. The first makes a replacement or a loss reject all of them, which is what `PluginLease` demands of a
  change of holder; the second makes an issued id new. `CallsAreNotForgotten` adds `CarryInv`, which follows a waiting call: its message, its handler or its
  answer is on the connection it waits on, unless nobody holds the other end any more or the socket is closing. With fairness this is
  why calls end, since the ledger has no timeout of its own.
* `ToolCallsProofs`: `Chain` says that the waiting calls have a position each, that only the first one's promise is resolved
  and that the map holds the last one, which gives mutual exclusion and, since positions are well-founded, a first one who can go on (`LockNeverSticks`).
  Read before write rests on `Unseen`: while a call relies on what it has read
  or checked, the content is not foreign. The refinement `ImplementsDialogue` needs only the agreement of questions.
* `ConversationStoreProofs`: `IInv` is `MemoryInv` (file and memory), `WorkInv` (a reply in progress is its conversation's newest work),
  `CompactInv` (a compaction whose revision is held has seen the history that is there; an active summary is not covered and tells what it
  covers) and `DeleteInv` (what a deletion has still to stop contains whatever of its tree worked when it was asked for).
  All five properties of the run follow, the refinement `ImplementsLog` among them.
* `SchedulesProofs`: `TimersInv` and `CronsInv` add to `ScheduleIsKept` and `OneRunAtATime` that a timer that is set during
  a run was set by a request. `MemoryInv` is why the history misses nothing. A run that prunes has read a history; it keeps or deletes all of it
  (`PruneInv`), and what it will write back holds nothing the history has lost since, but its own new conversation. Two runs that prune at once
  have lost theirs. What the file does not have yet is in the hands of a run (`SavedInv`), conversations do not change hands (`OwnInv`), and a history
  is not longer than asked (`SizeInv`).
* `McpConnectionsProofs`: `McpInv` follows a session through its life. Whoever keeps one keeps one of his own server (`KeptInv`); whoever told
  a process to end waits for it (`WaitInv`); on an undisturbed server a worker is alone (`MeetInv`). Hence the process he waited for is the
  client he drops (`DropInv`, `CallInv`, `FlightInv`), nothing is lost, and what he read of the store when he began is what it still says when
  he ends (`WorkInv`), so that what he leaves is current (`ClientInv`, `RestInv`). One lemma per action: its first steps
  say what the action does entry by entry, the others are the parts of the invariant.

Only model-checked: liveness (`RepliesAndStreamsEnd`, `StopReturns`, `NothingHangs`, `CallsEnd`, `ComesBack`, `WritersGetTheirTurn`,
`KeepsTicking`), which is out of the prover's reach. Of four of them the part that is a matter of safety is proved: `RunsOut` and `NobodyWaits`,
`EveryStartSucceeds` and `NobodyForgotten`, `CallsAreNotForgotten`, `LockNeverSticks`; `ScheduleKept` is that of `KeepsTicking`. Every other
property of a passing run is a theorem.

## Plan

1. `HookChain`: a chain of hooks over `PluginGateway`'s connections, with a plugin that disconnects between two of them.
2. The event streams of subagents, and the client's own reconnection.
3. The composition of `ConversationTask` and `ConversationStore`, so that a compaction meets the retries of the tasks it waits for and an
   edit's hooks the statuses in the history.
4. Delays in ms in `CronTimers`, with the limit of 2^31-1 above which `setTimeout` fires at once, and a property that no timer fires early.

## Not modelled

Authentication, settings, personas, skills, memory and logs are records read and written in one synchronous step.
The host API is a dispatch table over the other components. The output of shell commands, globbing and text
replacement are input and output or string matching. The host method that replaces a conversation's history
(`conversation.history.replace`) and the creation of a conversation under a parent that does not exist are left out of `ConversationStore`.
Delays are phases, not milliseconds. The web client, the AI SDK, the MCP servers and the operating system enter the models as environments.
