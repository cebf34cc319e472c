# Verification of voiceAIChat

TLA+ models of the parts of this repository whose correctness depends on the
order of events, the TLC runs that check them on small instances, and TLAPS
proofs of what holds for instances of any size.  Paths below are relative to
`src/apps/server/src/`, those of the automation runner to
`src/apps/automation-runner/src/`.

    tlc -workers 2 -config queue.cfg MCTurnManager       model-check one run
    tlc -workers 2 -config jobs.cfg MCAutomationQueue
    tlc -workers 2 -config services.cfg MCServices
    tlapm TurnManagerProofs.tla                          check the proofs of a module

## 1. Inventory

The server ("Core") is one Node process per deployment.  It keeps its durable
state in PostgreSQL, runs the models in separate runner processes and reaches
users' machines through agents that connect to it.

| Component | State | Operations | Hard because |
|---|---|---|---|
| Turn manager (`turns.ts`) | per conversation: the map `turns`, the sets `starting`, `restarting`, the closures `pendingSaves`, tool tokens | `start`, `onDone`, `onError`, `cancelTurn`, `sendQueuedNow`, `dispatchNext`, `resumeQueues`, `flushInterrupted` | every `await` lets another handler of the same conversation in; rows are taken before they are admitted; callbacks nobody awaits |
| Turn queue repository (`db/repos/chat.ts`, `db/schema.ts`) | `messages.state`, `conversation_turn_queue`, `conversation_turn_control` | enqueue, take, prioritize, reorder, merge, mark failed, pause | one transaction each, several of them make one step of the manager |
| WebSocket session (`session.ts`, `ws.ts`) | subscriptions, terminal ids | turns messages into calls of the manager and the registry | a message may be delivered twice; a handler outlives its connection |
| Chat accounting (`billing/chatAccounting.ts`, `billing/accountingStore.ts`) | jobs in a durable outbox, `active`, `reconciling` | admission, claim, dispatch, completion, reconcile, shutdown | Billing and the executor answer late or not at all; restarts |
| Automation runner (`apps/automation-runner`) | jobs, events and pauses in SQLite; executions in memory | create, next, cancel, pause, resume, recover | late results, cancel against crash, resume against the end of a paused execution |
| Agents: connections and calls (`agents/wsAgent.ts`, `agents/registry.ts`) | `online`, pending requests with timers, waiters | register, unregister, request, answer, timeout, abort, cancelAll | two handlers per socket, each with awaits; the old socket closes after the new one opened |
| Agents: terminals (`agents/registry.ts`, `session.ts`) | `ptys`, two timers each, ids of a browser connection | start, attach, detach, kill, exit | several connections share a terminal; timers and exits know it by id only |
| Agents: links (`agents/linkManager.ts`) | rows of links, tunnels, the serialized tail, cached authorizations | reconcile, ensure, delete, onClose, authorizeFrame, stop | a tunnel closes while the manager awaits; callbacks come late |
| Agents: relay (`agents/registry.ts`) | holds of Core and of the consumer, a poll timer | data, pause, resume, poll | two parties pause the same producer |
| Agents: watchdog (`agents/watchdog.ts`) | `alertedSince` | tick, change of presence | walks overlap and await between two machines |
| VPN service (`machines/vpn/service.ts`) | the row of a tailnet, policy and tags at Tailscale | ensure, remove, exit node | a policy write and the tags of each device fail separately; restarts |
| Merge runs (`db/repos/ci.ts`) | `merge_runs`, the card | start, claim, change of machine, cancel, retry, finish | reads before transactions; two users and an executor |
| Deployments (`db/repos/releases.ts`) | `application_environments`, `application_deployments`, `project_releases` | begin, finish, interrupt, recover, observe | a durable lock, an uncertain outcome, probes from before a deploy, a second kind of deploy |
| Storage migration (`storageMigration/manager.ts`) | plans and mappings in one file | dry run, copy, verify, delete | files change between two calls to the machine; restarts |
| QA runs (`db/repos/qa.ts`), tasks, integration tests | state columns | transitions in SQL | a gate is read before the transaction |
| Storybook sessions (`components/storybookSessions.ts`) | sessions, wishes in the app config, a lane of operations | start, stop, refresh, recovery, probes, terminal events | a probe is awaited before a port is taken; terminals are known by their copy; restarts |
| Make stand delivery, summaries, project snapshots | a cache, a promise per conversation | submit, list, refresh | a stale cache, a shared promise |
| Routes, knowledge base, Git, MCP bridges, speech, UI, scripts | little or none | input and output | not order-dependent |

How they interact: the session calls the turn manager; the manager awaits the
repository, calls the model client (through the accounting when the chat is
paid) and is called back by it; the end of a turn calls `dispatchNext`, which
calls `start` again; REST routes change messages without asking the manager;
the process end calls `flushInterrupted`.  Agents connect through `wsAgent`,
which registers them; registry events drive the link manager and the watchdog;
terminals, git, tests and storage migration reach machines through calls of
the registry.  Merges and deployments are decided in the repository and carried
out by an external service that reports back.

What makes each of them correct:

* **Turn manager.**  One turn of a conversation at a time, preparation
  included; a question is answered, queued or refused aloud, never lost;
  queue and hidden messages agree; one reply per turn; tools only while the
  turn lives; the queue moves as long as nothing pauses it.
* **Accounting.**  Nothing runs that is not held or paid for; a hold is
  followed until it is settled.
* **Automation runner.**  A job ends once; its log tells its state; a cancelled
  job ends; an answered pause can be answered and goes on.
* **Agents.**  Every call ends, on the connection it went to; no command runs
  on for a caller who left; the machine whose socket is open is online; a
  terminal has its watcher or its timer; a link is open exactly when its tunnel
  is, and silent when deleted; nobody releases a producer another one holds;
  alarms alternate and are withdrawn.
* **VPN, merges, deployments, migration, Storybook.**  What the row calls applied is so;
  one merge of a task works, where its row says; the lock is the deploy that is
  not over; what is confirmed runs; what was deleted is stored;
  servers have ports of their own, and a restart brings back what was not
  stopped.

All hazards, each at its line with the property that watches it, are listed in
`PROJECT.json`.

## 2. Plan

1. The turn manager with its durable queue and the abstract slot; proofs of
   its invariants and of the refinement (section 3).  **Done.**
2. The job queue of the automation runner and the abstract life of a job;
   proofs of its invariants and of the refinement (section 4).  **Done.**
3. The agents: connections and calls (one composes the other), terminals,
   links, relay, watchdog, with proofs for each (section 5).  **Done.**
4. Accounting, VPN grants, merge runs, deployments, storage migration,
   Storybook sessions, with proofs for each (section 6).  **Done.**
5. Left.  Models: the runs of manual QA (`db/repos/qa.ts`), whose gate is read
   before its transaction; deletion of releases.  Composition of the accounting
   with the turn manager, which has its own view of it (`Launched`, `Settle`,
   `Cancelled`).  Proofs: every safety property that a run checks is proved.
   `NothingDropped` is proved in two settings (`NothingDroppedKept`,
   `NothingDroppedNow`); where it fails outside of them is said in section 3.

## 3. The turn manager

### Modules

* `TurnQueueStore` - the stored conversation as a record (queue rows in
  position order, published and hidden messages, pause) and each repository
  method as an operator from store to store, as each is one transaction.
* `TurnManager` - the closures of `createTurnManager` for one conversation.
* `TurnManagerProps` - the properties, and the refinement mapping.
* `ConversationSlot` - the abstract specification: a slot that is free, held
  by a preparation, or held by a turn that never had it.
* `MCTurnManager` - budgets and symmetry for TLC.
* `TurnManagerProofs` - the theorems about types and the slot;
  `TurnQueueProofs`, which extends it - those about questions, turns and the
  refinement.

Conversations share nothing in the turn manager but the accounting of a user,
so one conversation is modelled and another one of the same user appears as
`OtherChatPays`.

### State and actions

A handler in progress - a WebSocket message, a model callback, a dispatch -
is a record in a slot of `task`; `pc` names the `await` it is parked at.  An
action resumes one handler: the awaited call takes effect and the code up to
the next `await` runs, which is what Node does.  `start()` is
`Deny`/`RefusePending`/`FindBusy`/`ClaimSlot` (admission), `Enqueue`,
`SetPause`, `RefusePreparation`/`FailPreparation`/`GrantTools`,
`MachineOffline`/`Register`, `Launch`.  `onDone` is `OnDone`, `Save`,
`Insert`; `onError` is `OnError`, `OnDenied`, `PutBack`, `MarkFailed`;
`dispatchNext` is `Dispatch`, `Gate`, `Take`; `cancelTurn` is `Stop`,
`SavePartial`; `sendQueuedNow` is `SendNow`, `ChooseNow`, `Merge`, `Restart`;
`flushInterrupted` is `Shutdown`, `Finalize`, `Exit`.

* *Database calls.*  `db/repos/base.ts:67-103` puts the statements of the
  process on one lane, so calls take effect in the order they were made:
  `lane`.  A call made at the moment of the await joins the lane at once
  (`DirectCalls`); one made after other awaits joins later (`Issue`).
  Steps that touch memory only are not ordered by the lane.
* *Messages.*  A message is the sequence of user inputs it is made of: "send
  now" merges two messages into one with both texts.  A queue row is known by
  its message (`message_id` is UNIQUE); a row inserted again for the same
  message is the same row.
* *Rejections.*  `Throw`: a `start()` that throws ends the process when the
  session called it (nobody catches the rejection), is swallowed by `track()`
  after a dispatch, and is put back by `sendQueuedNow`.
* *Accounting.*  `holds` are the unsettled jobs of the user.  The hold is
  taken at the launch; a stop during admission stands as an execution that
  goes on and ends unheard.
* *Models.*  After a restart of the server the model processes of its turns
  count as stopped.
* *`AsyncLaunch`* is TRUE for turns that await between their registration and
  `client.send` (conversations of a task, Codex, delegated calls,
  `turns.ts:1101-1119`).

Not modelled: the branch of `start()` for delegated calls, turns without a
message id, empty answers, a mode in which the accounting is on but the chat
is not public, the contents of prompts, snapshots sent to clients
(`emitQueue`, `broadcast`) except the history variable `refused` of the
refusals a user saw, and token deltas: whether text had arrived is a choice of
`SavePartial`.  Reordering the queue is checked for transpositions, which
generate every order.

### Bounds

`Slots` = 3 handlers in progress, `MaxTurns` = 3 turns that reach the end of
their preparation, 2 or 3 inputs, and a budget that says how often each kind of
outside event (stop, send now, error, crash ...) may happen: once, in the runs
that name it (`QueueBudgets`, `StopBudgets`, `PaidBudgets`, `LiveBudgets`,
`CancelBudgets` of `MCTurnManager`).  A run with two budgets starts with either.
Two handlers race; the third slot is for the callback or the dispatch that the
race disturbs.  Two inputs are a running question and a waiting one, three are
needed where the order of the queue matters (`queue`).  Three turns let one of
two questions fail or be stopped and run again, before or after the other one.
Within its budget a run explores every order of everything.

Inputs and handler slots are symmetric: no definition tells them apart, and
symmetry is used for invariants and for action properties, never for liveness.
Deadlock is not checked: a conversation without a handler or an unsent input
is at rest, which is its normal state.

### Runs

| Run | Checks | Shows |
|---|---|---|
| `queue` | `NothingDropped` | sends, a repeated send, an error, a reconnect; editing, deleting and reordering while turns start, fail and are refused: no question lost between queue and turn, nor after an error or a denial, when the turn no longer covers it and it has to be put back |
| `sendnow` | `SlotInv` (with `SlotExclusive`: one turn at a time), `InputsStoredOnce`, `QueueMatchesMessages`, `OneReply`, `ToolsReleased`, `SlotSpec` | "send now" against stop, error, reconnect and a cancel that throws; shutdown, crash, a throwing preparation and a deleted message; the invariant that the proof uses (it contains `TypeOK`); the refinement of the abstract slot |
| `paid` | `OneExecution` | the public chat: a stopped execution goes on, the next question waits for its accounting |
| `live` | `QueueDrains`, `SlotReleased`, `ReplySaved` | liveness with a stop, an error, a reconnect and either a refused start or a shutdown: a waiting question is taken, the slot is given up, a finished answer is stored |
| `vasync` | `OneExecution` (violated) | a stop between registration and `client.send` does not keep the model from being started |

`QueueDrains`, `SlotReleased` and `ReplySaved` assume `FairSpec`: weak
fairness of every handler (Node resumes each whose await is over; awaits of
the database, of machines and of files end) and of the model processes (the
runners stop a CLI that hangs, so each execution ends).  No fairness is
assumed of users, of the outbox or of crashes.

`QueueDrains` is not said of every waiting question, since the code does not
take every one.  Two events free the slot without calling `dispatchNext`: a
start that is refused while it prepares (`turns.ts:551-555`, `578-582`,
`786-873`, `987`; `RefusePreparation`, `MachineOffline`), and a stop of the
server.  A question that was parked meanwhile stays in the queue until a turn
ends or a browser connects.  So the property asks for less once such a setback
has happened: from then on a question is taken if the conversation is busy -
a turn is prepared or runs, or a handler is under way that does more than park
its question.  Before the first setback it asks for every question of a queue
that is not paused.  A question may be excused by a further setback, and each
budget of `LiveBudgets` holds exactly one, so that every excuse comes to its
end within the run.  Without the condition TLC finds the question that waits at
rest after a refused start (section 8).

### Proofs

`TurnManagerProofs` proves, for any inputs, number of handlers, turns and
budget (the assumption `TurnAssumption` says that the bounds are numbers and
flags):

* `TypeCorrect`: `Spec => []TypeOK`.
* `SlotInvKept`: `Spec => []SlotInv`, the inductive invariant below.
* `SlotHeldOnce`: `Spec => []SlotExclusive`, from it.

Neither `TypeOK` nor `SlotExclusive` is inductive as it stands.  `TypeOK` needs
`Flows`: the handler that puts a message back carries the place where
it goes on (`then`), and only if that is never "prepare" or "launch" does the
next step stay within its type (who called `Throw`, which turn is registered).
The proof first shows what
each repository operator and each helper (`Become`, `Reboot`, `Throw`,
`Finish`) preserves, then one lemma per action for `TypeInv` (`TypeOK` and
`Flows` of every handler).  `SlotExclusive` then follows with
`SlotInv == TypeOK /\ Flows /\ SlotExclusive`: a handler enters the preparing
places only in `ClaimSlot`, under `SlotFree`; it leaves them together with
`starting`, except when it throws after a dispatch, which keeps `starting` set
and so no other start passes.  The run `sendnow` checks `SlotInv` itself.

`TurnQueueProofs` goes on from `SlotInv`, for any inputs, handlers, turns and
budget:

| Theorem | States | Argument |
|---|---|---|
| `QueueMatchesKept`, `InputsOnceKept` | `Spec => []QueueMatchesMessages`, `Spec => []InputsStoredOnce` | `StoreInv`: rows, hidden and published messages match (`RowsMatch`), and messages share no input with each other nor with what is not sent yet.  Neither is inductive alone: a merge stores the text of two messages, and must not find it stored.  One lemma per repository operator; the manager's steps only choose the operator |
| `OneReplyKept`, `ToolsReleasedKept` | `Spec => []OneReply`, `Spec => []ToolsReleased` | `TurnInv`: each turn is at one point of its life (`TurnsFit`), a handler that goes on to store a reply is about a turn that is done, without a reply and in nobody else's hands (`HandlersFit`), and is alone with it (`OneStores`) |
| `SlotImplemented` | `Spec => SlotSpec` | the slot is preparing while `starting`, running while `active # 0`, and a turn that had it is one that was registered; each action is `Claim`, `Abandon`, `Occupy`, `Release` or a stutter of `ConversationSlot`, for which `SlotInv` and `TurnInv` give the guards |
| `OneExecutionPaid` | `Paid => (Spec => []OneExecution)` | `PaidInv`: whoever runs has the one unsettled job of the user.  `Settle` waits for the end of the execution, and a launch for the end of all jobs |
| `OneExecutionFree` | `~Paid /\ ~AsyncLaunch /\ (\A b \in Budgets : b["now"] = 0) => (Spec => []OneExecution)` | `RunsActive`: whoever runs is the active turn, and no handler waits to launch (`Direct`), since a stop cancels the execution with the turn and a launch is one step with its registration.  With an asynchronous launch the property is false (`vasync`) |
| `NothingDroppedKept` | `Undisturbed => (Spec => []NothingDropped)` | `QuietInv`: every stored message is `Covered` - a row, in the hands of a handler, given to a turn that did not fail (`Answers`), or refused aloud -, a handler or live turn that may queue its question again has it stored (`BorneStored`), and while queued questions may still be deleted a question is in one place (`Alone`), so a deletion takes it from nobody |
| `NothingDroppedNow` | `~Paid /\ NothingFails => (Spec => []NothingDropped)` | `MergingInv`: a question that a handler brings is stored and in no other place (`BroughtOnce`); what a turn was given is brought by nobody and lies within one stored message (`GivenOnce`).  So what "send now" makes of two messages is given to nobody else, and the handler that made it brings it.  Each stored question is `Kept`: queued, brought, given or refused; and no turn fails (`NobodyFails`) |

`Undisturbed` says of every budget: no crash, graceful stop, throwing
preparation, deletion over REST or "send now"; and a question is not both sent
again and deleted from the queue.  Both budgets of the run `queue`, which
checks `NothingDropped`, satisfy it, so the theorem is that run for any number
of inputs, handlers, turns, stops, errors, edits, deletions and reorderings.

`NothingFails` admits "send now" any number of times, with stops, reconnects,
refusals, edits, deletions and reorderings, and says of every budget: no crash,
graceful stop, exception, deletion over REST, error of an execution or repeated
send.  TLC finds `NothingDropped` false once "send now" meets an error, a
repeated send, a graceful stop or a deletion over REST, or happens in an
accounted chat.  With an error or a denied launch,
for example, a merge deletes a message that `onError` or `onDenied` is about to
queue again (`PutBack`): the insert finds no message, its rejection ends the
process, and the questions that other handlers hold go with it.  A crash or a
graceful stop alone loses a handler's question from the state in the same way,
with its process.

TLC checked both invariants before they were proved: `QuietInv` to the end in each
setting of `Paid` and `AsyncLaunch`, for two questions and one of each event;
`MergingInv` with and without `AsyncLaunch`, for two "send now" and two of the
other events.

Checked by TLC only: liveness, which is out of the prover's reach.

## 4. The automation runner

### Modules

* `AutomationStore` - the row of a job in `jobs`, its row in `pauses` and its
  event log, and each method of `store.ts` as an operator on that record.
* `AutomationQueue` - `DurableQueue` (`queue.ts`), the routes that call it
  (`server.ts`), the executions and the end of the process.
* `AutomationJob` - the abstract specification: the life of a job.
* `AutomationQueueProps` - the properties and the refinement mapping.
* `MCAutomationQueue` - symmetry for TLC.
* `AutomationQueueProofs` - the theorems.

### State and actions

`better-sqlite3` is called synchronously, so no handler is interleaved with
another one; but a process may end between two statements that are not in one
transaction.  `code` is what the running handler still has to execute, and
every other action but `Restart` waits until it is empty.  A turn of the loop
in `pump()` is `Pump` (the UPDATE to running), `TellState` (its event) and
`Run` (`run()` up to its first await); `cancel()` of a running job is
`CancelActive`, `TellState`, `Signal`.  `Settle` is the continuation of
`execution.result` and `Release` the `finally` behind it, which is a later
microtask.  `CancelAnswered` is the promise that `execution.cancel()` returns,
`GraceOver` the timer that is set when it is answered, `Close` the `onClose`
hook.  `Restart` is any end of the process with the `recover()` and `start()`
of the next one; it may follow `Close` at once or after further results.

* *Events.*  `told` is what a client that replays the events of a job takes
  for its state.  Texts, sequence numbers and the replay itself are left out.
* *The two kinds of waiting* (`waiting_for_questions`,
  `waiting_for_plan_approval`) differ in nothing that the queue does and are one
  state.
* *Executions.*  What executes a job is a parameter of the queue (`ports.ts`);
  `src/` has no production executor and nothing that calls `store.pause` but
  the tests.  An execution is modelled by what the queue demands of it: it has
  one result, may pause its job before that, may reject `cancel()`, may ignore
  it.  A job runs at most twice in one process, `Runs` - it can pause once,
  since `pauses.job_id` is UNIQUE and an answer is taken once - and that bound
  is itself proved (`TypeCorrect`).
* *An `execute()` that throws* rejects the promise of a handler that nobody
  awaits and ends the process, as `Restart` does at `Run`.
* *Order.*  `order` is the order of `created_at, id`; jobs created within one
  millisecond, whose ids decide, are not distinguished.
* *Idempotency.*  A job stands for its idempotency key: `Post` of a job that
  is there creates nothing and pumps all the same.

Not modelled: checks of the request bodies, the health route and reading the
events.  No method deletes a job.

### Bounds, fairness and runs

The state is finite without any bound on events: a run is complete for its
jobs and places.  Three jobs and two places (`jobs`) are the least with a job
that runs, one that takes its place, and one that has to wait for either.
Liveness is checked in `serviceslive` (section 7) with two jobs that run at
once, since a cancellation concerns one execution and what else the queue is
busy with; `services` checks `TypeOK`.  Symmetry is used in `jobs` only, whose
properties are invariants and a refinement without fairness.

`FairSpec`: statements of a handler are executed; a process whose `onClose`
has begun ends; and for each job, strongly fair, what its executions and
timers owe the queue (`Owed`): `cancel()` is answered or rejected, the grace
timer runs out, the `finally` runs, an execution that was cancelled by force
ends.  Strong, because any of these is disabled, again and again, while a
handler is being executed, and the event loop starves no callback.  An
execution that nobody cancels may hang forever.

| Run | Checks | Shows |
|---|---|---|
| `jobs` | `WaitingAnswerable`, `LogFollowsState`, `CapacityKept`, `NoIdleCapacity`, `LifeSpec` | pauses, answers, cancellations, late results and the end of the process between any two statements |
| `serviceslive` | `CancelTakesEffect` | liveness: the cancellation of a running job comes to an end |
| `vresume` | `AnsweredRuns` (violated) | the resume route queues the job but pumps nothing; after a restart there is no execution whose end would |

Three of the properties speak of jobs that have not paused.  The code needs
that: an execution that pauses its job goes on, the answer queues the job, and
`pump()` starts a second execution whose entry in `active` replaces the first
one's; the `finally` of either then removes the entry of both.  For such a job
the number of executions may exceed the concurrency, and a cancellation may
reach no execution: no property covers that, and no document decides what should
happen.  `CancelTakesEffect` also excepts a `cancel()` that is
rejected: the timer that would force the end is then never set
(`queue.ts`, `cancel`).

### Proofs

`AutomationQueueProofs` proves, for any set of jobs and any concurrency:

* `TypeCorrect`: `Spec => []TypeOK`.
* `WaitingKept`: `Spec => []WaitingAnswerable`.
* `LogKept`: `Spec => []LogFollowsState`.
* `LifeImplemented`: `Spec => LifeSpec`, the refinement.

* `CapacityRespected`: `Spec => []CapacityKept`.
* `NoPlaceIdle`: `Spec => []NoIdleCapacity`.

All rest on `QueueInvariant`: `Spec => []QueueInv`.  `QueueInv` says what
`code` can be (`CodeShape`: one of six sequences) and, per job, how its record,
its executions and the code fit (`Fits`).  `RunsFit` is why two numbers of
executions are enough: a job about to be started has a free one, and, unless
its pause was answered, two.  `LogFit` ties the log to the statement that is
still to be executed.  `LifeImplemented` needs the invariant where a result
arrives: only a job that was created can be executed.  One lemma per action
shows `QueueInv` kept; `OneJob` reduces each to the job it is about, because
the code is never about two jobs.

The last two need `PlaceInv` on top of it: the map `active` has no more entries
than places, and fewer while a job taken by `pump()` waits for its entry; every
execution of a job that has not paused has an entry; and whenever no `pump()` is
left to execute, no such job is queued beside a free place.

Checked by TLC only: liveness, which is out of the prover's reach.

## 5. The agents

### Connections and calls: `AgentConnections`, `AgentRequests`

`AgentRequests` extends `AgentConnections`, since what a connection does to
calls is part of the same handler: `Register`, `Unregister`, `Disconnect` and
`Connect` are the connection's steps together with what they do to the pending
map.  A socket is a record of its link and of its two handlers, the message
handler (`reg`, parked at `findAgentByTokenHash` or at the calls before
`register()`) and the close handler (`end`, parked at `touchAgent`); any number
of sockets of one machine may be in any combination of these.  A call of kind
"exec" waits for its machine and is cancelled there, one of kind "file" waits
and is not cancelled, a "plain" one does neither.  `atwork` is what a caller
cannot see: the agent has the command and has not answered.

| Property | Says |
|---|---|
| `PendingOnline` | a call that waits for an answer hangs on the connection in the map |
| `WaitingOffline` | a call waits for its machine only while it is off the map (proved) |
| `NoOrphanCommand` | a command whose caller is gone was answered or told to stop, while its connection is the registered one |
| `CallsEnd` | every call ends (timers fire, handlers go on) |
| `ConnectedIsOnline` | violated (`vclose`): the late end of the close handler of a replaced socket unregisters the machine by id |

### Terminals: `AgentTerminals`

Browser connections, terminals with their subscriber and two timers, and the
access check that `pty.start` awaits.  Terminals always carry the input timer
of the policy `ptyIdleMinutes`.  `leftover` are ids whose input timer outlived
their terminal (`registry.ts`, `pty.exit` does not clear it) and `late` marks a
connection that closed while its own `pty.start` was at the check.
`ForgottenTimed` is checked and proved: a terminal runs its idle timer exactly
while nobody subscribes (`IdleTimed`), and a subscriber is an open connection or
a `late` one (`SubscriberOpen`; section 8).  `WatcherAttached` is violated
(`vterm`): closing an old connection detaches every id that it asked for,
whoever has subscribed since.  The variable `watcher` is history for that
property.

### Links: `EnvironmentLinks`

The manager's serialized tail is the sequence `work`; its first piece stands at
an `await` (`pc`), and machines, VPN, environment, users, timeouts and data
frames act in between, at most `Moves` times.  A tunnel that closes appends an
`onClose` callback behind the work in progress.  The rows of the first state
are whatever an earlier process left.  `StateMatchesTunnel`: when nothing is
queued a stored link over a tunnel is open exactly when its tunnel is.
`DeletedSilent`: no frame is relayed for a deleted link, by a cached decision
or by one under way.  `LinkOpens`: a link whose environment is active and whose
machines stay online is open for good in the end; this rests on telemetry,
which tells the manager again after a pass that came too early.

### Relay: `RelayFlow`

One producer and one consumer with several connections; water marks in frames.
`HoldsAgree`: what a producer will do once it has heard everything is exactly
what Core and its peer hold.  `ProducerResumes`: when the peers pause no more
and the backlog stays low, nobody is paused for good.  A message of flow
control finds room: `MaxFlow` bounds those under way.

### Watchdog: `AgentWatchdog`

Each tick and each change of presence is a walk over the machines that awaits
the database before each event; `calls` is the order in which the database
answers.  `told` counts the messages to the owner: `AlertsAlternate`.
`AlarmWithdrawn`: the alarm of a machine that is back is withdrawn, or the
machine goes again.

## 6. Accounting, VPN, merges, deployments, migration

* `ChatAccounting` is one paid turn between Core, its outbox, Billing and the
  executor.  Requests are messages in `wire`; a caller that gave up (`heard`)
  no longer listens, and the request is still carried out or never arrives
  (which is what the fencing of an unknown run is for).  The process stops or
  dies at any await.  `Faults` bounds lost answers and restarts.
  `NoFreeWork`: a run that has begun, or that may still begin, is held or paid
  for.  `HoldsFollowed`: a hold of a started run is still in the outbox.
  `HoldSettled`: the outbox ends, except for a run whose usage the executor
  cannot prove.
* `VpnGrants` is the row of one owner's tailnet, the policy and the tags at
  Tailscale, and the operation that holds `busy`.  A write may fail before or
  after its effect, the process may die at any await, an administrator edits
  the policy; every accepted write of the policy changes its ETag, and a write
  takes effect before the caller gives up or never.  `AppliedIsReal`: a grant
  stored as applied has its rule, no other, and exactly its machines are
  tagged; one stored as removed is gone.  `JournalCovers` (proved): every rule
  in the policy is in the journal.
* `MergeRuns` are the merge runs of one task: `startMergeRun`, the claim of the
  executor, `changeQueuedMergeMachine` with its preflight outside the
  transaction, `retryMergeRun` with its four statements.  `OneActiveRun`;
  `ClaimedAssignment` (proved, in no run): a claimed run keeps its machine.
* `Deployments` is one production environment with its application deploys
  (lock, revision, previous composition), the probes that report what runs,
  and the common deploys of the project.  `LockHeld`: the environment is
  locked by exactly the deploy that is not over, also an uncertain one.
  `OneExecutor` (proved).  `ConfirmedRuns`: what is stored as confirmed runs,
  unless the observation passed a common deploy, which has no revision.
* `StorageMigration`: plans with a dry run, `copy()` and `deleteVerified()`,
  each call to the machine an await, all saved in one file.  `stored` is the
  file, `migration` the memory: they differ between two `persist()`, and a
  restart goes back to the file.  File `i` holds `i`, or `-i` once it is
  edited.  `DeletedIsStored` holds when plans put a file at the same place or
  at places no other plan uses; with destinations that cross it is violated
  (`vmove`).  An edit between the last read of a source and its deletion counts
  as the content that was verified.

* `StorybookSessions` is one machine with the sessions of several books (a
  working copy with its directory), their terminals in the registry, and the
  wishes by which a new process recovers them.  `bookCall` are the operations;
  the lane of `run()` is `LaneFree`, and since an operation has no effect before
  it is its turn, waiting in the lane is not a state.  `Probed` is the answer of
  the machine before a port is taken, `Saved` the end of a save.  Probes, the
  events of terminals, the machine and the end of the process come at any of
  these awaits; a probe answers whatever it likes, since any process of the
  machine may hold a port.  `late` is dropped once a start is over: nobody
  reads it then.  `PortsApart`: servers at work have different ports.
  `WishesFollow`: what a restart recovers is what was left at work, at its
  port, and an answered stop is final.  `StartSettles`: a start ends, also when
  its terminal goes without an event.  Machines share nothing but the id of a
  terminal, which a working copy of two machines would share (not modelled).

## 7. The runs of the services

The eleven components of sections 5 and 6 share no state.  `MCServices` therefore
explores each for itself within one run: the initial state chooses `focus`
among `Focuses`, the steps are those of that component, and the rest stays as
it was created.  `ServicesTypeOK` is the type invariant of the component in
focus, the automation queue among them.  Every state of each component within
its bounds is reached, as it would be in a run of its own; the model values
`Pair` stand for whatever comes in twos (browser tabs, connections of a tunnel,
users' calls, applications, devices), which makes their exchange a symmetry of
every component.  It is used in `services` only, which has no liveness.
Deadlock is not checked, since a component at rest, with its budget used up,
stops.

| Run | Checks | Bounds |
|---|---|---|
| `services` | the safety properties named above | two machines with three sockets and one call; two tabs, two terminals, room for one; two links and two outside events; two relayed connections, marks 1 and 3; two machines and three walks, four changes of presence; one paid turn with two faults; two environments, two devices, two rules, three operations, two mishaps; two merge runs, two machines, two users' calls; two applications with two artifacts each, two deploys, one common deploy; two plans of two files, two troubles; three books, two of them of one copy, one port of the range and one outside, two starts or stops, one fault; two jobs |
| `serviceslive` | `CallsEnd`, `LinkOpens`, `ProducerResumes`, `AlarmWithdrawn`, `HoldSettled`, `CancelTakesEffect`, `StartSettles` | the same with one machine that reconnects, one link, marks 1 and 2, two walks, one book |
| `vclose` | `ConnectedIsOnline` (violated) | one machine, two sockets |
| `vterm` | `WatcherAttached` (violated) | as `services` |
| `vmove` | `DeletedIsStored` (violated) | two plans with crossed destinations, no troubles |

Why these are enough: each hazard needs two of a kind (an old and a new
connection, two walks, two plans, a grant next to another one) and one event
that comes at the wrong moment; one call suffices since calls do not read each
other; the third socket lets a reconnect be replaced again, or belongs to
another machine; two faults are a failure and the failure of its repair.  The
proofs below lift the bounds of every safety property.

Fairness (`FairServices`): handlers whose await is over go on (weakly fair,
since nothing disables them but being done); timers of calls fire; the agents'
frames are heard; telemetry comes; requests to Billing and to the executor
arrive unless their caller gave up, for which there are finitely many faults; runs end and
reservations expire; a process that stops ends; probes of a Storybook fire and
are answered or time out.  Users, machines that come and
go, faults and restarts have none.

### Proofs

| Module | Theorems | Inductive invariant |
|---|---|---|
| `AgentProofs` | `RequestTypeCorrect`, `PendingOnlineKept`, `WaitingOfflineKept`, `NoOrphanCommandKept` | `RequestInv`: what each call promises (`CallOK`), and that only a socket that has registered is in the map (`SocketsOK`): otherwise a connection that a call hangs on could register again |
| | `TerminalTypeCorrect`, `ForgottenTimedKept` | `TerminalInv`: a subscriber is open and has the terminal among its ids, which is what its close detaches, or it was late |
| `LinkProofs` | `StateMatchesKept`, `DeletedSilentKept`, `LinkTypeCorrect` | `LinkInv`: per link, what its row and its tunnel may be at each await of the piece in progress (`Known`), and that a row and a tunnel that disagree have work queued that will look again (`Follows`).  A frame is relayed over an open tunnel only, and an open tunnel has its row |
| | `HoldsAgreeKept`, `RelayTypeCorrect` | `RelayInv`: types and `HoldsAgree`; of the messages under way the last one decides (`WillPause`), so hearing one changes nothing |
| | `AlertsAlternateKept`, `WatchdogTypeCorrect` | `WatchdogInv`: the calls that wait for the database lead from what the owner believes to what the watchdog has alerted (`Leads`, an existential over the beliefs in between), each walk calling once at a time (`Once`) |
| `ReleaseProofs` | `MergeTypeCorrect`, `OneActiveRunKept`, `ClaimedAssignmentKept` | `MergeInv`: with the claim of a run, the run works |
| | `DeployTypeCorrect`, `LockKept`, `OneExecutorKept` | `DeployInv`: whoever executes a deploy holds the lock |
| | `ConfirmedKept` | `SeenInv`: the deploy under way started from the revision the environment still has (`StartedFromHere`); no probe is of a later revision (`ProbedEarlier`), and one of the present revision that no common deploy passed found what runs (`ProbeCurrent`) |
| `ServiceProofs` | `AccountingTypeCorrect`, `NoFreeWorkKept`, `HoldsFollowedKept` | `AccountingInv`: which requests can be under way at which step of the turn (`Ordered`, `Unsent`), that whatever a reconciliation asks for it has proved (`Proved`), what each answer says of the hold (`Answers`), and who listens (`Heard`) |
| | `GrantTypeCorrect`, `JournalCoversKept`, `AppliedIsRealKept` | `GrantInv`: what an operation knows at each await (`OpOK`), and that the journal of a settled environment is exact (`Exact`), not only the policy: the next operation writes the journal's rules back |
| | `MigrationTypeCorrect`, `DeletedStored` | `MoveInv`: what an item's status promises about the target, in memory and in the file alike (`ItemsFine`), since a restart goes back to the file; what a copy or deletion in progress has read (`MovingFine`) |
| | `BookTypeCorrect`, `PortsApartKept`, `WishesFollowKept` | `BookInv`: one operation at a time changes the sessions (`OneLane`), a probed port is still free when it is taken (`ProbeFree`), what a save writes is what is at work (`SavedFollows`, `WorkWished`) |
| `CompositionProofs` | `ServicesImplement`, `ServicesTypeCorrect`, `ServicesSafe` | none of its own: a step of the composition is a step of the component in focus and leaves the variables of the others alone (`StepOfEach`), so a behaviour of the composition is one of every component and the theorems above apply |

`DeletedStored` assumes `Apart`: no two plans put different sources at one
place.  The code does not check this, and without it the property is false
(`vmove`); the plans of the run `services` satisfy it.

`StateMatchesKept` and `AlertsAlternateKept` walk over queues of any length.
Induction over their length is not available to the prover; where it is needed
the proof takes the least counterexample instead (`LeastMember` of `LinkProofs`,
from the well-foundedness of the natural numbers).  TLC
checked `LinkInv`, `SeenInv`, `MoveInv` and `BookInv` on small instances before
they were proved.

The assumptions are those of the modules: bounds are numbers, sets of links,
items or deploys are finite sets of numbers where an order is meant, and
special values (`NoSocket`, `NoTab`, `Exit` ...) are none of the things they
stand beside; `FocusAssumption` says that a run looks at components that there
are.  Only model-checked: all liveness.

## 8. Where code and documents disagree without a run

The runs `vasync`, `vresume`, `vclose`, `vterm` and `vmove` show five
disagreements.  Seen while modelling, described here and not run:

* *Order of the queue.*  `turns.ts:1425` does not ask `starting`: a row taken
  while another start prepares is queued again, behind younger rows, although
  `docs/kb/server-internals.md:236` and `db/schema.ts:109` promise FIFO.
* *A refused start calls for nobody.*  `turns.ts:551-555`, `578-582`,
  `786-873` and `987` free the slot and return without `dispatchNext`.  What was
  parked while such a start prepared, or stood in the queue behind the refused
  question, waits although the conversation is at rest and the queue is not
  paused, until a later turn ends or a browser connects.
  `docs/kb/server-internals.md:236` names the end, the stop and the error of an
  active turn as what calls for the next question and is silent about a refused
  start (`QueueDrains`, section 3).
* *Stray tokens.*  A machine that is offline at `turns.ts:987`, after the tools
  were registered, leaves their tokens; `turns.ts:1386-1388` says that tokens of
  a finished turn go at once.
* *A lock without an owner.*  `machines/vpn/service.ts:74` says that only an
  apply in flight locks the network.  A crash leaves "applying" in the row, and
  the network stays locked (`Unlocked` of `VpnGrants`).
* *A plan that cannot go on.*  `docs/kb/machines.md:1126-1128` says that a
  failure leaves the plan "copy-interrupted" and that copying then resumes.
  That holds for a failed call; a crash leaves "copying", and a crash or a
  failed call during the deletion leaves "deleting": `copy()` and
  `deleteVerified()` refuse both (`StartCopy`, `DeleteVerified`).
* *Retry of a merge.*  `db/repos/ci.ts:1795` drops the source SHA of whatever
  run `startMergeRun` returned, also one that another user started or that the
  executor has claimed (`Unpin`).
* *One Storybook per working copy.*  `components/storybookSessions.ts:83-84`
  says so.  After the directory of a copy was changed (the case the comment
  names), a start finds no session under the new key and types its command into
  the terminal of the old one, which shares the id: both sessions are at work,
  the old one hears no event any more, and a stop of either kills the terminal
  of both (`RunningWatched` of `StorybookSessions` says otherwise and is not
  true).
* *Recovery knows the saved port*, `storybookSessions.ts:195`.  A session that
  ended by itself keeps its wish while another copy starts at its port; after a
  restart the first one that is looked at adopts the server of the other
  (`WishesApart`, not true).
* *A terminal nobody gives up.*  A connection that closes while its
  `pty.start` awaits the access check (`session.ts:389-401`) is subscribed all
  the same, and its close has detached its ids already: the terminal keeps a
  dead subscriber and no idle timer, although `registry.ts:805-806` says that a
  session nobody returns to is killed by it.  Only a later subscriber, the input
  timer of the policy or a kill ends it (`late` in `SubscriberOpen`).
* *Disposal.*  `storybookSessions.ts:307` speaks of the close of the server and
  of a machine that disconnects; `dispose()` has no caller outside tests.
* *Manual QA.*  `db/repos/qa.ts`, `completeQaSession` asks the gate before its
  transaction; a session that became stale in between still moves the card,
  although `docs/kb/features/manual-qa.md` reserves that for a completed one.

Kept without a claim to check against: a second delivery of the running
question is answered twice; "send now" on a failed question at the head of the
queue starts the next one; a start in progress clears the pause that the
graceful stop has set; a reconnect between putting a failed question back and
marking it runs it again; the exit of a killed shell deletes a newer session
with its id (a restarted Storybook fails then, `ShellExit`); a row that is
already first keeps the status failed when it is prioritised.  The properties are stated so that they hold in spite of these.

## 9. Not modelled

The map covers the code whose order of events matters.  Most of the 74 000
implementation lines decide nothing in time: types, parsers and catalogues
(`packages/shared`), the SQL schema, routes that read and write one row, pure
helpers (prompt building, log parsing), scripts, and thin clients of services
that are not in this repository (Kanban, identity, Billing, the build
executor).  Translating them would restate single statements.

* *QA stage runs and sessions, tasks, integration tests* (`db/repos/qa.ts`,
  `tasks.ts`, parts of `ci.ts`): transitions that are one SQL statement with
  its condition; unique indexes exclude a second active one.  What has an order
  is in section 8 and in the plan.
* *Deletion of releases*, *removal of machines from the VPN*, connecting an
  account, `change()` to no exit, the save after each device tag: a further
  statement each beside those modelled.  One machine behind the exit stands
  for any.
* *Conversation summaries*: one request at a time whose result replaces the
  last; a forced refresh may join one under way.
* *Stand delivery*: a client of an external coordinator; it keeps one cache of
  fifteen seconds, which a list begun before a submit can fill with the old
  state.
* *Project main snapshots*: the coordinator is constructed in tests only.
* *Core's own tunnels, file streams, telemetry, the classifier of shell
  commands*: streams and data.
* *Delegation, Git workspaces, knowledge base, MCP bridges, speech, UI
  releases, shared packages, scripts*: input and output.
