# The SVT agent in TLA+

The SVT agent (`src/`) runs on a validator's host. It reads encrypted commands
from a channel account on the Solana chain, runs each of them as an ansible
playbook in a docker container, one at a time, and tells the cluster which ones
it has completed. A command that fails waits for the user. This directory
models how the agent decides what to run, when, and what it says of it.

Sections: 1 the system, 2 the modules and how they correspond to the code,
3 what the runs check, 4 what is proved, 5 disagreements found, 6 what is not
modelled, 7 what could come next.

## 1. The system

### Components

| component | source | state it keeps | operations |
|---|---|---|---|
| command_runner | `src/src/agent.rs` 77-144 | `prev_state` (for logging only) | one loop: check the balance, lock the runner, then wait / confirm / run |
| command_processor | `src/src/agent.rs` 147-220 | the receiving end of three channels | one handler per event: New, Update, Delete |
| command_listener, load_tasks | `src/src/agent.rs` 222-314, 383-448 | the sending ends | connect, load the channel account, subscribe, forward events, reconnect every 5 s |
| AgentContext | `src/src/agent.rs` 317-381 | `last_task_id`, `cek`, `runner`, a mutex each | init, authorize |
| TaskRunner | `src/src/task_runner.rs` | `queue`, `last_added_task_id`, `state`, the database | queue operations, `set_state`/`load_state`/`sync_state`, `run`, `run_task` |
| docker helpers | `src/src/utils/docker.rs` | none | pull an image, read the output of a container |
| TaskMonitor | `src/src/monitor.rs` | the log viewer's container | init, start, stop |
| Notifier | `src/src/notifier.rs` | parameters of a notification | file, influx (with retries), webhook |
| Listener | `src/src/listener.rs` | none | subscribe with a timeout, parse program logs into events |
| MessengerClient | `src/src/messenger/client.rs` | key pair, RPC client | join_channel, read_message, load_* |
| encryption, converter | `src/src/messenger/encryption.rs`, `src/src/utils/converter.rs` | none | content of a message to a `Task` |
| main, install, CI, ansible | `src/src/main.rs`, `src/install.sh`, ... | none | commands and packaging |

Outside the repository: the messenger program and its channel account (ids,
bounded list of messages, `last_read_message_id` of the agent's membership),
the log stream of the RPC node, docker, and the database's disk.

### How they interact

* `Agent::run` spawns the three tokio tasks. They share `AgentContext`: the
  `cek`, `last_task_id` and `runner` mutexes. The runner holds the `runner`
  mutex for a whole iteration, the run of the container included.
* The listener sends events to the processor over three unbounded channels, one
  per kind of event; the processor picks among those that have one. The order
  between kinds is lost there.
* Both the listener (from a snapshot of the channel account) and the processor
  (from the stream) call `add_task`; `last_added_task_id` is what keeps one
  message from being queued twice.
* `runner_state` in the database, the task's container and the transactions in
  flight survive the process; the queue, `last_task_id` and
  `last_added_task_id` do not. `install.sh` starts the agent with
  `--restart=always`.

### What is hard

1. *Lock order.* New and `load_tasks` take cek, then runner; Update takes
   runner, then cek.
2. *Two sources of messages*: a snapshot and a stream, the second one opened
   after the first was read and closed at any time.
3. *A high-water mark* for duplicates that ids do not reach in order.
4. *A crash* at any await of a run: the container goes on, the queue is gone,
   the state is what was last written.
5. *A transaction without an answer*: it may have landed, may land later, or
   never.
6. *A run is a dozen calls to docker*, a second container, and notifications
   with retries; any of them may fail or take long, and the state, what is
   told and what is saved must still agree.
7. *Starting up* is a retry loop over a membership and a key that others
   change meanwhile.
8. *A failed task* must keep the agent from going on until the user acts, and
   the user's action may come as an event, as the content of a snapshot, or
   while nobody listens.
9. *A log does not say who wrote its lines*: the listener has to find out
   which of them are the messenger's, and hears failed transactions too.

### What makes each component correct

* queue: ids in order, each at most once, none back after it left;
* runner: one container at a time, the state tells what happened to it, nobody
  changes it meanwhile, a complete task is confirmed, the loop never stops;
* processor and listener: every event is applied, to the task it is about;
  a load ends; what the user deleted is gone; what the user posted is run;
* log parser: the messenger's events are heard, in order, and no other's;
* restart: a confirmed task is a task that succeeded, a failed one still waits;
* startup: no task before the key; what was settled is not run again;
* run and monitor: one outcome, reported last, equal to the state it leaves;
* notifier: the attempt to save the output ends before its container goes (it may
  fail, and then the output is lost); influx may delay the agent but not stop it.

## 2. The modules

| module | what it is |
|---|---|
| `TaskQueueOps` | the queue operations of `TaskRunner` as operators on values; no recursion |
| `TaskQueue` | the abstract specification of the queue: anyone may call any operation, in any order |
| `Agent` | the detailed specification: three tokio tasks, two mutexes, three channels, docker, the channel account, the cluster, crashes |
| `AgentProperties` | the properties of `Agent`, its inductive invariant, and the refinements of `TaskQueue` and `RunLife` |
| `RunState` | the values of `RunState`, shared by the modules below |
| `RunLife` | the abstract specification of the state of a run: what `TaskRunner` promises to whoever reads it |
| `Notifier` | one notification: the file, influx with its attempts, and when `notify` returns |
| `TaskRun` | `run`, `run_task` and `TaskMonitor` call by call, over `Notifier` |
| `Conversion` | which shapes of a message or a device end in a value, an error or a panic |
| `Process` | the life of the process: `init`, `authorize`, loads and the stream, runs of `TaskRun`, confirmations, skips, kills |
| `ProcessProperties` | its properties, its inductive invariant, and the refinement of `RunLife` |
| `LogParser` | the log of a transaction as the runtime writes it, and the three passes of the listener over it |
| `MCAgent`, `MCProcess`, `MCLogParser` | instances for TLC |
| `TaskQueueOpsProofs`, `TaskQueueProofs` | lemmas on the operators; the queue's theorems |
| `AgentProofs`, `AgentQueueProofs`, `AgentSafetyProofs` | type correctness; the refinement of the queue; the safety theorems |
| `AgentLifeProofs` | the agent refines `RunLife` |
| `ProcessProofs` | the inductive invariant of the process and all its safety theorems |
| `LogParserProofs` | the parser's invariant and its theorems |

### TaskQueue

A task is its id: nothing the runner decides about a queued task depends on
the rest of it. `queue` and `lastAdded` are the fields of `TaskRunner`;
`popped` is a history variable with what `run` took since the process started.
`VecDeque::retain` is `Retain(q, K)`, the elements at the positions `K` in
their order, which can be reasoned about; `DeletePass` and `DedupPass` walk the
queue element by element as the code does, and two theorems show that they
return the same queue (section 4). `Restart` is the agent's process starting
again. `TaskRunner::clear` is in `TaskQueue` only: the agent never calls it.

The queue has no run of its own. What it promises (`TakenInOrder`,
`DedupRemovesNothing`, `NeverReadmitted`) is checked of the agent's queue, with the
callers it really has, by `agent_lossy`, together with the refinement of
`TaskQueue`; for any callers and any number of ids it is proved.

### Agent

A step is what a tokio task does between two awaits at which another task can
see a difference. A mutex is a variable with its owner.

| code | in `Agent` |
|---|---|
| `ctx.runner`, `ctx.cek`, `ctx.last_task_id` | `runnerLock`, `cekLock`, `lastTask` (its own mutex is never held across an await) |
| `TaskRunner.queue`, `.last_added_task_id`, `.state` | `queue`, `lastAdded`, `state` |
| key `runner_state` of sled | `db` |
| the three mpsc channels | `newQ`, `updQ`, `delQ` |
| container `svt-agent-task` | `box` |
| `Channel.messages`, `.message_count`, `last_read_message_id` | `channel`, `posted`, `lastRead` |
| where each tokio task is, and its locals | `rpc rtask tx waitFailed`, `ppc pevt`, `lpc snapshot idFrom toAdd` |
| read_message sent, its answer given up | `late` |
| command_runner | `RunnerLocks` ... `RunnerCleansUp` |
| command_processor | `ProcTakesNew` ... `ProcStops` |
| command_listener, load_tasks | `ListenerConnects` ... `ListenerRetries` |
| kill and restart: `TaskRunner::init`, `AgentContext::init`, `authorize` | `Crash` |

The content of a message is one of four kinds, which is all that
`convert_message_to_task` and `is_skipped` tell the agent: `run`, `skip`,
`bad` (conversion returns an error), `panics` (an `unwrap` or a slice in
`converter.rs` or `encryption.rs` panics, and the tokio task ends with it).
`Conversion` says which messages are of which kind; `agent_lossy` takes its
kinds from there (`ConvertedKinds`, the image of `Convert` over every shape of
message).

Choices made where the repository does not decide:

* *read_message* with an older id than the current `last_read_message_id`: the
  program may keep the newer one or overwrite it; both happen (`Lands`).
* An *answer that never comes* to `send_and_confirm_transaction` may mean sent,
  landed, or never sent (`RunnerConfirmFails`, and `late`).
* *docker* fails any call; `delete` without force does not remove a running
  container, and `create` fails while the name is taken.
* *sled* flushes some time after a write: with `LossyDb`, a crash may find
  the record before the last write. The nondeterminism is in the write itself
  (the record is written or is not), which covers the crash that follows.
* The log stream delivers what the program emitted, in order, or breaks. An
  event that was emitted while no subscription was up is not delivered.
* A *transaction that fails* after it emitted its event changes nothing in the
  channel, but its log is delivered, with an `err` that the listener does not
  look at: `Stores` has both outcomes. `manual` records what the user asked
  for, in a failed transaction too.

Restart is one step: `authorize` retries until the membership loads, and no
tokio task runs before it, so nothing of the agent can interleave with it; the
user's and the cluster's steps before it are the same as after it, except for
what they forward, and `link` is down in both.

### RunLife

The state of the runner is read by four parties: the runner's own loop, the
processor, the listener and, after a restart, the next process. `RunLife` is
what they rely on: `Take`, `Start`, `Exit` or `Fail`, `End`, then `Settle`;
between `Take` and `End` nobody but the run changes the state; a run that is
not killed ends only with its outcome in the state; a `Kill` changes nothing
in it. `Agent` refines it with `work` the task of the run in hand and three
tokio tasks around it; `Process` refines it with every call of a run.

### TaskRun, Notifier and Process

`Agent` has the concurrency of the tokio tasks and takes a run in six steps.
`Process` is its complement: it looks inside the run, the notifications, the
monitor and the startup, and takes what the listener and the processor do with
the runner's mutex as one step each.

| code | in `TaskRun`, `Notifier`, `Process` |
|---|---|
| where `run` / `init` / `authorize` is | `pc` |
| `TaskRunner.queue`, `.state` with its record, `.monitor_start_timeout` | `queue`, `state`, `timer` |
| `internal_error` | `failed` |
| containers `svt-agent-task`, `svt-agent-monitor` | `box`, `mon` |
| `TaskMonitor.container` is set | `watching` |
| the notification under way: file to do, attempts at influx | `note` |
| `ctx.cek`, `ctx.last_task_id`, `last_added_task_id` | `cek`, `lastTask`, `lastAdded` |
| where the listener is; the channel of New events | `link`; `mail` |
| `Channel.message_count` | `posted` |
| `ChannelMembership`, `ChannelDevice` | `membership`, `lastRead`, `device` |
| messages whose content says "skip" | `cleared` |
| `run_task`: delete, pull, create, start | `DeleteOld` ... `StartBox`, each but the first may end in `RunTaskFails` |
| `select!` of the exit and the monitor's timer | `SeesExit`, `WaitFails`, `StartMonitor` |
| `TaskMonitor::start`, `stop` | `StartMonitor CreateMonitor RunMonitor MonitorFails`, `StopMonitor MonitorRemoved` |
| the end of `run` | `ReadLogs` ... `FailureTold`; `LogsPanic` if the output is not UTF-8 |
| `load_tasks`, subscribe, reconnect | `Loads`, `LoadFails`, `LoadPanics`, `Subscribes`, `LinkBreaks` |
| the handlers of New and Update | `HearsNew`, `SkipApplies` then `SkipTold` |
| `tokio::join!` of the writers | `SaveToFile`, `AskInflux` in any order, `NoteReturned` |
| `init`, `authorize`, `join_channel`, `load_cek` | `Starts` ... `Welcome` |
| a kill, and `--restart=always` | `Crash`, then `Starts` |

The history variables are `told` (the events of the run in hand), `kept` (what the
log file got of its output), `settled` (what was confirmed or skipped when the
process last started), `seen` and `missed` (messages 1..`seen` came by a load or
the stream, or are in `missed`: those a subscription began without). The monitor
is an auto-removed container: `stop` leaves it "exited", docker removes it a little
later, and until then its name is taken, so that the next `create` may fail. A
device has the sizes that `decrypt_cek` slices at; a key of the wrong length is
accepted there and panics at the first message, which is why `Loads` needs
`cek = KeyLength` and `LoadPanics` is its opposite.

Failures that the code only logs are in the model with their consequences:

* `save_to_file` may find no directory, no file, or fail half-way. `notify` succeeds
  all the same, and `run` deletes the container: `kept` is then "part" or "nothing",
  and the output is lost. Nothing here says that an output is saved;
  `SaveComesFirst` says that the attempt has ended before the container goes.
* `get_container_logs` panics on output that is not UTF-8, or is split inside a
  character. The tokio task of the runner ends, its mutex is released and the
  process lives on (`pc = "dead"`): the state has the outcome, but "task:start" was
  the last event told, and no task runs until somebody restarts the agent.
  `ToldOutcome` names this ending, and `EverythingSettles` excepts it.
* A log stream that breaks off yields a part of the output: this is `kept = "part"`.
* A message posted between a load and the subscription is missed. Later ones are
  run and confirmed past it; `add_task` refuses it for the rest of the process,
  and a restart loads it only if no later one was confirmed by then.
  `NothingPassedOver` names the exception (`u \in missed`).

What `Process` assumes and `Agent` does without:

* no write of the state is lost, and the program keeps the highest
  `last_read_message_id`;
* a new message is a task (not a skip, and of a content that converts, if the key
  is right), and messages are not deleted or evicted. An update may make a skip of
  one at any time (`cleared`);
* a load reads the channel and adds to the queue in one step, and each handler of
  the processor is one step. That snapshots and events are stale when applied, the
  two mutexes and their lock cycle are `Agent`'s;
* a transaction that lands does so before its sender goes on (`ConfirmFails`), or the
  process is killed; `Agent` has the later ones (`late`);
* an update event may be dropped or come at any time: `SkipApplies` needs no event,
  and no fairness is assumed of it. It leaves a queued copy where it is, as
  the code does; here the copy is run again or skipped again. A message skipped
  before its New event is handled is still added as it was posted;
* with a key of the wrong length the processor panics at the first event, so that
  none is heard (`HearsNew` needs the key); a load without an unread message
  panics at nothing, and goes on.

### LogParser

`Agent` takes the delivery of an event as one step. `LogParser` looks inside it:
programs call one another and write lines (`Call`, `End`, `Emit`, `Write`), and
at any moment the log is handed to the listener (`Receive`): whole, cut at the
runtime's limit, or of a failed transaction. `ReadLine` is one round of the loop
of `parse_logs`: `Execution::next` (`ProgramOf`), the comparison with the
messenger (`TakenForOurs`), and `handle_program_log` (`IsEvent`, and the panic
of `borsh_bytes[..8]`). `EndPass` starts the next of the three `on::<Event>`
calls with an `Execution` of its own. The field `by` of a line, who wrote it, is
invisible to the parser; the properties compare it with what the parser takes
for granted. A line is abstracted to what the code tells apart: a call, the end
of one, data with or without the discriminator of an event, a text, a text in
which the regular expression finds an "invoke", and a text that is base64 of
less than 8 bytes.

The parser is not composed with `Agent`: what it gives the agent is that the
messenger's events arrive in order, which `Forward` assumes. The events
that it misses are covered there by the events that no subscription was up for.

## 3. The runs

`CHECK_DEADLOCK FALSE` where the user's, the stream's and the crashes' budgets
let the system stop: a counted-out world with a tokio task that has panicked,
or the lock cycle of section 5, has no step left. `agent_live`,
`process` and `process_live` check deadlock.

| run | configuration | shows |
|---|---|---|
| `agent_safety` | 2 messages, run or skip; 1 edit, 1 break of the stream, 1 crash | nothing but an update during a reload can lock the tokio tasks out of each other; a task keeps its outcome in the state until it is confirmed or the user acts; the life of a run is refined |
| `agent_lossy` | 2 messages in a channel that stores 1, the kinds of every shape of content, lost writes, output that is not UTF-8; 1 edit, 1 crash | what still holds when tokio tasks panic and the database forgets: the inductive invariant (types, locks, the updates), a confirmed task succeeded, a run is undisturbed, tasks taken in order and once, `dedup` never finds anything, nothing that left the queue comes back, nothing settled queued or run again, all before a restart; the queue refined |
| `agent_live` | 2 messages, 1 break of the stream, fairness | the runner keeps polling, a queued task is taken, a complete one is confirmed, loads end, events are processed |
| `process` | 2 tasks, no influx, 2 kills, 4 devices (good, a key of another length, not for this agent, a header cut off) | no task before the key; what is settled stays so while no message was missed; no confirmation passes over a task that is neither complete nor skipped, but for one whose message was missed; a run that is not killed leaves its outcome in the state and has told it last, but for a runner that panicked on the output; the outcome is that of the run's own container; the container goes only after the attempt to save its output; `RunLife` refined |
| `process_live` | 1 task, 2 attempts at influx, 2 kills, the same devices, fairness | each step of a run brings its end nearer; the agent joins, gets authorized and comes up unless the authorized device is useless; a message that was loaded or came by the stream gets confirmed or skipped, or a task waits for the user for good, or the runner has panicked |
| `log_parser` | 2 programs, calls 3 deep, logs of up to 6 lines | up to the first inner call the messenger's events are heard and no other's; in order; being misled about a line, or a panic, needs an inner call |
| `agent_deadlock`, `agent_lost`, `agent_duplicate`, `agent_deleted`, `agent_skipped`, `log_foreign` | 1 or 2 messages; logs of up to 5 lines | the six disagreements of section 5 |

Why the bounds are enough. Every hazard above involves at most two messages
(the one in question and a later one), one crash between two steps of a run,
one break of the stream that makes the listener load again while events still
wait, and one update or delete; with one stored message the second evicts the
first. An edit is an update, a delete or a post that fails. The parser's three
kinds of confusion (a call, its end, a line after it) need five lines and two
programs. More messages repeat the same situations; the theorems of section 4 are
for any number of each. `MaxMessages`, `MaxStored`, `MaxEdits`, `MaxDrops` and
`MaxCrashes` are the only bounds of the agent, `MaxDepth` and `MaxLines` those of
the log; `MaxStored` is the program's `max_messages`. Those of the process are
`MaxTask`, `MaxAttempts` (the code's 5; two tell a first attempt from a last one)
and `MaxCrashes`. In `process` the second task meets what the first has left, and is
the later one that is confirmed past a missed first; the first kill leaves
behind every combination of containers, state and confirmation, and the second one
whatever comes of starting from there. `SettledStaysSettled` needs both, and shows
why it has a condition: without `missed = {}` TLC finds a process that runs 2 past
the missed 1 and is killed in Complete(2); the next one loads both, confirms 2, runs
1 and is killed in Complete(1); the third confirms 1, which sets its `last_task_id`
from 2 back to 1 (`agent.rs` 112), and its load then queues the confirmed 2.
`process_live` has influx and its attempts, which
the safety of `process` does not depend on, and one task: its measure is of one run,
and a second task only waits for the first. The safety properties, `RunNearsEnd`
included, are theorems for any number of each.

Fairness (`FairSpec`), and why the code justifies it:

* tokio polls every task that can run: weak fairness of each task's steps;
* `tokio::sync::Mutex` is FIFO: strong fairness of the steps that take one;
* docker answers the ping again and again (`RunnerPops`), a playbook ends
  (`BoxExits`), and a read_message that is sent every few seconds is confirmed
  in the end (`TxLands`, `RunnerConfirmed`): assumptions on the outside;
* nothing is assumed of the RPC node: loading and subscribing may fail forever.

Fairness of `Process`, conjunct by conjunct:

* what the process does by itself it does (weak fairness of the startup, of the
  notifications, and of the steps of a run but for the choice in `select!`); if the
  container has exited, `select!` sees it; a playbook ends (`BoxExits`);
* a call to the cluster that is made again and again succeeds at some time: strong
  fairness of `LoadsMembership`, `Joins`, `LoadsCek`, `Confirms`. `init` retries in
  a loop, and command_runner confirms in every iteration;
* `HearsNew`: the processor gets the runner's mutex, which is FIFO, if again and
  again no task waits for the user. Only then: while one waits, the handler of an
  update and `load_tasks` may wait for each other for ever (`agent_deadlock`,
  `OnlyUpdateBlocks`). For the same reason nothing is assumed of `SkipApplies`;
* nothing is assumed of the channel and the stream: that a load or a subscription
  ever succeeds. `EverythingSettles` is about the messages that reached the agent
  (1..`seen`, without `missed`);
* the user authorizes an agent that has joined. That the user acts on a task that
  waits is not assumed; it is an alternative of `EverythingSettles`;
* docker answers the ping (`Take`); of its other calls and of influx nothing is
  assumed: each may fail for ever, and `EverythingSettles` holds all the same,
  because the attempts are counted and a failed call ends in Error, where the
  task waits for the user.

`agent_live` has no edits: with an update the lock cycle of section 5 stops the
agent, which is what `agent_deadlock` shows. `QueuedIsTaken` allows for a task
that waits for the user for good.

## 4. What is proved

All theorems are for every value of the constants, so for any number of
messages, edits, breaks and crashes.

* `QueueTypeOK`, `QueueTakenInOrder`, `QueueDedupRemovesNothing`,
  `QueueNeverReadmitted` (`TaskQueueProofs`). `TakenInOrder` is inductive as
  it stands, with the types: an added id exceeds `lastAdded`, which bounds all
  others, and `Retain` keeps a rising sequence rising. That last fact is the
  heart of `TaskQueueOpsProofs`: `Rank` numbers the kept positions
  bijectively and in order, shown through the cardinality of initial segments.
* `DeleteTaskIsOnePass`, `DedupIsOnePass` (`TaskQueueOpsProofs`): lemmas about the
  operators, not about the agent. For queues of any length and any elements, duplicates
  included, the operators on positions that all these theorems are about return
  what the code's walk over the queue returns. A walk is a recursive function,
  and the function n |-> `Retain(q, {i \in K : i <= n})` satisfies its equation
  (`RetainStep`: one more element is appended if its position is kept). Two
  functions that satisfy the equation of a loop agree, or else there is a least
  round at which they differ (`FirstPosition`, `LoopsAgree`): induction without
  a theorem that has an operator for a parameter.
* `AgentTypeOK` (`AgentProofs`): one lemma per group of actions for each group
  of variables. `Oldest(S)` needs a least element of a non-empty set of naturals.
* `AgentImplementsQueue` (`AgentQueueProofs`): every step of `Agent` is a step
  of `TaskQueue` or leaves the queue alone. What is proved of the queue is then
  true of the agent: `AgentTakenInOrder`, `AgentDedupRemovesNothing` (the `dedup`
  that ends a load finds nothing, although the stream and the snapshot bring the
  same messages) and `AgentNeverReadmitted`.
* `AgentOnlyRestartsRepeat` (`AgentQueueProofs`): before the first restart no
  task that the agent knows an earlier run by (it succeeded, failed, was
  confirmed or skipped, or has the container) is in the queue or started again.
  By `TakenFollows`: all of these were taken, and what is about to run was taken
  last; and by `TakenInOrder`, what is in the queue comes after all that were
  taken. `AgentConfirmedNotRerun` and `AgentSkipIsFinal` draw the line around
  two disagreements of section 5: `agent_duplicate` and `agent_skipped` each
  need their restart, for any number of messages, updates and reloads.
* `AgentInductive`, `AgentRunIsUndisturbed`, `AgentConfirmedSucceeded`,
  `AgentOutcomeIsKept`, `AgentOnlyUpdateBlocks`, `AgentNeverStuck`
  (`AgentSafetyProofs`).

The invariant `Inductive` and why each part is there. That a confirmed task
succeeded (`ConfirmedSucceeded`) is not inductive: it needs that the state is
Complete(t) when `read_message(t)` is confirmed, and that the container seen
with status 0 is the one of the task. Both are facts about the runner's
locals (`RunIsUndisturbed`), which hold because no other task changes the state
or the container meanwhile; that is so because the runner owns the mutex
exactly while it is between its lock and the end of its iteration (`LockInv`).
A container may outlive its process, hence `box.st = "ok" => box.task \in
succeeded`. `OutcomeIsKept` says what may change a state that is about a task: the end of its
run, with the outcome; the confirmation of its success; the user; and, with
`LossyDb`, a crash that loses the last write. It needs in addition that a skip,
wherever it has got to (channel, snapshot, event), is one the user made, and
that without `LossyDb` the database holds the state (`ManualInv`).

`OnlyUpdateBlocks` says how far the lock cycle of section 5 reaches. A set of
tokio tasks is stuck if each waits for a mutex that one of the set holds. By
`LockInv` nobody stuck waits for the runner, which holds its mutex only while it
waits for none, so that the processor and the listener wait for each other; the
processor then holds the runner's mutex, which it does while it applies an
update only, and the listener the cek. `UpdateInv` adds that a task waits for
the user all that while, since nobody else can change the state, and that the
user has made an edit. Hence `AgentNeverStuck`: with `MaxEdits = 0` no set of
tasks is ever stuck, for any number of messages, reconnections and crashes,
which is the case that `agent_live` takes for its liveness properties.

* `ParserInductive`, `ParserTypeOK`, `ParserPlainEventsAreHeard`, `ParserHeardInOrder`,
  `ParserOnlyInnerCallsMislead`, `ParserFlatLogsAreRight` (`LogParserProofs`): for
  logs of any length and depth, and any set of other programs. The invariant has
  three parts. The writers (`WritersInv`): after a call and before the next call
  or end, every line is by the program that was called, and that program is the
  one that runs; the messenger writes no text that is base64 by chance or
  mentions invoke. The reader (`ReaderInv`): at a line that follows a call like
  that, `program_id` is the messenger if and only if the messenger was called (a
  text with an "invoke" may make it no program at all, never the messenger). What
  was heard (`HeardInv`): only lines that were read, and of the plain ones (no
  inner call before them) exactly the messenger's. `ParserFlatLogsAreRight` is for
  `MaxDepth <= 1`: if no program calls another, every line is plain (`FlatInv`),
  so that all of the messenger's events are heard, nothing else is, and no text
  stops the listener. What `log_foreign` shows takes an inner call.

* `AgentImplementsRunLife` (`AgentLifeProofs`), for `~LossyDb`: by `Inductive`,
  whose `RunIsUndisturbed` has that in the cleaning up the outcome is in the
  state unless the wait for it failed. With `LossyDb` a crash can take the
  state back, which `RunLife` does not allow.
* `ProcessInductive`, `ProcessTypeOK`, `ProcessKeyBeforeTasks`,
  `ProcessSettledStaysSettled`, `ProcessNothingPassedOver`, `ProcessToldOutcome`,
  `ProcessSaveComesFirst`, `ProcessOutcomeIsOwn`, `ProcessRunNearsEnd`,
  `ProcessImplementsRunLife` (`ProcessProofs`): for any number
  of tasks, attempts and kills, with influx or without, and any set of devices.

The invariant of `Process` has eleven parts beside the types. `StateFollows`,
`ToldFollows` and `SaveFollows` say for each position of a run what the state,
the events told and the attempt to save are; they give `ToldOutcome`,
`SaveComesFirst` and the refinement. `KeyFollows` says that a device does not change
once the membership is authorized. The next four follow a message on its way.
`PostedFollows` puts the counters in order (`lastAdded <= seen <= posted`) and what
waits in the mail ahead of everything worked on, unless a load has overtaken it;
`ListenFollows` says that no seen message is forgotten: up to `lastAdded` it is in
the queue, worked on or in no need of a run (`NeedsNoRun`: confirmed, skipped or
missed), after that in the mail or in no need. It is where `Subscribes` must pay:
whatever it begins without is added to `missed`. `OrderFollows` says that all tasks
below the one worked on need no run (`DoneBelow`), which needs that the queue is
taken from the front; `NothingPassedOver` follows from it. `LastFollows` is about
`last_task_id`, which may be behind `last_read_message_id`, since a confirmation may
land while its sender gets an error: as long as nothing was missed it is behind by no
more than the complete task itself and skipped ones, and `SettledStaysSettled`, its
last conjunct, is then kept by every load.

`BoxFollows` says whose the container is: from its creation to its removal the
run's own, since the name was free when it was created; before, whatever was
left. It gives `OutcomeIsOwn`. `TimerFollows` and `NoteFollows` say that the
monitor's timer fires once in a run and that the attempts at influx are counted
by a notification that is under way only. They give `RunNearsEnd`, the part of
"every run ends" that needs no fairness: `Ahead` weighs the calls that a run has
ahead of it (`CallsAhead`, in which the interrupted wait counts before the
monitor's start and after it) with more than any notification can take
(`MaxAttempts + 2`), and adds what is left of the notification under way. Every
step of the runner or the notifier in a run makes `Ahead` smaller, whichever
calls fail, and it is at most `RunLength` and never below 0. What stays an
assumption on the outside is that the container exits.

Only model-checked: the liveness properties (fairness and ENABLED are out of the
prover's reach; `RunNearsEnd` and `NeverStuck` are what can be proved of them).
The type invariants of `Agent` and `Process` are the first conjunct of
`Inductive`, and are checked with it.

Assumed by the proofs: `AgentAssumption`,
`NotifierAssumption`, `TaskRunAssumption`, `ProcessAssumption` and
`LogParserAssumption`, all about the ranges of constants only (the last one also
says that the messenger is not one of the other programs, nor no program).
`MaxEdits = 0`, `~LossyDb` and `MaxDepth <= 1` are hypotheses of the one theorem
each that is named with them above, `MaxId \in Nat` of those of `TaskQueueProofs`.

## 5. Where the code and its documentation disagree

1. `agent_deadlock`: the processor handles an Update with the runner's mutex
   held and waits for the cek (`agent.rs` 178, 181), while `load_tasks`, after
   a broken stream, holds the cek and waits for the runner (389, 397). All
   three tasks wait for ever. It takes a failed task and a reconnection while
   the user's update is being handled.
2. `agent_lost`: the subscription starts after the channel was loaded. A
   message posted between is not seen until the next load; if the processor
   has added a later one by then, `add_task` refuses the message, as
   "already added earlier", and it never runs before a restart.
3. `agent_duplicate`: a restart in the state Complete(t) whose read_message has
   not landed queues t again (`load_tasks` takes every id above
   `last_task_id`), the runner then confirms t, and after that runs it a
   second time.
4. `agent_deleted`: the branch of `select!` is chosen at random. When a New and
   the Delete of the same message both wait, the Delete may be handled first,
   and the New then queues the deleted task.
5. `log_foreign`: `Execution` changes its program when a call begins and not
   when it ends. After another program has called the messenger and the call
   has ended, the caller's lines are handled as "emitted from the current
   program"; and after an inner call of its own, the messenger's events are
   taken for the callee's and missed. `PlainEventsAreHeard` says what holds.

6. `agent_skipped`: after a restart in Error(t) the message of t is queued again.
   When the user then updates it to a skip, the Update handler resets the state
   and says "Task #t was skipped..." (`agent.rs` 185, 187), but, unlike the Delete
   handler (213), leaves the copy in the queue, and the next iteration runs it.

No run is about the webhook: the repository's README names
AGENT_NOTIFY_WEBHOOK_URL (`README.md` 33), but no code reads it, so that
`notify_webhook` returns at once (`Notifier`).

## 6. What is not modelled, and why

* Time: the pauses of the loops, of influx and of the monitor's timer. A
  step that waits may wait for any time, and the timer may fire at any time.
* Balance: `RunnerLocks` may wait for any time; that it is sufficient again and
  again is part of its fairness.
* The cipher, the derivation of addresses, the encoding of instructions and
  accounts, the arguments of a task (`parse_args`): they map one value to another
  and change no state. `Conversion` has the shapes on which they fail or panic.
* The other commands of the command line print and end. Installation, CI and the
  playbooks are scripts around the agent; what matters of them is
  `--restart=always` (`install.sh` 77, `docker-compose.yml` 24).
* A `runner_state` that another version has written: `Starts` takes the record to
  be the one that was saved.
* Messages are immutable once queued, as in the code: an update of a queued
  task that is not waiting for the user is dropped (`ProcIgnoresUpdate`).

## 7. What could come next

The three specifications are not one: `LogParser` feeds events that `Agent` takes
whole, and `Process` takes in one step what `Agent` interleaves. Composing
`TaskRun` with `Agent` would check the calls of a run against the other two
tokio tasks directly; as it is, the link is that both refine `RunLife`. A proof
of the agent's liveness would need a prover for fairness, and is left to
`agent_live` and `process_live`.
