# A TLA+ model of kastellan's task queue, planner loop, tool workers and channels

kastellan is a personal-assistant daemon. Producers (a CLI, chat channels) put
tasks into a PostgreSQL table; two lane loops in the daemon claim them and run a
plan-review-execute loop around a language model; a plan the reviewer does not
want to decide is put to the operator as an *ask*, and the task is suspended
until the ask is answered, cancelled or timed out. Everything that matters about
a task is in two tables, `tasks` and `asks`, which the daemon, CLI processes and
a timer change concurrently. A finished task's answer goes back to the chat channel
it came from through a *bus*, one per channel, which claims the reply in the
`tasks` row before it sends it. The same bus decides what becomes of a message that
comes in. A channel's adapter is a worker process that a driver thread polls; a
supervisor starts the bus and starts it again when it dies.

## Inventory

| Part | State | Operations | Talks to |
|---|---|---|---|
| Task queue, `db/src/tasks.rs` | `tasks` rows: state, lease, started_at, plan_count | insert, claim, finalize, cancel, fail, crash sweep, suspend, resume | NOTIFY triggers; every other part |
| Operator asks, `db/src/asks.rs`, `core/src/scheduler/asks/` | `asks` rows: state, deadline, resolution, resume_state | raise, resolve, resolve_with_nonce, expire_due, cancel_for_task | task queue in the same transaction |
| Lane runner, `core/src/scheduler/runner.rs`, `runner/task_exec.rs` | the claimed task | drain_lane, run_one, the sweep loop | queue, inner loop, audit log |
| Inner loop, `core/src/scheduler/inner_loop*` | plans, ceilings, floor, synthesis flags | plan, review, dispatch, suspend | planner, reviewer, tools, queue |
| CASSANDRA review, `core/src/cassandra/` | none | deterministic rules, guard model | inner loop |
| Crash recovery, `core/src/scheduler/crash_recovery.rs` | none | startup sweep and its audit rows | queue |
| CLI cancel, `core/src/cli_audit/task.rs` | none | cancel and audit | queue |
| Channel bus, outbound, `core/src/channel/bus*.rs`, `outbox.rs`, `db/src/tasks/reply_claim.rs` | one queue per channel, `reply_settled_at` and `reply_disposition` of a task | route, sweep, claim, send, deliver an ask, start, stop | queue, asks, adapters, boot supervisor |
| Channel bus, inbound, `bus_inbound.rs`, `auth.rs`, `pairing.rs`, `ask_message.rs`, `ingest.rs`, `db/src/pairings.rs` | pairings, pairing codes, the message in hand | authorise, pair, answer, contain, ingest, acknowledge | queue, asks, adapters, operator CLI |
| Boot supervisor, `boot_supervisor*`, `respawn_alarm.rs`, `pump_liveness.rs` | failures, backoff, outage and storm latches | start, wait for death, stop, restart, report | bus, daemon shutdown |
| Polled driver, `polled_driver*`, `worker_lifecycle/persistent.rs` | batch, inbound buffer, reply queues, refusal runs | poll, hand over, ack, flush, drain | adapters' workers, bus |
| Worker lifecycle, tool host, `worker_lifecycle/`, `tool_host*` | one slot per warm tool: worker, counters, backoff, teardown task | acquire, call, watch, release, tear down | inner loop, workers |
| Sandbox, egress, workers | sidecars, processes | spawn, proxy, answer | worker lifecycle |
| Memory, entities, audit log, secrets, LLM router, CLI, install | single rows or none | reads and single-row writes | database, network |

Hard behaviour: transactions of several statements from four kinds of process on
the same two rows; a run that goes on while its task is cancelled; a daemon that
dies between two statements; deadlines that pass while somebody answers; a run
cut in two by a suspension, with its budget, history and floor rebuilt from what
was stored; copies of one reply in several queues, a claim whose answer is lost, a
pump aborted in the middle of a send; a mutex held over a sleep and a call; a timer
that fires for a worker used since; one cursor for events, skips and holes; a
pairing revoked under a message in hand. What makes the system correct: an ask and its task move together; a
settled task or ask never moves again; one runner per task; a denial is final; a
step runs only if its plan was sanctioned; every task ends and is counted once; a
reply is sent at most once, and never lost without a trace; a worker out of step is
never used again; a message is read, redelivered or reported, never acked away
unseen; only a paired peer's message becomes a task.

`PROJECT.json` lists every component with its status, and the hazards with the
line where each bites.

## Modules

| Module | What it is |
|---|---|
| `TaskStore` | the two tables, their row locks, and every process that changes them |
| `TaskLifecycle` | the abstract specification: a task and its question move in one step |
| `InnerLoop` | one task through the planner loop, over all its suspensions |
| `ReplyBus` | the buses of the daemon: from a finished task, or a raised ask, to the transport |
| `InboundBus` | the handler of a bus for what comes in, with pairings, codes and asks |
| `PolledInbound` | a polled channel's driver from poll to ack and exit |
| `ReplyQueues` | the same driver's outbound half: conversations, refusals, giving up |
| `BootSupervisor` | the supervisor of one channel and its reporting policy |
| `WarmSlot` | the slot of a warm tool: dispatches, worker, watchdog, teardown |
| `MC...` | instances for TLC; one `.cfg` per run |
| `TaskStoreProofs` | types, inductive invariant, refinement of `TaskLifecycle` and what follows for `TaskStore` |
| `InnerLoopProofs`, `ReplyBusProofs`, `InboundBusProofs`, `PolledInboundProofs`, `ReplyQueuesProofs`, `BootSupervisorProofs`, `WarmSlotProofs` | for each of these modules the inductive invariant and the theorems that follow from it |

### TaskStore

PostgreSQL runs at READ COMMITTED. The variables `tstate ... choice` are the
committed columns; `tlock` and `alock` the row locks. A statement is an action.
A transaction of several statements is several actions of one process: its `pc`
says how far it is, which determines what it has written and not committed, and
its last action applies the writes and releases the locks. A statement that has
to change a row another transaction has locked is disabled until the lock is
free, and re-reads the row then. A lock cycle is broken by `deadlock_victim`,
PostgreSQL's detector. A crash of the daemon rolls back every transaction of its
processes; `abort` is a lost connection or a failed statement of one process.

The processes are the runners (`claim_one` to `write_finalize_row`, and
`asks::raise` inside it), the resolvers (the CLI's `resolve` and the bus's
`resolve_with_nonce`, which sees only the tasks of its peer: `Reach`), the
cancellers (`mark_cancelled` with both ask sweeps, `mark_cancelled_if_pending`,
and the audit rows after them), the sweeper (`expire_due`, row by row) and the
startup sweep. Time is what the WHERE clauses ask of it: a lease or a deadline
is ahead or behind.

A daemon starts one runner per lane; the model allows any number in a lane, since
`FOR UPDATE SKIP LOCKED` is meant to be safe for any. A graceful shutdown waits
for the runners and then behaves like a crash with idle runners. `rows` counts
the `task.finalize` audit rows of a task up to `RowCap = 2`: a second is already
one too many.

### InnerLoop

`run_to_terminal` with its poll for a cancel, its two ceilings, the forced
synthesis turn, the floor a plan may raise, the review and what each verdict
leads to, the dispatch of steps, and `run_one` around it: the resolved asks, a
denial, the budget, history and floor a resumed run starts from. The planner,
the reviewer and the tools answer arbitrarily; the operator acts between any two
awaits. A plan is a record of what the rules look at, and its digest is the plan
itself. An `invoke_skill` directive is replaced by the steps of a pinned skill, of a size
in `SkillSizes` and stamped with the plan's resolved ceiling, before the review sees the
plan. An advisory verdict proceeds as an approval does, with a note, and is one here.
`restore_resume_state` gives a resumed run the stored history or, when the state is missing
or does not decode, nothing at all: `readable` chooses, and `forgotten` remembers what had
been executed when it last chose no. The steps executed before may then run again, as the
code's comment says. The advisories and blocks that are restored beside the history only
reach the prompt and are left out. The row of the task moves atomically here; `TaskStore`
shows why that is sound. `PayloadFloor` is the floor after the earlier turns of a conversation have
been loaded.

### ReplyBus

`done` is the tasks row in a terminal state, which it never leaves: that is
`NothingReopens` of `TaskStore`, so the bus is specified over finished tasks
instead of over the whole queue. Each bus has two pumps. `rpc` is where the
completed-task pump awaits (the `select!`, a page of the backlog, a load, a place
in the queue, the claim of a reply without a route, the re-read after a failed
claim); `dpc` is the same for the channel pump. A claim is one autocommit UPDATE
in three steps: sent by the pump, run by the server, answered. An error may cut it
after the first or the second step, and a statement whose client is gone is one
of the `orphans`, which the server may still run. `shutdown` deregisters the
queue under the registry's write lock and then aborts both pumps at whichever
await they are; the guards and the queue's `Drop` say what they held. A crash
says nothing. `try_send` of an ask is two steps, taking a slot and filling it.

`said` collects the undelivered and unroutable rows and the `[audit-lost]` lines,
`crashed` what a crash had in hand, `behind` what a re-read called unsettled (or
could not tell) while its claim was still to run. The last two are what the design
gives up, and `LossIsSaid` names them instead of hiding them.

### InboundBus

`pump[c].at` is the await at which the pump of a channel stands: the authorisation
lookup, the two statements of `try_pair`, `resolve_with_nonce`, the containment scan,
the enqueue, the audit row, the acknowledgement. Between two of them the other
channel's pump, `kastellan-cli pair` and the ask sweep move; each call may fail, and
one that writes may have committed all the same. A body is what the handler asks of
it: a command, something shaped like one, a mention of a verb or prose, the tokens and
the code in it. `vouched` remembers which messages in hand had a paired sender at some
moment; a stop witnesses like any other step. The ask table is the one of
`TaskStore`, seen as far as a channel sees it: an answer here is `TaskStore`'s bus resolver, which shows that it and the task move together.

What the properties leave out is what the code leaves open: an enqueue whose
acknowledgement is lost leaves a task and an `enqueue_failed` row, an answer that
committed unheard is acknowledged as not answerable, and a token in a body without a
verb, or another peer's token, may become part of a task. Only a transport that vouches
for its peers has the pairing carve-out; a peer of such a transport that is given a
token by `issue-token` is no longer recognised.

### PolledInbound and ReplyQueues

One thread, split where its halves touch only through the worker being up or down. In
`PolledInbound` the constant-for-a-behaviour variable `acks` chooses between a channel
with acks (e-mail: messages stay in the store behind a cursor that only grows) and one
without (Matrix: a polled message is gone from the worker). `blocking_send` is two
steps, taking a slot and filling it, because `drain_unread` may run between them.
`fate` collects what became of each message, so that a loss and its report can be
compared. A transient fetch failure below a later acked event is passed by the cursor:
the e-mail worker documents this, and `fate.omitted` names it.

In `ReplyQueues` a conversation's clock is unset, young or past `ReplyGiveUp.after`;
`tries` and `streak` count refusals independently of the code's own counters. Some
conversations (`Welcome`) are never refused by themselves, which is what
the first conjunct of `EveryReplySettles` is about.

### BootSupervisor

`run` of `boot_supervisor.rs`, one action per branch, with time in ticks and each
`Instant` as its age up to `Horizon`. An attempt returns whatever it likes or never. The
`DowntimeEscalator`, both `RespawnRateAlarm`s and the row gate of `ReportingPolicy` are
functions of the ages. `seen` records when the last stable run ended and when the last row and
flap line were written, which the code does not know. An alarm prunes its window from the
front, as the code pops it, and stops at the first event that is recent enough. A row is best effort in
the code (`[audit-lost]`); here the attempt to write it counts, and a `started` row
counts as well as one of a death. A still-down line also
counts uptimes too short to be called stable.

### WarmSlot

The slot's mutex is FIFO and is held from `take` to the drop of the handle, through the
backoff's sleep and the call. A worker's call may end in an answer, an RPC error, a
garbled answer or the worker's exit, or never; the watchdog is a thread of its own that
may fire between the answer and the disarm. Each clean release leaves a teardown task
which sleeps, wakes, queues for the mutex and compares `last_completion`. `owed`, `calls`,
`crashes` and `tainted` count what the code's counters are for; `owed` is computed from
`Uncapped`, the power the code's loop is meant to cut off at its cap. An aborted teardown
task leaves the mutex's queue where it stands (`waiting`). The warning about a deep
queue of waiting dispatches only logs and is left out. Without a wall clock a hung
call holds its slot for ever: `EveryDispatchEnds` is checked with one, while the only
idle-timeout tool of the default registry, gliner-relex, sets none. A worker that dies while
idle costs the next caller one failed call, and a failed spawn does not extend the backoff. A
dispatch that ends in anything but a crash, a denial included, ends the run of crashes that
`BackoffServed` counts, as it does in the code.

## Runs

| Run | Instance | Shows |
|---|---|---|
| `race` | 1 task, 2 asks, 1 runner, 2 interchangeable resolvers, 1 cancel, sweep, database errors | types, coupling, first responder wins, where lock cycles close, nothing settled moves again |
| `crew` | 2 tasks (one an l3_run), 1 ask, 2 interchangeable runners of one lane, the bus as resolver, cancel, sweep, crashes | one runner per task; no task is counted twice; the refinement of `TaskLifecycle` |
| `live` | 1 task, 2 asks, resolver, cancel, sweep, fair | a task ends and is counted, through its suspensions |
| `loop` | four kinds of plan, skills of 2 and 3 steps, 2 plans and 2 steps, one suspension, readable or not, time ceiling, one database error, fair | sanctioned steps, classes, cancel; budget and its one synthesis turn; plan counter across the resume, and its history whole or not at all; every run ends |
| `replies` | an unserved, an unroutable and a served reply and an ask, 1 bus, queue and pages of 1, 1 fault, fair | a reply is sent at most once; a loss is on record; a stop never takes an ask from under its sender; every reply with somewhere to go is settled |
| `inbound` | 2 channels, 3 peers, 5 messages, 2 codes, one presented by two peers, 2 tokens, 1 ask, 1 fault, 1 revocation | admission, containment of tokens, codes, traces |
| `polled` | 2 messages, buffer of 1, 3 faults, with and without acks, fair | the cursor, losses, paced redelivery, arrival unless the driver ends, which it does when the bus stops |
| `queued` | 4 replies to 2 conversations, queue of 2, 2 refusals to give up, 1 fault, fair | order, accounting, giving up, independence of conversations |
| `boot` | delays 1 and 2, windows and thresholds of 2 to 5 ticks, fair | no leaked bus, slowed flaps, honest and unsilenced alarms, no death or shutdown missed |
| `warm` | 3 callers, 2 workers, 2 instants, 2 requests per worker, backoff 1, 2, 3, fair | one worker, fit for reuse, backoff, watchdog, teardown, every dispatch ends |
| `resweep`, `skipped` | smallest instance that shows it | what a comment says and the code does not keep; see "Findings" |

The first conjunct of a module's structural invariant is its `TypeOK`, which is listed by
itself only for `TaskStore`: see `HistoryKept`, `AsksAccounted`, `OneWorkerPerTool`,
`CursorPassesNothingUnseen`, `RepliesAccounted`, `NoBusLeaks` and `CodesBindOnce`.

Bounds. Two asks are enough for a suspension, a resume and a second suspension of
the same task, which is the longest chain the coupling can depend on; two tasks
for a process that has moved on while another still holds its old task. One
canceller and two resolvers give every pair of transactions. `MaxPlans = 2` and
`MaxSteps = 2` reach each ceiling, each turn after a ceiling and a plan that is
too long. `MaxAsks` bounds the escalations, because every answer buys a fresh allowance
and the code itself sets no bound. Deadlock checking is off where a system with nothing
to do may rest or has ended; the outbound bus and the warm slot never rest, and their
runs check for deadlock. `race` and `crew` identify states
that differ in which of two equal processes does what.

`MaxFaults` bounds the lost NOTIFYs, failed statements, refused sends, closed
transports, stops and crashes of a bus together; the proofs have no such bound. Pages
of one reply make each sweep a sweep of several pages; a queue of one fills up. Two
messages are enough for a batch with a hole or a skip below an event, and three faults for
a refused ack, its redelivery and a death. Two of a conversation's replies queue behind one that is
refused, and a third overflows. Three deaths within a window of five ticks are a storm that
outlasts its repeat interval. Three callers are a holder and two waiters whose order
matters; a further party at the mutex is a teardown task, and two instants give it one that is out of date. The two
workers let a successor exist beside one not yet reaped. In `inbound` the second code keeps
the pairing gate open, so that the second peer to present the first one gets as far as the
conditional UPDATE; a body with a NUL, over the size cap, or shaped like a command without
being one is in the theorems and not in the instance.

Fairness. Lane loops and the ask sweep wake up on a timer
(`HEARTBEAT`, `ASK_SWEEP_INTERVAL`); a process that has begun an operation goes
on with it; PostgreSQL breaks a cycle and hands a row lock to a transaction that
waited for it, hence strong fairness of the transactions; deadlines pass. No one
is obliged to submit, answer, cancel or fail a task, and in `live` nothing
crashes: with the daemon down for good, nothing ends. In `replies` the pumps are
scheduled, the sweep's tick comes round, PostgreSQL answers a waiting client, a bus
with a dead pump is stopped and one that is down is started again: the boot
supervisor retries without bound, and the service manager restarts the daemon.
An orphaned claim need never run. In `loop` the run's own steps and the planner's answer are
fair, the operator is not. In `polled` and `queued` the driver's thread runs, backoffs
pass, the persistent supervisor respawns without bound and a running pump reads; no one has
to stop the bus, and that a give-up clock gets old is a premise of `EveryReplySettles` alone.
In `boot` the supervisor's task and the clock move, nothing is assumed of an attempt. In
`warm` the runtime polls what is ready, timers fire, a spawn returns; a worker need never answer.

## What is proved

Every invariant and every action property that a passing run checks is a theorem, and
so is the refinement: TLC shows them on the instances above, TLAPS for every value of
the constants that satisfies the module's named assumption. The assumptions say that
sets which name different things are disjoint, that `None` and its like are not values,
that counts are naturals, and what the code's own constants satisfy (a base delay below
its cap, a queue with room for one, at least two refusals before a reply is given up).
No proof bounds the number of processes, tasks, messages or faults. Each inductive
invariant was first checked by TLC on the module's run.

**TaskStore.** `TypeCorrect` needs `Typed`: what a process carries depends on its `pc`.
The inductive invariant `IInv` is the conjunction of

- `LockInv`: a row lock names a transaction that is past taking it and works on
  that row, and a transaction past taking a lock has it;
- `ProcInv`: what each process knows of the rows it works on. A raise that holds
  its tasks row knows the task is running and its ask does not exist; a resolver
  that holds its ask knows it is pending and whose it is; a cancel knows that the
  state it read is still there, that its asks are pending asks of its task, and
  after the second sweep that there are no others; the sweep knows that the asks
  it has dealt with have their tasks locked;
- `CoupledInv`, `L3Unasked`, `OneRunnerPerTask`.

None of the properties is inductive alone: the coupling at a commit rests on what
was read statements earlier, and that this is still so rests on the locks. The
proof has a lemma for each way a step can treat the locks: `LetGo` (a rollback),
`Move` (a statement outside transactions), `TakeTask`, `TakeAsks` and `Commit`
(the rows changed are rows the process had locked, so the others' knowledge
stays). Each action is then one of these. From `IInv` follow `CoupledAlways`,
`WriterFindsTask`, `PreviousStateAlways`, `OneRunnerAlways` and `DeniedAlways`; what
`WriterFindsTask`, `PreviousStateAlways` and `DeniedAlways` state is proved and
not in a run. Every step maps to a step of `TaskLifecycle` or to none
(`Refinement`), and `NothingReopensEver` follows from the abstract steps.

`CyclesNeedTheResweep` adds `BeganInv`: an ask that was pending when a cancel began is
locked by the cancel or is settled. It rules out every pair of transactions but one.
`OneRowPerTask` adds `RowsInv`: at most one process owes a task its `task.finalize` row,
none does once the row is written, a row is owed only for an ended task, and the startup
sweep never runs beside a runner. It assumes that the database answers
(`"dberr" \notin Faults`), and has to: after a failed finalize UPDATE the runner writes
its row while the task stays running, and the startup sweep writes a second one.
An error of `raise`'s COMMIT is a rollback throughout `TaskStore`. A COMMIT that landed
and lost only its acknowledgement is outside the model: the run would go on to finalize
the task it has suspended, which the guard of the UPDATE refuses unless an answer and a
second claim come first, and would write its row; `OneRunnerPerTask` and `FinalizedOnce`
are not claimed of it.

**InnerLoop.** `LoopInv` says for each `pc` what has been decided by then: which verdict
and which answer a plan at dispatch has behind it (`Reviewed`), that a cancel is seen at
the next poll (`Cancelled`), that the history of the run, or the stored
one it starts from, is what was executed since one last could not be read (`Remembered`),
that the column lags the count by the failed writes only (`Counted`) and
what is left of the allowance (`Budgeted`). `BudgetPerAnswer` counts over all the runs
of a task, so it is inductive only with what the current run has used.

**ReplyBus.** `BusInv` says that a claim is with the
server only while its pump waits (`Waiting`), that a pump which has won a claim is
the only one and has not sent (`OneHolder`), and that a settled reply was sent, is
on record, or is owed by some pump, as is one with an orphaned claim (`Owed`).
`AtMostOnce` alone is not inductive because a send raises the count: that it was
zero follows from the uniqueness of the holder, and that from the claim's WHERE.
`LossIsSaid` alone is not either, because it says nothing while a pump holds the
reply and a pump that lost the claim lets go of it; `Owed` names the one that
really owes. `AskInv` is a second invariant, for the asks: a sender that holds a slot keeps the
queue registered, which keeps it from being taken away before the slot is filled.

**InboundBus.** `InboundInv` says for each await of `handle_inbound` what the handler has
established by then (an authorised message was vouched for, a code in hand is claimed
once, each token scanned so far is dead) and that rows are written behind what they report.
`AdmittedWhilePaired` is not inductive because a pairing may be revoked under the message.

**PolledInbound.** `PollInv` places every message of a channel without
acknowledgements: still with the worker, in the batch, in the buffer, or with a fate
(`Somewhere`). It orders those of a channel with them, so that a single cursor speaks for
all below it (`InOrder`). What was polled since the last wait is behind the cursor or still
to be acknowledged, unless the next poll is held (`Paced`).

**ReplyQueues.** `QueueInv`: the replies stay in the order the bus numbered them, in the
channel, in each queue and from queue to channel (`Ordered`); what is charged to the front
of a queue it was refused itself (`Fronts`); a give-up clock runs only behind a refusal no
failure of the channel has followed (`Clocks`). The last two are why neither a predecessor's
refusals nor an outage can cost a reply.

**BootSupervisor.** `BootInv`: exactly the current attempt's bus is up (`OwnBus`), the next
delay is no shorter (`Slowing`), the events of an alarm are at least a tick apart, because
there is a sleep between them (`Spaced`; it bounds the window without counting), and what an
alarm remembers having said was written no longer ago (`Told`). The rate alarm of the
attempts may fire without a row while the escalator speaks for it; that this gate reopens
only after a start has written its own row is the conjunct `ReportsStayTrue` turns on.

**WarmSlot.** `WarmInv`: who may hold the mutex and a handle (`Places`), which process
exists for whom (`Processes`), what a warm worker has behind it (`Fit`), when a watchdog is armed (`Watched`) and what is left of a delay (`Gated`).

Recursive functions. `Delay`, `Uncapped` and `Backoff` are recursive functions of the
number of failures. That each satisfies its defining equation, and `DelayIsCapped` and
`BackoffGrows`, are proved by induction over the set of numbers for which they hold
(`SetInduction`, from the library's well-foundedness of `<`), which needs no theorem with
an operator parameter. Least and greatest elements come from the same source.

Only model-checked: the liveness properties `EveryTaskEnds`, `EveryRunEnds`,
`EveryReplySettled`, `EveryMessageArrives`, `EveryReplySettles`, `NoEventMissed` and
`EveryDispatchEnds`, since fairness and ENABLED are out of the prover's reach; and the
two properties the code violates, which have their counterexample.

## Findings

Two comments say more than the code keeps; each has a run with the
counterexample and an entry in `PROJECT.json`:

- `resweep`: the second ask sweep of `mark_cancelled` "cannot deadlock"; it can,
  with a resolver or the expiry sweep, on an ask raised between the two sweeps.
  `CycleOnlyThroughResweep` shows that this is the only way. The loser gets 40P01
  and nothing is left half done.
- `skipped`: a mail that cannot become an event "is never silently dropped"; when an event
  behind it is acked and a later ack of the batch is refused, or the bus closes, the
  cursor is past the skipped mail before `ack_skipped` could record it.

Noted while modelling, without a run of their own: a resumed task cancelled out of
`pending` was claimed before, although its finalize row says otherwise
(`cli_audit/task.rs:74`); a restart within the lease leaves a running row without a
runner (`crash_recovery.rs:6`); a suspension forgets a floor the planner raised
(`cassandra/types.rs:249`); a claim that commits after the re-read that follows its error
leaves a routed reply without a trace (`bus_deliver.rs:180` knows of it, and `LossesAreSaid`
shows that, crashes apart, it is the only such way).

## Not modelled

The channel protocols, the sandbox, egress, cryptography, the LLM router, prompts, memory,
entities, the installer and the workers other than the e-mail worker's poll are I/O, text,
numeric scoring or single calls on single rows: there is no interleaving in them for a
model to explore, and they are most of the repository's lines. The memory rows after a run, the
notebook variant of the loop, the wording and nonce of an ask, and the layout of
audit payloads are data no property here is about. A lane loop that returns because
LISTEN could not be set up is outside `TaskStore`, whose lanes run.

## Plan

1. Abstract specifications for the reply bus (a reply is sent once or reported) and for the
   warm slot (one worker, lent or idle), each with its refinement, as `TaskLifecycle` is for
   the task queue.
2. The composition of the two halves of a polled channel's driver over their shared worker.
3. Notebook turns, hand-offs and the catch-up alarms.
