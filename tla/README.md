# Verification of the Temporal Python SDK

TLA+ models of the concurrent parts of `src/temporalio`, TLC runs that check
them on small instances, and TLAPS proofs of the properties that matter most.
`PROJECT.json` lists components, runs, mutants, the map from definitions to
source lines, findings, hazards and theorems.

Commands, in this directory:

    tlc -workers 2 -config Workflow.cfg MCWorkflowWorker
    tlapm ActivityWorkerProofs.tla

## 1. The system

A `Worker` polls a core (Rust, outside these sources) for three kinds of task
and answers each with a completion. Everything in Python runs on one asyncio
event loop, except that workflow code runs on the threads of an executor, sync
activities run on an executor of their own, and heartbeats of activities in
other processes are read by a thread.

| Part | Source | What can go wrong there | Module |
|---|---|---|---|
| Worker lifecycle | `worker/_worker.py` | run, shutdown, cancellation and failing poll loops race | `WorkerLifecycle` |
| Activity worker | `worker/_activity.py` | cancellation arrives at every await; heartbeats race with completion | `ActivityWorker` |
| Cancellation of threads | `worker/_activity.py` | an exception is set in a thread that moves on | `ThreadExceptionRaiser` |
| Shared heartbeats | `worker/_activity.py` | a bounded queue, a processor thread, a blocking put | `SharedHeartbeats` |
| Workflow worker | `worker/_workflow.py` | deadlock time-outs, cache, evictions and their retries | `WorkflowWorker` |
| Deadlock interruption | `worker/_workflow.py`, `_workflow_instance.py`, sandbox runner | thread ids read by another thread | `DeadlockInterruption` |
| Nexus worker | `worker/_nexus.py` | a cancellation between handler and completion | `NexusWorker` |
| Workflow instance | `worker/_workflow_instance.py` | order of jobs, buffered signals, updates, conditions, cancellation, eviction | `WorkflowInstance` |
| Operations a workflow awaits | `worker/_workflow_instance.py` | start, result, backoff, cancel and eviction in any order | `OperationHandle` |
| Workflow streams | `contrib/workflow_streams` | retries, deduplication, truncation, continue-as-new | `StreamPublisher`, `StreamSubscriber`, over `WorkflowStream`; `StreamLog` |
| Replayer, client polling, time skipping | `worker/_replayer.py`, `client`, `testing` | small loops | not modelled |
| Converters, sandbox importer, bridge, generated code, integrations, wrappers | see `PROJECT.json` | no protocol state of their own | not modelled |

The lifecycle starts, drains and waits for the three sub-workers. It sees of
each of them only a poll loop that runs, fails, drains or ends, and tasks that
may be left: these are the abstractions of the three modules. `WorkflowWorker`
treats a call of an instance as one executor call; `DeadlockInterruption` opens
that call as far as the interruption needs it. `WorkflowInstance` and
`OperationHandle` open what the instance does inside it: the first the event
loop and the jobs it applies, in order; the second what the workflow waits for,
with the tasks that are ready run in any order, so that it does not depend on
the first. Workflow streams are a client and a workflow library built on
signals, updates and continue-as-new.

## 2. Modules, state and actions

A step of a model is what the code does between two awaits of an asyncio task,
or under one lock of a thread. An asyncio cancellation is requested in one
step and raised in a later one, when the cancelled task resumes. Payloads,
headers, log lines and metrics are left out. Each module starts with a comment
on its boundary, and every variable and action names the code it stands for.
Definitions marked `(mutant)` are faults that are put in the place of the real
definition, to show that a property can fail; no specification uses them.

**`ActivityWorker`** - `_ActivityWorker`. Variables are the sets and fields of
`_RunningActivity`, the position of each activity's task, its heartbeat tasks
in order of creation, and what the core has sent and received. Actions are the
poll loop (`PollError`, `PollShutdown`, `RaiseFromExceptionQueue`, the start
and cancel tasks), the awaits of `_handle_start_activity_task` (`Begin`,
`Decode`, `Encode`, `EncodeFailure`, `RaiseCancelled`, `Flushed`, `Complete`),
what user code does (`Return`, `Raise`, `Heartbeat` ...), the heartbeat tasks
(`DrainHeartbeats`, `RecordHeartbeat`), and the shutdown (`Shutdown`,
`WaitAllCompleted`, `GatherDone`).

**`ThreadExceptionRaiser`** - the thread id, pending exception and shield depth
of each activity, and the exception with which CPython has marked the thread.

**`SharedHeartbeats`** - `_MultiprocessingSharedStateManager`: registration,
the bounded queue, the processor and its calls into the event loop.

**`WorkerLifecycle`** - `Worker._run` from `validate()` to the complete event,
`shutdown()`, and `__aenter__`/`__aexit__`. `early` records the poll loops that
failed before the shutdown began.

**`WorkflowWorker`** - poll loop, one handler per activation, the cache, and
the executor with its calls. `asyncio.wait_for` cancels the *future* of a call
that takes too long; the thread runs on (`abandoned`). The executor is the
worker's own, which `run()` shuts down and waits for, or the user's
(`ownExecutor`). The core keeps one activation of a run outstanding, and evicts
a run after a failure (external). A completion that cannot be sent
(`CompletionLost`, recorded in `unanswered`) leaves it outstanding, and the core
then neither sends that run anything nor ends the poll of a shutdown.

**`DeadlockInterruption`** - `_RunningWorkflow.activate` and
`attempt_deadlock_interruption`: the flag, its lock, the thread id that the
instance records, and the pending exception of each thread.

**`NexusWorker`** - one task per token through handler, encoding and sending;
`dropped` records the tasks that end without a completion, and why: cancelled or
failed while the failure is encoded, or a completion that cannot be sent.

**`WorkflowInstance`** - one instance and its event loop. The attributes of
`_WorkflowInstanceImpl` are the fields of the record `wf`, and every
`_apply_...` method is a function from `wf` to `wf`; `Activate` applies the job
sets of an activation (all at once, or in legacy mode one after the other with
`NextJobSet`), and the actions after it take the next handle of the ready
queue: a task's step, the deferred cancel, a fired timer, a done callback.
`CheckConditions` runs when the queue is empty. Workflow code is any sequence
of the segments of `Code`: an effect (a gate opened or shut, a signal handler
set or removed) and then a wait with or without a time-out, or an end.
`Effect` and `Segments` are thus external; what the wrappers do around them is
not. `ValidatorNotReadOnly`, `ConstructorFails`, `FailActivation` are the
error paths. While an instance is evicted its code may swallow the cancellation
and await a future of its own (`AwaitFuture`); such a task remains, the eviction
raises, and the worker sends it again (`Evict`). Code that never yields is an
activation that never finishes, as nothing is assumed of fairness. `dropped`
records a cancellation that the legacy mode does not keep, because it comes
before the initialization in one activation.

**`OperationHandle`** - `_outbound_schedule_activity`, `_outbound_start_...`,
`_signal_external_workflow`, `_cancel_external_workflow`, the handles and
`_await_temporal_operation`, with the jobs that resolve them, the two phases of
an activation, its failure, and the eviction. An operation has up to two
waiters: the call that waits for its start or answer, and the task of its
handle that waits for its result. Variables `unheard` and `lost` follow a
cancellation; `told`, `open`, `begun` and `again` are the core's view. A Nexus
operation that was resolved after a cancellation may end later and be resolved
again (`ResolveAgain`).

**`WorkflowStream`** - the state of a stream in its workflow: the log, its base
offset, the deduplication table, and the operations on them (`OnPublish`,
`Truncate`, `DetachPollers`, `NextRun` for what `get_state` and `__init__` carry
to the next run, and `PollResult` for the answer of a poll: the items of
`Matching` up to one of `Stops`, as the size of a response is capped and sizes
are left out). It has no specification of its own; the
two modules that follow extend it.

**`StreamPublisher`** - the buffer, the pending batch, the flush lock and its
callers (background flusher, `flush()`, `__aexit__`), the network and the
workflow's inbox. A signal that the server has taken may be answered or not,
and may arrive again until `MaxDelay` after it was sent. Items are numbered, so
that the buffer and a batch are intervals. Leaving the context cancels the
flusher (`Exit`); before Python 3.12 (the package supports 3.10) `wait_for`
swallows a cancellation that comes when the event is set, and the flusher goes
on (`CancelLost`), until a flush fails (`JoinRaises`). The event itself is not a
variable: any client that has published may be in this case.

**`StreamSubscriber`** - `subscribe()` and the two methods that look at the
polled run, against the chain of runs of a workflow that publishes, truncates,
detaches, continues as new and ends. The consumer takes one item at a time
(`YieldItem`), and the offset moves after the last of a response (`EndPage`), so
that truncation, rollover and cancellation can fall between two items. A poll
that fails in any other way than those `subscribe` handles raises
(`CallRaises`).

**`StreamLog`** - what a stream promises its publishers: a log to which each
item is added at most once, and never after a later one of its publisher.
`StreamPublisher` is checked and proved to implement it. The variables of `StreamLog` are
variables of `StreamPublisher` (`appended` is a history variable, to which the
only assignments are those to `_log`), so the refinement mapping is the
identity on them.

## 3. Runs

Deadlock checking is off in all runs: every one of these systems may stop, as
a worker does after its shutdown. That what must happen does happen is stated
by the liveness properties.

| Run | Bounds | Checks |
|---|---|---|
| `activity` | one activity, three heartbeats, queue of two, three kinds of cancellation details (a request, a pause, a request with a reset) | no heartbeat is recorded twice; the last heartbeat task has ended at the completion; "cancelled" only on request; the worker waits for its activities; a sync activity ends |
| `thread_raise` | two activities, two cancellations each, two nested shields | an exception is raised in its own activity and not in a shield |
| `shared` | two activities, two heartbeats each, queue of two | order, flush on unregister, the processor runs, unregistering ends |
| `lifecycle` | all sub-workers, two cancellations of `run()` | complete means stopped; early failures are raised and drained; `async with` hides no error; `shutdown()` ends |
| `workflow` | one run, two instances, two threads of the worker's or the user's executor, six calls, three failures | cache and core agree, evicted instances were torn down, counts are right, no workflow is entered after `run()`, activations are answered unless sending fails |
| `nexus` | two tasks, two cancellations each | at most one completion; every task answered or dropped for one of three known reasons |
| `interrupt` | two sandboxed runs, one that is not, two threads | interruptions of sandboxed runs strike their own activation, and the executor's idle threads are not marked |
| `handle` | four workflows: a local and a remote activity, a child, a Nexus operation, a signal and a cancel request; three sequence numbers, two cancellations | what the core resolves is pending and unresolved, what it resolves again is not pending; cancels are not lost; every wait ends |
| `instance` | two signals of one name, one update, one query, two jobs in an activation, two waits of the run method | signals in order and once; updates and queries answered once; no condition, cancellation or timer missed or left over, but for the cancellation the legacy mode drops; evictions leave no task but those whose code swallows the cancellation |
| `publish` | one publisher, two items, one coroutine that calls `flush()`, three ticks, two signals in the inbox | implements `StreamLog`; no silent loss; leaving the context without an exception has delivered; leaving it ends once the flusher has ended |
| `subscribe` | one subscription to one of two topics, three items, three runs, responses of any size, one failed call | yields the log without gaps or repetitions; follows the chain and ends with it |
| `handle_cancel_request` | as `handle` | ends in a counterexample, see section 5 |

Why the bounds are enough. Two activities, tasks or handles are what a race
over shared state takes (a thread id, the queue, the sequence numbers). The
activities of `ActivityWorker` share only the poll loop and the wait, and the
proofs of section 4 cover any number of them. The second cancellation of each
thing meets the handling of the first; in `handle` two cancellations strike one
operation twice or two operations once, as operations share only the numbers
and the table of pending ones. A queue of two is full and becomes
empty again within three heartbeats. Two instances of a run let a new life
meet what is left of the old one, and six calls let an activation, a deadlock,
a failed eviction and a second life follow each other. With three failures the
calls that timed out can take both threads while the next attempt is queued. A poll leaves room in
`MaxCalls` for the retries of every activation at work (`Room`), so that the
bound never stops an eviction that has begun. One run is checked: runs meet only in the
executor, where what a second run does to the first is to take threads, as the
first run's own deadlocked calls do. Three sequence
numbers let a local activity back off while another activity is started.

Two signals show order, and let the second one meet the buffer that the first
one leaves; with two waits of the run method a cancellation, a time-out and a
condition can strike the second after the first was caught. In `publish` the
constants are the smallest that satisfy
`MaxRetryDuration + MaxDelay < PublisherTTL` with all three above zero, and the
clock runs long enough for a table entry to expire, and for the next batch to
be sent and appended without it; a batch is given up after two ticks, and a
retry of one that was appended arrives a tick before its entry expires. The
documented condition is `max_retry_duration < publisher_ttl`; with a signal
that may arrive late it is not enough: with `PublisherTTL = 2` (and without the assumption that forbids it)
`ImplementsLog` fails, as a retried signal arrives after its entry has expired.
Publishers share nothing but the log, and the
table has an entry for each. In `subscribe` the third run shows a chain whose
middle is neither first nor last, and three items a page, a rest and an item
of another topic.

`TypeOK` of a module states the types of its variables; those of the modules
with proofs are proved there.

### Fairness

- Tasks on the event loop, heartbeat tasks and handlers: weak fairness. asyncio
  runs what is ready in FIFO order.
- Threads of the executor: weak fairness, for some thread to take the oldest
  queued call, and for some call at work to end. `ActivationsAnswered` thus
  assumes that the workflow code an activation runs ends; of a single call,
  which other calls may outrun, nothing is assumed, nor of polls and of the
  shutdown.
- The program of `WorkerLifecycle` does start the worker, with `run()` or with
  `async with`: otherwise `shutdown()` has nothing to wait for.
- User code: `SyncActivitiesEnd` assumes that it returns, and
  `ShutdownEnds` that tasks and polls end once the core shuts down. Nothing is
  assumed of users who call `shutdown()`, `cancel()` or `heartbeat()`.
- Streams: the event loop runs the coroutines, hands the flush lock to each
  waiter in turn (strong fairness; `asyncio.Lock` is FIFO), and every call to
  the server ends, one way or the other. `ExitEnds` needs this of `flush()` and
  `__aexit__` only, as the flusher has ended. A workflow that has detached its
  pollers ends the run, as `continue_as_new` of the stream does; its worker
  runs a poll's handler once its condition holds. That a signal arrives, or
  that a workflow continues or closes otherwise, is never assumed.
- The core: in `OperationHandle` it keeps sending activations and resolves what
  is open (strong fairness, as jobs can only be added in one phase). That it
  fails an activation, or evicts, is never assumed.

## 4. Proofs

The theorems hold for every value of the constants, under the named
assumptions of the modules only (bounds are naturals, model values differ, and
the time condition of `StreamPublisher`). Each safety property below is an
invariant that is not inductive; the proof names a stronger one, shows that it
holds initially and is kept by every action, and derives the property. These
invariants were also checked with TLC, with the constants of the module's run
(and quantifiers over all naturals bounded).

| Module | Theorem | States for all constants |
|---|---|---|
| `ActivityWorkerProofs` | `TypeInvariant` | types, and the capacity of the heartbeat queue |
| | `WaitsForAll` | `WaitedForAll` |
| | `FlushesLastHeartbeat` | `LastHeartbeatFlushed` |
| | `CancelsOnlyOnRequest` | `CancelledOnlyOnRequest` |
| | `RecordsOnce` | `RecordedOnce` |
| `SyncActivityProofs` | `NeverStray`, `ShieldsProtect` | `RaisedInOwnActivity`, the action property `NotRaisedInShield` |
| | `Flushes`, `ProcessorKeepsRunning` | `FlushedOnUnregister`; `ProcessorRuns`, on one event loop |
| `WorkerLifecycleProofs` | `StopsBeforeComplete`, `RaisesEarlyFailure`, `ContextTellsError` | `CompleteMeansStopped`, `EarlyFailureRaised`, `ContextNeverHidesError` |
| | `CompletesOnce` | `CompletedOnce` of `NexusWorker` |
| `WorkflowWorkerProofs` | `CacheAgrees`, `EvictionTearsDown`, `RunEndsQuiet` | `CacheMatchesCore`, `EvictedTornDown`, `EndsQuiet` |
| | `InterruptsOwnThread`, `ExecutorUndisturbed`, `TimeoutAims` | `SandboxInterruptsOwn`, `IdleUnmarked`, the action property `HitsTheDeadlocked` of `DeadlockInterruption` |
| `OperationHandleProofs` | `ResolvesFind`, `CancellationsHeard` | `ResolvesFindHandle`, `CancelHeard` |
| `StreamPublisherProofs` | `Refinement` | `ImplementsLog`: the refinement of `StreamLog` |
| `StreamPublisherDelivery` | `NothingLostInSilence`, `ExitDelivers` | `NoSilentLoss`, `ClosedDelivered` |
| `StreamSubscriberProofs` | `YieldsTheLog`, `EndsWithTheStream` | `YieldsLog`; `EndsOnlyWithStream`, for clients with one subscription each |

**`ActivityWorkerProofs`.** The four theorems after `TypeInvariant` each rest on
the types and on one strengthening:
- `WaitInv`: an unfinished activity is in `_running_activities`, and from the
  moment the tasks are gathered the poll loop has ended. `WaitedForAll` alone
  is not inductive, as it says nothing before the wait returns.
- `FlushInv`: `done` is set before the flush, so no heartbeat task is created
  after the last one was awaited.
- `CancelInv`: `cancelled_by_request` implies the core's request with its
  details, and so does every outcome and completion "cancelled".
- `RecordInv`: several heartbeat tasks of an activity may be at work at once,
  and each takes the newest entry of the queue and throws the others away. That
  none is recorded twice needs where a heartbeat is: in the queue, or taken by
  exactly one task (`TakenOnce`), and recorded only by a task that has ended
  (`EndedFirst`).

`NextCases` and the frame lemmas say once which variables a group of actions
leaves alone; each `...Step` lemma then has one case per group.

**`SyncActivityProofs`.** What the worker keeps for a sync activity.
- `NeverStray` and the action property `ShieldsProtect`, from `RaiserInv`: a mark
  belongs to the activity on the thread, which is outside every shield block, as
  `_thread_id` is cleared under the lock that setting the exception takes.
- `Flushes`, from `FlushInv` and `OrderInv`. The marker that `unregister` puts is
  the last of its activity on the queue, and it is signalled only after all that
  was before it left the queue and the call for it ended. Heartbeats are in order
  wherever they are: those handed over before the one in the call, that before
  those on the queue.
- `ProcessorKeepsRunning`, from `RunsInv`, with the hypothesis `OneLoop`: on one
  loop an activity is added and its processor submitted before the next one is
  added. With two loops the property is false (section 5).

**`WorkerLifecycleProofs`.** One invariant for the three theorems, for any of
the sub-workers present, any callers of `shutdown()` and any number of
cancellations of `run()`:
- `PollInv` and `SequenceInv`: what each await of the shutdown sequence has
  already waited for, so that a cancellation between two of them cannot skip a
  sub-worker and still set the complete event.
- `ExceptionInv`: an early failure is in the exception from the moment the
  shutdown begins, also when the core has to be shut down after a cancellation.
- `ContextInv`: an error of `run()` has cancelled the block of `async with`,
  unless the block has ended or swallowed the cancellation.

`CompletesOnce` is about the Nexus worker, from `NexusInv`: a completion is on its
way exactly while the task sends it, or when a cancellation has ended the task
while the shielded call went on.

**`WorkflowWorkerProofs`.** One invariant for the three theorems, for any number
of runs, instances, threads and calls:
- `HandlerInv`: the handler of an activation, its job and the executor call it
  waits for belong together; while it activates or evicts, its run is cached.
- `CoreInv`: what the core holds as cached is in the cache at every moment of a
  handler, and not only between two of them as `CacheMatchesCore` says.
- `InstanceInv`, `EvictCallInv`, `ReturnedInv`: every instance but the cached one
  is torn down; the call an eviction waits for is an eviction of the cached
  instance, even if earlier attempts timed out and their threads still run; and
  such a call has torn its instance down when it returns.
- `CountInv`: `_could_not_evict_count` is the number of evictions being retried.
- `AwaitedInv`: a queued call has a handler that waits for it, and so has one at
  work, unless its handler gave it up. With `QuietInv` (from the moment `run()`
  drains there is no handler, and no call in the worker's own executor) this is
  what makes `EndsQuiet` hold of a user's executor, whose threads nobody waits
  for.

A completion that is lost leaves core and cache as they are, which is why
`CoreInv` speaks of the job and not only of the handler.

The interruption of deadlocked activations is a module of its own
(`DeadlockInterruption`, with hypothesis `Apart`: sandboxed runs are runs, and
`None` is neither a run nor a thread, as its assumption says).
`InterruptsOwnThread` and `ExecutorUndisturbed` follow from `InterruptInv`:
activations have threads of their own, a sandboxed instance holds a thread id
only while it is on that thread, what the handler has read is current as long as
it holds the lock, and so is the mark. `TimeoutAims`, for sandboxed and
unsandboxed runs, follows from `ReadyInv`: an activation in workflow code has its
flag set, and its instance the id of its thread.

**`OperationHandleProofs`.** For any operations of the six kinds, any sequence
numbers and cancellations, in the modes of new and old histories.
- `ResolvesFind`, from `HandleInv`: a number belongs to one operation
  (`SeqUnique`), what the core has open is listed under it (`Listed`), and the
  future that the next job resolves is pending (`PendingWaits`), also across the
  backoff of a local activity, when the operation has no number that was
  scheduled (`Unscheduled`). What was resolved is not pending any more
  (`Resolved`), so that a second resolution of a Nexus operation finds nothing.
- `CancellationsHeard`, from `HeardInv`: a cancellation that nothing has answered
  is pending in a wait that has not ended, or was swallowed by one of the modes
  that may do so.

**`StreamPublisherProofs`.**
`Refinement`: `StreamPublisher` implements `StreamLog`, for any number of
publishers, items, callers of `flush()`, ticks and signals in the inbox, under
`ConstantsAssumption` (`MaxRetryDuration + MaxDelay < PublisherTTL`, the only
assumption that is not about types). That the log takes items in order says
nothing of the signals still on their way, so the theorem rests on `IInv`:
- `LockInv`: one caller sends, and what it sends is the pending batch.
- `MessageInv` and `PendingInv`, of each signal that is not handled and of the
  pending batch: with a higher number than the last batch appended it has only
  later items; otherwise the deduplication table still knows it, as long as the
  signal may arrive or the batch be sent again.
- `Ordered`: of two signals of a publisher the one with the higher number has
  later items.
- `Timely`: how old a signal on its way may be. `ContinueInv` needs it: an entry
  that expires is older than every such signal and every retry.

`StepRefines` maps each step: `Publish` to `Publish`, `Handle` of a batch that
the table does not know to `Deliver`, all others to a stutter.

**`StreamPublisherDelivery`.** `NothingLostInSilence` and `ExitDelivers`, from
`IInv`, `DeliveryInv` and `ClosedInv`. `NoSilentLoss` is not inductive: it counts
an item as delivered when a signal with it is in the inbox, but the handling of
that signal may drop it, as a duplicate of a batch that was appended or as older
than one that overtook it. `Secure` says when neither can happen: the item is in
the log, or in a signal that is appended when its turn comes (`WillAppend`:
nothing as late was appended, and nothing as late of its publisher is before it
in the inbox). An item is secure from the moment a signal of its batch is taken
by the server (`reached`) until the end, whatever is sent, repeated or lost
afterwards; a batch that is not pending any more was taken or given up.
`ClosedInv` adds that `__aexit__` returns only with an empty buffer and no
pending batch, and that this is final.

**`StreamSubscriberProofs`.** For any subscriptions, topics, start offsets, items
and runs.
- `YieldsTheLog`, from `YieldInv`. The log is what is left of all that was
  appended (`LogInv`). For each subscription, what lies behind its offset or an
  item it has yielded is settled: yielded, of another topic, or truncated
  (`Covered`). An answer that has arrived, or of which some items are yielded,
  holds all that is not settled between the offset and the next one (`Paged`),
  and a poll is told of a truncation only when its offset is gone (`Truncated`).
  `YieldsLog` alone says nothing of an answer on its way.
- `EndsWithTheStream`, from `EndInv`, with the hypothesis `OwnClient`: the
  polled run of the client is one that this subscription has polled (`Polled`),
  and each place from which `subscribe` can return is reached only when that run
  has been followed or the chain has ended (`Leaves`). With two subscriptions of
  one client the property is false (section 5).

Only model-checked:
- The liveness properties (`SyncActivitiesEnd`, `UnregisterEnds`, `ShutdownEnds`,
  `ActivationsAnswered`, `TasksAnswered`, `HandlesEnd`, `ExitEnds`, `ReadsOn`,
  `EndsWithLastRun`): TLAPS cannot reason about fairness.
- `WorkflowInstance`: an activation folds its jobs over the record `wf`, and what
  such a fold computes for every sequence of jobs takes an induction over data.

## 5. Where the code departs from its own words

One departure is a run that ends in a counterexample, `handle_cancel_request`;
`findings` in `PROJECT.json` quotes the lines. A workflow that stops waiting for
the answer to a cancel request (`asyncio.wait_for` around `handle.cancel()` is
enough) leaves a cancelled future among the pending ones, and the answer then
fails the activation, and every replay of it.

Others are predicates of the modules that no run lists. Each states what a
comment or a document says, and does not hold of the specification. To see the
counterexample, put it as an `INVARIANT` (`ThrownAfterLastShield`, an action
property, and `EndsWithStream`, as a `PROPERTY`) into the cfg of its module's
run. `DeadlockedHadStarted` takes two runs and one thread.

| Predicate | Says | What happens |
|---|---|---|
| `ActivityWorker!WaitAllNeverRaises` | `_activity.py:195` "This will not raise an exception" | A cancel task that arrives while a failure is encoded ends the task with a CancelledError, which `gather` raises. |
| `ActivityWorker!ShutdownVisible` | `activity.py:411` "True if shutdown has been called on the worker" | The first activity, started after `notify_shutdown`, creates a fresh event. |
| `ActivityWorker!CancelReachesActivity` | `src/README.md:1526` "the worker will perform cancellation of all outstanding activities" | After a failed poll loop the drain answers a cancel task and does not cancel. |
| `ActivityWorker!HeartbeatsFinishFirst` | `_activity.py:475` "let the currently running heartbeat task finish" | Of two heartbeat tasks only the newer is awaited. |
| `ThreadExceptionRaiser!CancellationThrown` | `src/README.md:1444` "thrown into the activity thread" | A cancellation before the thread is known is kept and not thrown. |
| `ThreadExceptionRaiser!ThrownAfterLastShield` | `src/README.md:1449` "it will throw the cancellation if there was one" | An exception raised at the entry of a shield leaves the depth at one. |
| `WorkerLifecycle!RaisesFatalError` | `_worker.py:791` "will raise if there is a worker fatal error" | A poll loop that fails after the shutdown began is not reported. |
| `WorkerLifecycle!ContextRaisesFatalError` | `_worker.py:961` "this will raise the worker fatal error if one occurred" | The block ends on its own while `run()` fails: `__aexit__` raises CancelledError. |
| `WorkflowWorker!OneEvictionThread` | `_workflow.py:584` "We only create the eviction task if we haven't already or it is done" | The timed-out future is done, the thread is not. |
| `WorkflowWorker!DeadlockedHadStarted` | `_workflow.py:799` "workflow didn't yield within" | A queued activation times out before it has started. |
| `WorkflowWorker!EvictsAfterDeadlock` | `_workflow.py:552` "We have to wait on the deadlocked task if it is set" | The eviction after a deadlock awaits a future that `wait_for` has cancelled, so it does not wait for the thread. |
| `DeadlockInterruption!InterruptsOwn` | `_workflow.py:426` "we want to try to interrupt the thread" | The interruption of an unsandboxed workflow may strike the thread of its previous activation. |
| `NexusWorker!NotDroppedOnCancel` | `_nexus.py:224` "Task completion should never be dropped in case of cancellation" | A cancellation while a failure is encoded drops the completion. |
| `NexusWorker!CompletionsFinished` | `_worker.py:896` "Let all activity / nexus operations completions finish" | A cancelled task leaves its shielded completion untracked. |
| `NexusWorker!DrainNamesTask` | `_nexus.py:206` "Take all tasks and say we can't handle them" | A cancel_task has no task token. |
| `OperationHandle!CancelsScheduled` | `_workflow_instance.py:3259` "the async function won't run to trap the cancel" | Cancelling a local activity that backs off sends a cancel command for a number that was never scheduled. |
| `OperationHandle!EvictionClean` | `_workflow_instance.py:549` "If we're deleting, there better be no more tasks" | The task of a Nexus operation is not registered (3590): an eviction neither cancels it nor sees it. |
| `WorkflowInstance!CaughtCancelKeepsGoing` | `_workflow_instance.py:1894` "Only detect a new request so workflows can catch cancellation and keep going" | A handler's wait that began before the cancellation and ends after the run method has caught it raises CancelledError, which cancels the workflow. |
| `StreamSubscriber!EndsWithStream` | `_client.py:585` "subscribe exits cleanly on terminal status" | When the last run ends before a poll reaches it, the polled run is one that has continued as new: `subscribe` polls for ever. |

Two departures are excluded by name in a liveness property: `ShutdownEnds`
(`shutdown()` never returns after a failed `validate()`, or when a
CancelledError leaves the shutdown sequence) and `UnregisterEnds` (a heartbeat
call that raises ends the processor, and unregistering never returns). With two
event loops (`Loops`, `LoopOf`) `SharedHeartbeats!ProcessorRuns` fails: two
registrations can both see two entries, and neither starts the processor. With
two subscriptions of one client (`ClientOf`) `StreamSubscriber!EndsOnlyWithStream`
fails: they share `_polled_run_id`, and one ends, though the stream goes on,
when the other has polled the next run before it looks.

Some properties name a case that the code leaves open. `EndsQuiet`: after
`run()` a thread of a user's executor may still be in a workflow, in a call that
timed out. `ActivationsAnswered` and `TasksAnswered`: a completion that cannot
be sent is only logged, though a comment says "this is supposed to crash the
worker" (`_workflow.py:530`), and the shutdown then waits for a run that the
core never gives back. `CancelRaised`: without the flag for a single batch, a
cancellation in the activation that starts the workflow is lost if it comes
first. `CancelledOnlyOnRequest` has one direction: a heartbeat that fails after
a cancel request turns the completion into a failure.

In the models of the streams six things can be seen that no property excludes.
The flusher ends with the first signal that fails (`Raised`) while publishing
goes on into the buffer, and leaving the
context then raises and flushes nothing (`Exit`), although its comment says
"flush any remaining buffered entries" (`_client.py:227`). Before Python 3.12
`publish(force_flush=True)` followed by the end of the context may leave
`__aexit__` waiting for a flusher that swallowed its cancellation (`CancelLost`):
it goes on until a flush fails. Coroutines that never stop publishing keep the
loop of `__aexit__` busy; `MaxItems` bounds what they publish. A describe that fails
ends a subscription as if the stream had ended (`DescribeFails`). Of two
coroutines in `flush()` only one is told of a batch that is given up; the other
finds nothing pending and returns (`DropPending`, `LeaveLoop`). A subscription
with a `from_offset` past the end of the log, whose poll is woken by
`detach_pollers`, is answered with the end of the log as the next offset
(`_stream.py:442`), and may then yield items from before its `from_offset`.

## 6. Not modelled

Most of the 108,883 lines under `src/` are generated: protobuf modules
(`api`, `bridge/proto`), RPC stubs and payload visitors. Much of the rest is
docstrings, overloads, value types and wrappers that forward a call. The models
cover the code that keeps protocol state across awaits, threads or messages;
what is left of the repository has none that TLC could reach, with the
exceptions named here.

- Of the workflow instance: patches, random seeds, memo and search attributes,
  current details, stack traces and the warning about unfinished handlers. They
  are read and written within one step and take part in no order of events,
  except patches, whose answers the core determines.
- The types bound to topics of a stream, and `get_offset`, a query. A stream
  client made from a bare handle has no `Client`: it never follows a
  continue-as-new (`_client.py:636`), and `subscribe` then ends with the run;
  `StreamSubscriber` is about clients made by `create()`. A batch without a
  publisher id (`_stream.py:382`) is never deduplicated; the client always sends
  one, so `OnPublish` has no such batch.
- `SharedHeartbeats` has the default `queue_poller_executor`, with one thread.
  `create_from_multiprocessing` accepts an executor with more, on which a new
  processor may run beside one that is about to stop.
- The registration of activities, which is validated before the worker runs.
- The replayer feeds histories to a workflow worker one at a time. The client's
  loops keep a page token and a run id between calls. The time-skipping lock of
  the test environment is kept by the server.
- The inline activation of `debug_mode`, and `disable_safe_eviction`.
- Converters, codecs and external storage are functions without state; where
  they are awaited the models let them fail.
- The core, the server and CPython: only what the code relies on, as the
  environment of each module (`external` in the map).
- Interceptors and plugins: they wrap calls and are part of "user code".
- Generated protocol code, the Rust bridge, the integrations under `contrib`,
  and the API wrappers of `workflow`, `activity`, `nexus` and `client`.

## 7. Plan

1. Proofs of the invariants of `WorkflowInstance`.
2. Abstract specifications for the workers: "each task is completed exactly
   once" for the activity and Nexus workers, "at most one thread in an
   instance" for the workflow worker.
3. The replayer, and the loops of the client that poll for results.
