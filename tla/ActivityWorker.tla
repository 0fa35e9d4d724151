--------------------------- MODULE ActivityWorker ---------------------------
(***************************************************************************)
(* _ActivityWorker of temporalio/worker/_activity.py: the loop that polls  *)
(* the core for activity tasks, the asyncio task that runs each activity   *)
(* (_handle_start_activity_task), the tasks that record its heartbeats     *)
(* (_heartbeat_async), and the part of Worker._run that shuts it down.     *)
(*                                                                         *)
(* All of these run on one event loop, so a step of the model is what runs *)
(* between two awaits.  An asyncio cancellation is requested in one step   *)
(* and raised in a later one, when the cancelled task resumes.             *)
(***************************************************************************)
EXTENDS Naturals, Sequences, FiniteSets

CONSTANTS
  Tokens,         \* the task tokens the core hands out, one per attempt
  Threaded,       \* is the activity executor a ThreadPoolExecutor?
  CancelDetails,  \* the cancellation details a cancel task may carry
  MaxHeartbeats,  \* bound: heartbeat() calls one activity makes
  QueueSize       \* capacity of pending_heartbeats (1000 in the code)

\* The flags of ActivityCancellationDetails.
Flags == {"cancelled", "shutdown", "paused", "reset", "timed_out", "not_found"}

ASSUME ConstantsAssumption ==
  /\ Threaded \in BOOLEAN
  /\ CancelDetails \subseteq SUBSET Flags
  /\ MaxHeartbeats \in Nat
  /\ QueueSize \in Nat \ {0}

VARIABLES
  run,        \* _ActivityWorker.run() or, later, drain_poll_queue()
  shutdown,   \* has Worker._run initiated the shutdown of the core worker?
  waiting,    \* wait_all_completed(): "no", "waiting", "returned" or "raised"
  gathered,   \* the tokens whose tasks wait_all_completed() gathers
  running,    \* the keys of _running_activities
  task,       \* where the asyncio task of each activity is
  sync,       \* the tokens whose _RunningActivity has sync set,
  done,       \*   those with done set,
  byRequest,  \*   with cancelled_by_request set,
  hbError,    \*   and with a cancelled_due_to_heartbeat_error
  event,      \* cancelled_event of each activity
  details,    \* cancellation_details of each activity
  err,        \* the exception the handler of the task deals with
  outcome,    \* the result put in the completion
  toCancel,   \* the tokens whose task has an asyncio cancellation to raise
  calls,      \* heartbeat() calls made but not yet run on the event loop
  pending,    \* pending_heartbeats: the heartbeats queued, by number
  hb,         \* the heartbeat tasks of each activity, in creation order
  taken,      \* the heartbeat each of them took off the queue (0: none)
  recorded,   \* the heartbeats passed to the core, in that order
  core,       \* the core's side: what it has handed out for the token
  sent,       \* the completions the core received for the token
  failQueue,  \* is an error in _fail_worker_exception_queue?
  shutEvent,  \* the thread event of _worker_shutdown_event
  seenSync    \* _seen_sync_activity

hbVars == <<calls, pending, hb, taken, recorded>>
cancelVars == <<byRequest, hbError, event, details, toCancel>>
taskVars == <<running, task, sync, done, err, outcome, cancelVars>>
workerVars == <<run, shutdown, waiting, gathered, failQueue>>
vars == <<workerVars, taskVars, hbVars, core, sent, shutEvent, seenSync>>

Phases == {"none", "created", "decoding", "running", "encoding", "handling",
           "flushing", "completing", "ended", "dead"}
Errors == {"none", "error", "cancel", "broken"}
Outcomes == {"none", "completed", "willCompleteAsync", "cancelled", "failed",
             "heartbeatFailure", "pauseFailure", "resetFailure"}
HbTask == {"new", "encoding", "ended"}

\* A task whose coroutine has started and not finished.
Alive(t) == task[t] \notin {"none", "created", "ended", "dead"}

Init ==
  /\ run = "polling"
  /\ shutdown = FALSE
  /\ waiting = "no"
  /\ gathered = {}
  /\ running = {}
  /\ task = [t \in Tokens |-> "none"]
  /\ sync = {}
  /\ done = {}
  /\ byRequest = {}
  /\ hbError = {}
  /\ event = [t \in Tokens |-> "none"]
  /\ details = [t \in Tokens |-> {}]
  /\ err = [t \in Tokens |-> "none"]
  /\ outcome = [t \in Tokens |-> "none"]
  /\ toCancel = {}
  /\ calls = [t \in Tokens |-> 0]
  /\ pending = [t \in Tokens |-> <<>>]
  /\ hb = [t \in Tokens |-> <<>>]
  /\ taken = [t \in Tokens |-> <<>>]
  /\ recorded = [t \in Tokens |-> <<>>]
  /\ core = [t \in Tokens |-> "none"]
  /\ sent = [t \in Tokens |-> <<>>]
  /\ failQueue = FALSE
  /\ shutEvent = "none"
  /\ seenSync = FALSE

-----------------------------------------------------------------------------
(***************************************************************************)
(* The poll loop.                                                          *)
(***************************************************************************)

\* The poll returns a start task: run() creates the activity and its task.
PollStart(t) ==
  /\ run = "polling"
  /\ core[t] = "none"
  /\ core' = [core EXCEPT ![t] = "started"]
  /\ task' = [task EXCEPT ![t] = "created"]
  /\ running' = running \cup {t}
  /\ UNCHANGED <<workerVars, sync, done, err, outcome, cancelVars, hbVars, sent,
                 shutEvent, seenSync>>

\* (mutant) Cancels the asyncio task of a sync activity as well.
CancelSyncTaskToo(t, byReq, hbErr) ==
  /\ byRequest' = IF byReq THEN byRequest \cup {t} ELSE byRequest \ {t}
  /\ hbError' = IF hbErr THEN hbError \cup {t} ELSE hbError \ {t}
  /\ event' = [event EXCEPT ![t] = IF @ = "none" THEN "none" ELSE "set"]
  /\ toCancel' = IF t \notin done /\ Alive(t) THEN toCancel \cup {t} ELSE toCancel

\* _RunningActivity.cancel: both causes are overwritten, the cancelled event
\* is set if it exists, and the task of an async activity is cancelled.
CancelRunning(t, byReq, hbErr) ==
  /\ byRequest' = IF byReq THEN byRequest \cup {t} ELSE byRequest \ {t}
  /\ hbError' = IF hbErr THEN hbError \cup {t} ELSE hbError \ {t}
  /\ event' = [event EXCEPT ![t] = IF @ = "none" THEN "none" ELSE "set"]
  /\ toCancel' = IF t \notin done \cup sync /\ Alive(t) THEN toCancel \cup {t}
                 ELSE toCancel

\* The poll returns a cancel task.  The core issues one cancel per attempt,
\* and none before the start task was returned by an earlier poll; the first
\* step of the activity's task precedes any later poll because the event loop
\* runs ready callbacks in order.
IssueCancel(t) ==
  /\ core[t] = "started"
  /\ task[t] # "created"
  /\ core' = [core EXCEPT ![t] = "cancelled"]

PollCancel(t) ==
  /\ run = "polling"
  /\ IssueCancel(t)
  /\ IF t \in running
     THEN \E d \in CancelDetails :
            /\ details' = [details EXCEPT ![t] = d]
            /\ CancelRunning(t, d \cap {"cancelled", "shutdown"} # {}, FALSE)
     ELSE UNCHANGED cancelVars
  /\ UNCHANGED <<workerVars, running, task, sync, done, err, outcome, hbVars,
                 sent, shutEvent, seenSync>>

\* The poll raises: run(), or drain_poll_queue(), fails.
PollError ==
  /\ run \in {"polling", "draining"}
  /\ run' = "raised"
  /\ UNCHANGED <<shutdown, waiting, gathered, failQueue, taskVars, hbVars,
                 core, sent, shutEvent, seenSync>>

\* A broken executor reported itself: run() cancels the poll and fails.  A
\* start task the poll had already returned is dropped with it.
RaiseFromExceptionQueue ==
  /\ run = "polling"
  /\ failQueue
  /\ run' = "raised"
  /\ failQueue' = FALSE
  /\ \/ UNCHANGED core
     \/ \E t \in Tokens : core[t] = "none" /\ core' = [core EXCEPT ![t] = "started"]
  /\ UNCHANGED <<shutdown, waiting, gathered, taskVars, hbVars, sent, shutEvent,
                 seenSync>>

\* The poll raises PollShutdownError: run() or drain_poll_queue() returns.
PollShutdown ==
  /\ run \in {"polling", "draining"}
  /\ shutdown
  /\ run' = "returned"
  /\ UNCHANGED <<shutdown, waiting, gathered, failQueue, taskVars, hbVars, core,
                 sent, shutEvent, seenSync>>

\* drain_poll_queue: every task polled, a start or a cancel, is completed as
\* failed ("Worker shutting down").  If that fails, so does drain_poll_queue().
DrainTask(t) ==
  /\ run = "draining"
  /\ \/ core[t] = "none" /\ core' = [core EXCEPT ![t] = "started"]
     \/ IssueCancel(t)
  /\ \/ sent' = [sent EXCEPT ![t] = Append(@, "failed")] /\ UNCHANGED run
     \/ run' = "raised" /\ UNCHANGED sent
  /\ UNCHANGED <<shutdown, waiting, gathered, failQueue, taskVars, hbVars,
                 shutEvent, seenSync>>

-----------------------------------------------------------------------------
(***************************************************************************)
(* Worker._run, as far as it concerns this sub-worker.                     *)
(***************************************************************************)

\* Initiate the shutdown, replace a failed run() by drain_poll_queue(), and
\* notify_shutdown(), with no await in between.
Shutdown ==
  /\ ~shutdown
  /\ shutdown' = TRUE
  /\ run' = IF run = "raised" THEN "draining" ELSE run
  /\ shutEvent' = IF shutEvent = "none" THEN "none" ELSE "set"
  /\ UNCHANGED <<waiting, gathered, failQueue, taskVars, hbVars, core, sent,
                 seenSync>>

\* (mutant) Gathers without waiting for the poll loop to end.
WaitWhilePolling ==
  /\ shutdown
  /\ waiting = "no"
  /\ waiting' = "waiting"
  /\ gathered' = running
  /\ UNCHANGED <<run, shutdown, failQueue, taskVars, hbVars, core, sent,
                 shutEvent, seenSync>>

\* The loops have ended: gather what is in _running_activities.
WaitAllCompleted ==
  /\ shutdown
  /\ run \in {"returned", "raised"}
  /\ waiting = "no"
  /\ waiting' = "waiting"
  /\ gathered' = running
  /\ UNCHANGED <<run, shutdown, failQueue, taskVars, hbVars, core, sent,
                 shutEvent, seenSync>>

\* gather(return_exceptions=False) raises as soon as a task was cancelled and
\* returns once all are done.
GatherDone ==
  /\ waiting = "waiting"
  /\ \/ /\ \E t \in gathered : task[t] = "dead"
        /\ waiting' = "raised"
     \/ /\ \A t \in gathered : task[t] = "ended"
        /\ waiting' = "returned"
  /\ UNCHANGED <<run, shutdown, gathered, failQueue, taskVars, hbVars, core,
                 sent, shutEvent, seenSync>>

-----------------------------------------------------------------------------
(***************************************************************************)
(* The task of one activity: _handle_start_activity_task.                  *)
(***************************************************************************)

\* (mutant) Reports any CancelledError as a cancellation.
ResultIgnoringRequest(t, e) ==
  IF e # "cancel" THEN "failed"
  ELSE IF t \in hbError THEN "heartbeatFailure"
  ELSE "cancelled"

\* Which result the handler of an exception builds.
ResultFor(t, e) ==
  IF e # "cancel" THEN "failed"
  ELSE IF t \in hbError THEN "heartbeatFailure"
  ELSE IF "paused" \in details[t] THEN "pauseFailure"
  ELSE IF "reset" \in details[t] THEN "resetFailure"
  ELSE IF t \in byRequest THEN "cancelled"
  ELSE "failed"

\* Enter the exception handler: it picks the result and awaits encode_failure.
Handle(t, e) ==
  /\ task' = [task EXCEPT ![t] = "handling"]
  /\ err' = [err EXCEPT ![t] = e]
  /\ outcome' = [outcome EXCEPT ![t] = ResultFor(t, e)]

\* Mark the activity done and await its last heartbeat task.
Finish(t, o) ==
  /\ task' = [task EXCEPT ![t] = "flushing"]
  /\ outcome' = [outcome EXCEPT ![t] = o]
  /\ done' = done \cup {t}

\* First step: look the activity up, create the shutdown event if there is
\* none, set the sync flag and the cancelled event, start decoding arguments.
\* The function is a plain def, a sync activity, or a coroutine function.  The
\* first sync activity of a process executor replaces the thread event.
Begin(t) ==
  /\ task[t] = "created"
  /\ \/ /\ Handle(t, "error")                       \* not registered
        /\ UNCHANGED <<sync, event, shutEvent, seenSync>>
     \/ /\ task' = [task EXCEPT ![t] = "decoding"]
        /\ \E isSync \in BOOLEAN :
             /\ sync' = IF isSync THEN sync \cup {t} ELSE sync
             /\ shutEvent' =
                  IF shutEvent = "none" \/ (isSync /\ ~Threaded /\ ~seenSync)
                  THEN "unset" ELSE shutEvent
             /\ seenSync' = (seenSync \/ isSync)
        /\ event' = [event EXCEPT ![t] = "unset"]
        /\ UNCHANGED <<err, outcome>>
  /\ UNCHANGED <<workerVars, running, done, byRequest, hbError, details, toCancel,
                 hbVars, core, sent>>

\* The arguments and heartbeat details are decoded, or cannot be.
Decode(t) ==
  /\ task[t] = "decoding"
  /\ t \notin toCancel
  /\ \/ /\ task' = [task EXCEPT ![t] = "running"]
        /\ UNCHANGED <<err, outcome>>
     \/ Handle(t, "error")
  /\ UNCHANGED <<workerVars, running, sync, done, cancelVars, hbVars, core, sent,
                 shutEvent, seenSync>>

\* The activity function returns: encode its result.
Return(t) ==
  /\ task[t] = "running"
  /\ t \notin toCancel
  /\ task' = [task EXCEPT ![t] = "encoding"]
  /\ UNCHANGED <<workerVars, running, sync, done, err, outcome, cancelVars, hbVars,
                 core, sent, shutEvent, seenSync>>

\* The activity function raises: an error of its own, CancelledError (the one
\* thrown into its thread, or its own), or a broken executor.
Raise(t, e) ==
  /\ task[t] = "running"
  /\ t \notin toCancel
  /\ e = "broken" => t \in sync
  /\ Handle(t, e)
  /\ UNCHANGED <<workerVars, running, sync, done, cancelVars, hbVars, core, sent,
                 shutEvent, seenSync>>

\* The activity function calls raise_complete_async().
RaiseCompleteAsync(t) ==
  /\ task[t] = "running"
  /\ t \notin toCancel
  /\ Finish(t, "willCompleteAsync")
  /\ UNCHANGED <<workerVars, running, sync, err, cancelVars, hbVars, core, sent,
                 shutEvent, seenSync>>

Encode(t) ==
  /\ task[t] = "encoding"
  /\ t \notin toCancel
  /\ \/ Finish(t, "completed") /\ UNCHANGED err
     \/ Handle(t, "error") /\ UNCHANGED done
  /\ UNCHANGED <<workerVars, running, sync, cancelVars, hbVars, core, sent,
                 shutEvent, seenSync>>

\* encode_failure returns, or raises an Exception that the inner handler turns
\* into a plain failure.
EncodeFailure(t) ==
  /\ task[t] = "handling"
  /\ t \notin toCancel
  /\ \/ /\ Finish(t, outcome[t])
        /\ failQueue' = (failQueue \/ err[t] = "broken")
     \/ /\ Finish(t, "failed")
        /\ UNCHANGED failQueue
  /\ UNCHANGED <<run, shutdown, waiting, gathered, running, sync, err, cancelVars,
                 hbVars, core, sent, shutEvent, seenSync>>

\* asyncio raises CancelledError in the task at the await it is suspended at.
\* The activity function may swallow it.  Inside the exception handler nothing
\* catches it (the inner handler catches Exception only): the task ends there.
RaiseCancelled(t) ==
  /\ Alive(t)
  /\ t \in toCancel
  /\ toCancel' = toCancel \ {t}
  /\ \/ /\ task[t] \in {"decoding", "running", "encoding"}
        /\ Handle(t, "cancel")
     \/ /\ task[t] = "running"
        /\ UNCHANGED <<task, err, outcome>>
     \/ /\ task[t] = "handling"
        /\ task' = [task EXCEPT ![t] = "dead"]
        /\ UNCHANGED <<err, outcome>>
  /\ UNCHANGED <<workerVars, running, sync, done, byRequest, hbError, event,
                 details, hbVars, core, sent, shutEvent, seenSync>>

LastHeartbeatEnded(t) ==
  \A k \in DOMAIN hb[t] : k = Len(hb[t]) => hb[t][k] = "ended"

\* The last heartbeat task has ended: send the completion.
Flushed(t) ==
  /\ task[t] = "flushing"
  /\ LastHeartbeatEnded(t)
  /\ task' = [task EXCEPT ![t] = "completing"]
  /\ UNCHANGED <<workerVars, running, sync, done, err, outcome, cancelVars, hbVars,
                 core, sent, shutEvent, seenSync>>

\* complete_activity_task returns and the activity is removed, or it raises:
\* then the error is logged and the activity stays in _running_activities.
Complete(t) ==
  /\ task[t] = "completing"
  /\ task' = [task EXCEPT ![t] = "ended"]
  /\ \/ /\ sent' = [sent EXCEPT ![t] = Append(@, outcome[t])]
        /\ running' = running \ {t}
     \/ UNCHANGED <<sent, running>>
  /\ UNCHANGED <<workerVars, sync, done, err, outcome, cancelVars, hbVars, core,
                 shutEvent, seenSync>>

-----------------------------------------------------------------------------
(***************************************************************************)
(* Heartbeats.                                                             *)
(***************************************************************************)

\* The heartbeat the next call carries: calls are numbered from 1.
Made(t) == Len(hb[t]) + calls[t]

\* A sync activity calls heartbeat() from its thread: the call is handed to
\* the event loop, and the thread waits at most 10 seconds for it.
CallHeartbeat(t) ==
  /\ task[t] = "running"
  /\ t \in sync
  /\ Made(t) < MaxHeartbeats
  /\ calls' = [calls EXCEPT ![t] = @ + 1]
  /\ UNCHANGED <<workerVars, taskVars, pending, hb, taken, recorded, core, sent,
                 shutEvent, seenSync>>

\* _heartbeat: queue the details and create a task, unless the activity is
\* done or gone.  A full queue raises QueueFull to the caller instead.
QueueHeartbeat(t) ==
  /\ pending' = [pending EXCEPT ![t] = Append(@, Len(hb[t]) + 1)]
  /\ hb' = [hb EXCEPT ![t] = Append(@, "new")]
  /\ taken' = [taken EXCEPT ![t] = Append(@, 0)]

\* (mutant) Forgets that the activity may be done.
HeartbeatWhenDone(t) ==
  IF t \in running /\ Len(pending[t]) < QueueSize
  THEN QueueHeartbeat(t)
  ELSE UNCHANGED <<pending, hb, taken>>

Heartbeat(t) ==
  IF t \in running /\ t \notin done /\ Len(pending[t]) < QueueSize
  THEN QueueHeartbeat(t)
  ELSE UNCHANGED <<pending, hb, taken>>

\* The call of a sync activity runs on the loop, however late.
RunHeartbeatCall(t) ==
  /\ calls[t] > 0
  /\ calls' = [calls EXCEPT ![t] = @ - 1]
  /\ Heartbeat(t)
  /\ UNCHANGED <<workerVars, taskVars, recorded, core, sent, shutEvent, seenSync>>

\* An async activity calls heartbeat() on the loop; put_nowait raises QueueFull
\* into it when the queue is full.
AsyncHeartbeat(t) ==
  /\ task[t] = "running"
  /\ t \notin sync
  /\ t \notin toCancel
  /\ Made(t) < MaxHeartbeats
  /\ \/ /\ Len(pending[t]) < QueueSize
        /\ Heartbeat(t)
        /\ UNCHANGED <<task, err, outcome>>
     \/ /\ Len(pending[t]) = QueueSize
        /\ Handle(t, "error")
        /\ UNCHANGED <<pending, hb, taken>>
  /\ UNCHANGED <<workerVars, running, sync, done, cancelVars, calls, recorded, core,
                 sent, shutEvent, seenSync>>

\* (mutant) Reads the last of the queued details but leaves them queued.
PeekHeartbeats(t, k) ==
  /\ k \in DOMAIN hb[t]
  /\ hb[t][k] = "new"
  /\ IF pending[t] = <<>>
     THEN hb' = [hb EXCEPT ![t][k] = "ended"] /\ UNCHANGED taken
     ELSE /\ hb' = [hb EXCEPT ![t][k] = "encoding"]
          /\ taken' = [taken EXCEPT ![t][k] = pending[t][Len(pending[t])]]
  /\ UNCHANGED <<workerVars, taskVars, pending, calls, recorded, core, sent,
                 shutEvent, seenSync>>

\* First step of _heartbeat_async: take the last of the queued details, if any.
\* Tasks start in the order in which they were created.
DrainHeartbeats(t, k) ==
  /\ k \in DOMAIN hb[t]
  /\ hb[t][k] = "new"
  /\ \A j \in 1..(k - 1) : hb[t][j] # "new"
  /\ IF pending[t] = <<>>
     THEN hb' = [hb EXCEPT ![t][k] = "ended"] /\ UNCHANGED taken
     ELSE /\ hb' = [hb EXCEPT ![t][k] = "encoding"]
          /\ taken' = [taken EXCEPT ![t][k] = pending[t][Len(pending[t])]]
  /\ pending' = [pending EXCEPT ![t] = <<>>]
  /\ UNCHANGED <<workerVars, taskVars, calls, recorded, core, sent, shutEvent,
                 seenSync>>

\* The details are encoded and recorded with the core; or this fails, which
\* cancels an activity that is not done.
RecordHeartbeat(t, k) ==
  /\ k \in DOMAIN hb[t]
  /\ hb[t][k] = "encoding"
  /\ hb' = [hb EXCEPT ![t][k] = "ended"]
  /\ \/ /\ recorded' = [recorded EXCEPT ![t] = Append(@, taken[t][k])]
        /\ UNCHANGED cancelVars
     \/ /\ UNCHANGED recorded
        /\ IF t \in done THEN UNCHANGED cancelVars
           ELSE CancelRunning(t, FALSE, TRUE) /\ UNCHANGED details
  /\ UNCHANGED <<workerVars, running, task, sync, done, err, outcome, calls,
                 pending, taken, core, sent, shutEvent, seenSync>>

-----------------------------------------------------------------------------
\* The steps of the activity's task that do not wait for the activity function.
TaskStep(t) ==
  \/ Begin(t) \/ Decode(t) \/ Encode(t) \/ EncodeFailure(t) \/ RaiseCancelled(t)
  \/ Flushed(t) \/ Complete(t)

\* What the activity function does.
UserStep(t) ==
  \/ Return(t)
  \/ \E e \in Errors \ {"none"} : Raise(t, e)
  \/ RaiseCompleteAsync(t)

HeartbeatStep(t) ==
  \/ RunHeartbeatCall(t)
  \/ \E k \in 1..MaxHeartbeats : DrainHeartbeats(t, k) \/ RecordHeartbeat(t, k)

WorkerStep ==
  \/ PollError \/ RaiseFromExceptionQueue \/ PollShutdown
  \/ Shutdown \/ WaitAllCompleted \/ GatherDone

Next ==
  \/ \E t \in Tokens :
       \/ PollStart(t) \/ PollCancel(t) \/ DrainTask(t)
       \/ CallHeartbeat(t) \/ AsyncHeartbeat(t)
       \/ TaskStep(t) \/ UserStep(t) \/ HeartbeatStep(t)
  \/ WorkerStep

Spec == Init /\ [][Next]_vars

\* The event loop runs every ready callback, and the activity function ends
\* (README.md: "if a long-running activity does not at least respect
\* cancellation, the shutdown may never complete").  Nothing is assumed of the
\* core, of the calls it makes or of the shutdown.
FairSpec ==
  /\ Spec
  /\ \A t \in Tokens :
       WF_vars(TaskStep(t)) /\ WF_vars(UserStep(t)) /\ WF_vars(HeartbeatStep(t))

-----------------------------------------------------------------------------
(***************************************************************************)
(* Properties.                                                             *)
(***************************************************************************)

WorkerTypes ==
  /\ run \in {"polling", "raised", "draining", "returned"}
  /\ shutdown \in BOOLEAN
  /\ waiting \in {"no", "waiting", "returned", "raised"}
  /\ gathered \subseteq Tokens
  /\ failQueue \in BOOLEAN
  /\ shutEvent \in {"none", "unset", "set"}
  /\ seenSync \in BOOLEAN

TaskTypes ==
  /\ running \subseteq Tokens
  /\ task \in [Tokens -> Phases]
  /\ sync \subseteq Tokens
  /\ done \subseteq Tokens
  /\ err \in [Tokens -> Errors]
  /\ outcome \in [Tokens -> Outcomes]
  /\ byRequest \subseteq Tokens
  /\ hbError \subseteq Tokens
  /\ event \in [Tokens -> {"none", "unset", "set"}]
  /\ details \in [Tokens -> SUBSET Flags]
  /\ toCancel \subseteq Tokens

HeartbeatTypes ==
  /\ calls \in [Tokens -> Nat]
  /\ pending \in [Tokens -> Seq(Nat)]
  /\ \A t \in Tokens : Len(pending[t]) <= QueueSize
  /\ hb \in [Tokens -> Seq(HbTask)]
  /\ taken \in [Tokens -> Seq(Nat)]
  /\ \A t \in Tokens : Len(taken[t]) = Len(hb[t])
  /\ recorded \in [Tokens -> Seq(Nat)]

CoreTypes ==
  /\ core \in [Tokens -> {"none", "started", "cancelled"}]
  /\ sent \in [Tokens -> Seq(Outcomes)]

\* Types, with the bound that asyncio.Queue(1000) puts on pending_heartbeats.
TypeOK == WorkerTypes /\ TaskTypes /\ HeartbeatTypes /\ CoreTypes

\* The heartbeat task that _handle_start_activity_task waits for stays the last
\* one: when the completion is sent, the last heartbeat task has ended, however
\* late a heartbeat() call of the activity's thread reaches the event loop.
LastHeartbeatFlushed ==
  \A t \in Tokens :
    task[t] \in {"completing", "ended"} => LastHeartbeatEnded(t)

\* _heartbeat_async takes the details off the queue: no heartbeat() call is
\* recorded with the core twice.
RecordedOnce ==
  \A t \in Tokens : \A i, j \in DOMAIN recorded[t] :
    recorded[t][i] = recorded[t][j] => i = j

\* An attempt is completed as cancelled only when the core asked to cancel it
\* on request or for a worker shutdown, and never for a pause or a reset,
\* whatever cancellation a heartbeat failure adds before, between or after.
CancelledOnlyOnRequest ==
  \A t \in Tokens : \A i \in DOMAIN sent[t] :
    sent[t][i] = "cancelled" =>
      /\ core[t] = "cancelled"
      /\ details[t] \cap {"cancelled", "shutdown"} # {}
      /\ details[t] \cap {"paused", "reset"} = {}

\* When wait_all_completed() has returned, and so before Worker._run finalizes
\* the core worker, no activity is still running on the event loop.
WaitedForAll ==
  waiting = "returned" => \A t \in Tokens : ~Alive(t) /\ task[t] # "created"

\* A sync activity whose function ends is answered: its task reaches the end
\* of _handle_start_activity_task whatever cancellations arrive meanwhile.
SyncActivitiesEnd ==
  \A t \in Tokens :
    (task[t] = "decoding" /\ t \in sync) ~> (task[t] = "ended")

\* The comment on wait_all_completed(): "This will not raise an exception".
WaitAllNeverRaises == waiting # "raised"

\* activity.is_worker_shutdown(): "True if shutdown has been called on the
\* worker, False otherwise", for every activity that is executing.
ShutdownVisible ==
  \A t \in Tokens : shutdown /\ task[t] = "running" => shutEvent = "set"

\* README.md: once the graceful timeout has passed "the worker will perform
\* cancellation of all outstanding activities".  A cancel that the core issues
\* for a running activity sets the event behind activity.is_cancelled().
CancelReachesActivity ==
  \A t \in Tokens :
    core[t] = "cancelled" /\ task[t] = "running" => event[t] = "set"

\* "We mark the activity as done and let the currently running heartbeat task
\* finish": no heartbeat is being recorded once the completion was sent.
HeartbeatsFinishFirst ==
  \A t \in Tokens : \A k \in DOMAIN hb[t] :
    task[t] = "ended" => hb[t][k] # "encoding"

=============================================================================
