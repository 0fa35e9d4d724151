---------------------------- MODULE WorkerLifecycle ----------------------------
(***************************************************************************)
(* temporalio.worker.Worker: run(), shutdown() and `async with worker`.    *)
(*                                                                         *)
(* Everything here runs on one event loop, so a step is what happens       *)
(* between two awaits of one task: run() itself, the poll loop of each     *)
(* sub-worker, the callers of shutdown() and the task inside `async with`. *)
(* The sub-workers are modelled in their own modules; here a poll loop     *)
(* runs, fails, drains or ends, and may leave tasks running.               *)
(***************************************************************************)
EXTENDS Naturals

CONSTANTS
  Workers,          \* the sub-workers: "activity", "workflow", "nexus"
  Callers,          \* the tasks that call shutdown()
  HasFatalHandler,  \* is on_fatal_error given?
  MaxCancels        \* bound: how often the user cancels run()

Kinds == {"activity", "workflow", "nexus"}

ASSUME LifecycleAssumption ==
  /\ Workers \subseteq Kinds
  /\ HasFatalHandler \in BOOLEAN
  /\ MaxCancels \in Nat

VARIABLES
  phase,        \* the await at which _run() is
  poll,         \* the task of each sub-worker
  unfinished,   \* the sub-workers with tasks that have not completed
  exception,    \* the exception _run() will raise
  requested,    \* _shutdown_event
  complete,     \* _shutdown_complete_event
  coreStopped,  \* has initiate_shutdown been called?
  cancels,      \* how often run() was cancelled
  caller,       \* the callers of shutdown()
  ctx,          \* where the task of the `async with` block is
  ctxCancel,    \* has run() cancelled that task?
  ctxExc,       \* the exception that left the body
  ctxOut,       \* how the block ended
  swallowed,    \* did the body swallow the cancellation?
  early         \* the poll loops that failed before the shutdown began

ctxVars == <<ctx, ctxCancel, ctxExc, ctxOut, swallowed>>
pollVars == <<poll, unfinished, early>>
vars == <<phase, pollVars, exception, requested, complete, coreStopped,
          cancels, caller, ctxVars>>

Running == {"waiting", "handler", "draining", "waitActivity", "waitNexus", "finalizing"}
Ended == {"returned", "raised"}

\* A poll task that is done: it failed, or it returned, or its drain failed.
Stopped == {"failed", "ended", "undrained"}

Init ==
  /\ phase = "idle"
  /\ poll = [w \in Workers |-> "off"]
  /\ unfinished = {}
  /\ exception = "none"
  /\ requested = FALSE
  /\ complete = FALSE
  /\ coreStopped = FALSE
  /\ cancels = 0
  /\ caller = [c \in Callers |-> "idle"]
  /\ ctx = "none"
  /\ ctxCancel = FALSE
  /\ ctxExc = "none"
  /\ ctxOut = "none"
  /\ swallowed = FALSE
  /\ early = {}

-----------------------------------------------------------------------------
(***************************************************************************)
(* The poll loops.                                                         *)
(***************************************************************************)

\* A poll loop starts a task for what it polled.
TaskStarts(w) ==
  /\ poll[w] = "running"
  /\ unfinished' = unfinished \cup {w}
  /\ UNCHANGED <<phase, poll, early, exception, requested, complete,
                 coreStopped, cancels, caller, ctxVars>>

TaskEnds(w) ==
  /\ w \in unfinished
  /\ unfinished' = unfinished \ {w}
  /\ UNCHANGED <<phase, poll, early, exception, requested, complete,
                 coreStopped, cancels, caller, ctxVars>>

\* _WorkflowWorker.run waits for its tasks before it ends, the others do not.
MayEnd(w) == w = "workflow" => w \notin unfinished

\* The poll loop of a sub-worker raises.
PollFails(w) ==
  /\ poll[w] = "running"
  /\ MayEnd(w)
  /\ poll' = [poll EXCEPT ![w] = "failed"]
  /\ early' = IF coreStopped THEN early ELSE early \cup {w}
  /\ UNCHANGED <<phase, unfinished, exception, requested, complete,
                 coreStopped, cancels, caller, ctxVars>>

\* A poll of drain_poll_queue() raises, and that out of it.
DrainFails(w) ==
  /\ poll[w] = "draining"
  /\ poll' = [poll EXCEPT ![w] = "undrained"]
  /\ UNCHANGED <<phase, unfinished, early, exception, requested, complete,
                 coreStopped, cancels, caller, ctxVars>>

\* The core answers a poll with PollShutdownError: run() and
\* drain_poll_queue() return.
PollShutdown(w) ==
  /\ coreStopped
  /\ poll[w] \in {"running", "draining"}
  /\ MayEnd(w)
  /\ poll' = [poll EXCEPT ![w] = "ended"]
  /\ UNCHANGED <<phase, unfinished, early, exception, requested, complete,
                 coreStopped, cancels, caller, ctxVars>>

-----------------------------------------------------------------------------
(***************************************************************************)
(* Worker._run.                                                            *)
(***************************************************************************)

\* (mutant) Cancels the block only while it is in its body.
EndContextBody(err) ==
  /\ ctxCancel' = (ctxCancel \/ (err # "none" /\ ctx = "body"))
  /\ UNCHANGED <<ctx, ctxExc, ctxOut, swallowed>>

\* The wrapper of __aenter__ around run(): an error is kept, and the task of
\* the block is cancelled.
EndContextRun(err) ==
  /\ ctxCancel' = (ctxCancel \/ (err # "none" /\ ctx \in {"body", "aexit"}))
  /\ UNCHANGED <<ctx, ctxExc, ctxOut, swallowed>>

RaiseOut(err) ==
  /\ phase' = "raised"
  /\ exception' = err
  /\ EndContextRun(err)

CallRun ==
  /\ phase = "idle"
  /\ phase' = "validating"
  /\ UNCHANGED <<pollVars, exception, requested, complete, coreStopped,
                 cancels, caller, ctxVars>>

\* validate() succeeds; the tasks are created.
Validated ==
  /\ phase = "validating"
  /\ phase' = "waiting"
  /\ poll' = [w \in Workers |-> "running"]
  /\ UNCHANGED <<unfinished, early, exception, requested, complete,
                 coreStopped, cancels, caller, ctxVars>>

\* validate() raises, out of run().
ValidateFails ==
  /\ phase = "validating"
  /\ RaiseOut("failure")
  /\ UNCHANGED <<pollVars, requested, complete, coreStopped, cancels, caller>>

\* From the end of the wait to the next await: initiate_shutdown, replace the
\* failed loops by drains, notify_shutdown.
BeginShutdown ==
  /\ phase' = "draining"
  /\ coreStopped' = TRUE
  /\ poll' = [w \in Workers |-> IF poll[w] = "failed" THEN "draining" ELSE poll[w]]

\* (mutant) A requested shutdown hides the failure.
ExceptionUnlessRequested ==
  IF ~requested /\ \E w \in Workers : poll[w] = "failed" THEN "failure" ELSE "none"

\* The exception of the first done task; before the shutdown a poll loop is
\* done only if it has failed.
FirstException ==
  IF \E w \in Workers : poll[w] = "failed" THEN "failure" ELSE "none"

\* asyncio.wait(FIRST_EXCEPTION) returns: a shutdown was requested or a poll
\* loop failed.
WaitReturns ==
  /\ phase = "waiting"
  /\ requested \/ (\E w \in Workers : poll[w] = "failed")
  /\ exception' = FirstException
  /\ IF exception' # "none" /\ HasFatalHandler
     THEN phase' = "handler" /\ UNCHANGED <<poll, coreStopped>>
     ELSE BeginShutdown
  /\ UNCHANGED <<unfinished, early, requested, complete, cancels, caller, ctxVars>>

\* on_fatal_error has returned or raised.
HandlerDone ==
  /\ phase = "handler"
  /\ BeginShutdown
  /\ UNCHANGED <<unfinished, early, exception, requested, complete, cancels,
                 caller, ctxVars>>

\* (mutant) Goes on as soon as one of the tasks is done.
FirstPollerStopped ==
  /\ phase = "draining"
  /\ \E w \in Workers : poll[w] \in {"failed", "ended"}
  /\ phase' = "waitActivity"
  /\ UNCHANGED <<pollVars, exception, requested, complete, coreStopped,
                 cancels, caller, ctxVars>>

\* All tasks are done, with or without an exception.
PollersStopped ==
  /\ phase = "draining"
  /\ \A w \in Workers : poll[w] \in Stopped
  /\ phase' = "waitActivity"
  /\ UNCHANGED <<pollVars, exception, requested, complete, coreStopped,
                 cancels, caller, ctxVars>>

\* wait_all_completed of the activity worker, then of the nexus worker.
ActivitiesCompleted ==
  /\ phase = "waitActivity"
  /\ "activity" \notin unfinished
  /\ phase' = "waitNexus"
  /\ UNCHANGED <<pollVars, exception, requested, complete, coreStopped,
                 cancels, caller, ctxVars>>

\* A task that the activity worker gathers was cancelled: gather raises, and
\* that out of run().
ActivityWaitRaises ==
  /\ phase = "waitActivity"
  /\ "activity" \in unfinished
  /\ RaiseOut("cancel")
  /\ UNCHANGED <<pollVars, requested, complete, coreStopped, cancels, caller>>

NexusCompleted ==
  /\ phase = "waitNexus"
  /\ "nexus" \notin unfinished
  /\ phase' = "finalizing"
  /\ UNCHANGED <<pollVars, exception, requested, complete, coreStopped,
                 cancels, caller, ctxVars>>

\* (mutant) The complete event is set only by a run that does not raise.
FinishWithoutError ==
  /\ complete' = (exception = "none")
  /\ phase' = IF exception = "none" THEN "returned" ELSE "raised"
  /\ EndContextRun(exception)

\* _shutdown_complete_event.set(), then raise or return.
FinishRun ==
  /\ complete' = TRUE
  /\ phase' = IF exception = "none" THEN "returned" ELSE "raised"
  /\ EndContextRun(exception)

\* finalize_shutdown returns or raises.
Finalized ==
  /\ phase = "finalizing"
  /\ FinishRun
  /\ UNCHANGED <<pollVars, exception, requested, coreStopped, cancels, caller>>

\* What a cancellation does at each await of _run(): at the first wait it
\* begins the shutdown, the bare excepts around on_fatal_error and
\* finalize_shutdown swallow it, and any other await lets it out of run().
Cancelled ==
  CASE phase = "waiting" ->
         /\ exception' = "cancel"
         /\ BeginShutdown
         /\ UNCHANGED <<complete, ctxVars>>
    [] phase = "handler" ->
         BeginShutdown /\ UNCHANGED <<exception, complete, ctxVars>>
    [] phase = "finalizing" ->
         FinishRun /\ UNCHANGED <<exception, poll, coreStopped>>
    [] OTHER ->
         RaiseOut("cancel") /\ UNCHANGED <<poll, coreStopped, complete>>

\* The user cancels the task of run().
CancelRun ==
  /\ cancels < MaxCancels
  /\ ctx = "none"
  /\ phase \in Running \cup {"validating"}
  /\ cancels' = cancels + 1
  /\ Cancelled
  /\ UNCHANGED <<unfinished, early, requested, caller>>

-----------------------------------------------------------------------------
(***************************************************************************)
(* shutdown() and the async context manager.                               *)
(***************************************************************************)

CallShutdown(c) ==
  /\ caller[c] = "idle"
  /\ caller' = [caller EXCEPT ![c] = "waiting"]
  /\ requested' = TRUE
  /\ UNCHANGED <<phase, pollVars, exception, complete, coreStopped, cancels, ctxVars>>

ShutdownReturns(c) ==
  /\ caller[c] = "waiting"
  /\ complete
  /\ caller' = [caller EXCEPT ![c] = "returned"]
  /\ UNCHANGED <<phase, pollVars, exception, requested, complete, coreStopped,
                 cancels, ctxVars>>

AEnter ==
  /\ ctx = "none"
  /\ phase = "idle"
  /\ ctx' = "body"
  /\ phase' = "validating"
  /\ UNCHANGED <<pollVars, exception, requested, complete, coreStopped,
                 cancels, caller, ctxCancel, ctxExc, ctxOut, swallowed>>

\* The body ends, and __aexit__ calls shutdown(); a cancellation of the task
\* surfaces in the body, which may swallow it and go on.
BodyEnds ==
  /\ ctx = "body"
  /\ ~ctxCancel
  /\ ctx' = "aexit"
  /\ requested' = TRUE
  /\ UNCHANGED <<phase, pollVars, exception, complete, coreStopped, cancels,
                 caller, ctxCancel, ctxExc, ctxOut, swallowed>>

BodyCancelled ==
  /\ ctx = "body"
  /\ ctxCancel
  /\ ctxCancel' = FALSE
  /\ \/ /\ ctx' = "aexit"
        /\ ctxExc' = "cancel"
        /\ requested' = TRUE
        /\ UNCHANGED swallowed
     \/ /\ swallowed' = TRUE
        /\ UNCHANGED <<ctx, ctxExc, requested>>
  /\ UNCHANGED <<phase, pollVars, exception, complete, coreStopped, cancels,
                 caller, ctxOut>>

\* shutdown() has returned to __aexit__, which raises run()'s error if the
\* body was cancelled.
AExitReturns ==
  /\ ctx = "aexit"
  /\ complete
  /\ ~ctxCancel
  /\ ctx' = "exited"
  /\ ctxOut' = IF ctxExc = "cancel" THEN exception ELSE "ok"
  /\ UNCHANGED <<phase, pollVars, exception, requested, complete, coreStopped,
                 cancels, caller, ctxCancel, ctxExc, swallowed>>

\* The cancellation surfaces while __aexit__ awaits shutdown().
AExitCancelled ==
  /\ ctx = "aexit"
  /\ ctxCancel
  /\ ctxCancel' = FALSE
  /\ ctx' = "exited"
  /\ ctxOut' = "cancel"
  /\ UNCHANGED <<phase, pollVars, exception, requested, complete, coreStopped,
                 cancels, caller, ctxExc, swallowed>>

RunStep ==
  \/ Validated \/ ValidateFails \/ WaitReturns \/ HandlerDone
  \/ PollersStopped \/ ActivitiesCompleted \/ ActivityWaitRaises \/ NexusCompleted \/ Finalized

ContextStep == BodyCancelled \/ AExitReturns \/ AExitCancelled

Next ==
  \/ CallRun \/ AEnter \/ RunStep \/ CancelRun
  \/ \E w \in Workers : TaskStarts(w) \/ TaskEnds(w) \/ PollFails(w) \/ DrainFails(w)
                        \/ PollShutdown(w)
  \/ \E c \in Callers : CallShutdown(c) \/ ShutdownReturns(c)
  \/ BodyEnds \/ ContextStep

Spec == Init /\ [][Next]_vars

\* The loop keeps scheduling run(), the pollers, which learn of the core's
\* shutdown, and the waiting callers; tasks end.
FairSpec ==
  /\ Spec
  /\ WF_vars(CallRun \/ AEnter)
  /\ WF_vars(RunStep)
  /\ WF_vars(ContextStep)
  /\ \A w \in Workers : SF_vars(TaskEnds(w)) /\ SF_vars(PollShutdown(w))
  /\ \A c \in Callers : WF_vars(ShutdownReturns(c))

-----------------------------------------------------------------------------
\* Types; the core is asked to stop when the wait of run() ends, not before.
TypeOK ==
  /\ phase \in {"idle", "validating"} \cup Running \cup Ended
  /\ poll \in [Workers -> {"off", "running", "failed", "draining", "ended", "undrained"}]
  /\ early \subseteq Workers
  /\ unfinished \subseteq Workers
  /\ exception \in {"none", "failure", "cancel"}
  /\ cancels \in Nat
  /\ caller \in [Callers -> {"idle", "waiting", "returned"}]
  /\ ctx \in {"none", "body", "aexit", "exited"}
  /\ ctxExc \in {"none", "cancel"}
  /\ ctxOut \in {"none", "ok", "failure", "cancel"}
  /\ {requested, complete, coreStopped, ctxCancel, swallowed} \subseteq BOOLEAN
  /\ phase \in {"idle", "validating", "waiting", "handler"} => ~coreStopped
  /\ phase \in Running \ {"waiting", "handler"} => coreStopped

\* run: "This will not return until shutdown is complete. This means that
\* activities have all completed".  The complete event, and with it every
\* return of shutdown(), comes after the last poll loop and the last task,
\* also when poll loops fail and run() is cancelled on the way; the drain of a
\* poller that failed early is over by then.
CompleteMeansStopped ==
  complete =>
    /\ \A w \in Workers : poll[w] \in Stopped
    /\ unfinished = {}
    /\ \A w \in early : poll[w] \in {"ended", "undrained"}

\* A poll loop that failed before the shutdown began makes run() raise, no
\* matter how the failure races with shutdown() and with cancellations.
EarlyFailureRaised == phase = "returned" => early = {}

\* An error of run() is never lost in `async with`: the block does not end
\* normally unless its body swallowed the cancellation.
ContextNeverHidesError ==
  ctxOut = "ok" => exception = "none" \/ swallowed

\* shutdown: "This will not return until the worker has completed shutting
\* down", but then it does return, whenever it was called: before, during or
\* after a run that ends in an error.  It does not if run() raises out of
\* validate(), or if a CancelledError leaves the shutdown sequence.
ShutdownEnds ==
  \A c \in Callers : (caller[c] = "waiting") ~>
    \/ caller[c] = "returned"
    \/ phase = "raised" /\ (~coreStopped \/ exception = "cancel")

\* run: "This method will raise if there is a worker fatal error."
RaisesFatalError ==
  phase = "returned" => \A w \in Workers : poll[w] # "failed"

\* __aexit__: "this will raise the worker fatal error if one occurred and the
\* inner task cancellation was not inadvertently swallowed/wrapped."
ContextRaisesFatalError ==
  ctx = "exited" /\ exception = "failure" /\ ~swallowed => ctxOut = "failure"

=============================================================================
