---------------------------- MODULE OperationHandle ----------------------------
(***************************************************************************)
(* The operations a workflow awaits (temporalio/worker/                    *)
(* _workflow_instance.py): activities, child workflows, Nexus operations,  *)
(* and the signals and cancel requests it sends to other workflows, with   *)
(* _await_temporal_operation, which waits for them, the jobs that resolve  *)
(* them and the eviction that ends them.                                   *)
(*                                                                         *)
(* Two coroutines may wait for an operation.  <<h, "call">> is the task    *)
(* of the workflow that starts a child or a Nexus operation, or sends a    *)
(* signal or a cancel request; <<h, "task">> is the task of the handle,    *)
(* which waits for the result.  An activity has only the second, a signal  *)
(* and a cancel request only the first.  The future of a call is           *)
(* _start_fut or done_fut, that of a task _result_fut.                     *)
(*                                                                         *)
(* An activation applies jobs and then runs the tasks that are ready until *)
(* none is; without single-batch activation it first runs the handlers of  *)
(* signals and updates.  Workflow code is any sequence of calls.  The      *)
(* tasks that are ready run in any order.  The code numbers each kind of   *)
(* operation from 1 and has a table of pending ones for each; here one     *)
(* counter and one table serve for all.                                    *)
(***************************************************************************)
EXTENDS Naturals, FiniteSets

CONSTANTS
  Handles,     \* the operations that the workflow may start
  Workflows,   \* which kinds they are of, in each workflow considered
  MaxSeq,      \* bound: sequence numbers, and so the backoffs
  MaxCancels   \* bound: cancellations of the workflow's operations

Activities == {"activity", "local"}
TwoPhase == {"child", "nexus"}
Kinds == Activities \cup TwoPhase \cup {"signal", "cancel", "none"}

ASSUME HandleAssumption ==
  /\ Workflows \subseteq [Handles -> Kinds]
  /\ {MaxSeq, MaxCancels} \subseteq Nat

\* "batch": _single_batch_activation.  "oldReplay": neither that, nor is
\* RAISE_ON_CANCELLING_COMPLETED_ACTIVITY in force, as the history is older.
Modes == {"batch", "legacy", "oldReplay"}

VARIABLES
  kind,       \* the kind of each operation; it never changes
  phase,      \* of the instance: between activations it is "idle"
  mode,       \* the mode of the activation
  asked,      \* _cancel_reason is set: the workflow's cancellation was requested
  nextSeq,    \* what _next_seq has last returned
  seq,        \* _seq of each operation
  started,    \* the activities with _started set
  at,         \* where each waiter is
  fut,        \* the future it waits for
  creq,       \* the waiters with a cancellation pending
  timer,      \* the timer of a backoff
  pending,    \* _pending_activities, _pending_child_workflows ..., as pairs
  scheduled,  \* the sequence numbers for which there was a start command
  cancelled,  \* and those for which there was a cancel command
  told,       \* the sequence numbers that the core has been told of
  open,       \* those of them that it has not resolved
  begun,      \* those whose start it has resolved
  again,      \* those that it has resolved a second time
  given,      \* the handles that the workflow has been given
  cancels,    \* how often an operation was cancelled
  unheard,    \* the waiters with a cancellation that nothing has answered
  lost        \* those whose cancellation the legacy modes swallowed

instVars == <<kind, mode, asked>>
seqVars == <<nextSeq, seq>>
cmdVars == <<scheduled, cancelled>>
askVars == <<given, cancels, lost>>
coreVars == <<told, open, begun, again>>
vars == <<phase, instVars, seqVars, started, at, fut, creq, timer, pending,
          cmdVars, coreVars, askVars, unheard>>

Waiters == Handles \X {"call", "task"}
Running == phase \in {"signals", "resolved"}
Deleting == phase \in {"evicting", "evicted"}
Done == {"value", "error", "cancelled", "evicted"}

Init ==
  /\ kind \in Workflows
  /\ phase = "idle"
  /\ mode = "batch"
  /\ asked = FALSE
  /\ nextSeq = 0
  /\ seq = [h \in Handles |-> 0]
  /\ started = {}
  /\ at = [w \in Waiters |-> "none"]
  /\ fut = [w \in Waiters |-> "pending"]
  /\ creq = {}
  /\ timer = [h \in Handles |-> "none"]
  /\ pending = {}
  /\ scheduled = {}
  /\ cancelled = {}
  /\ told = {}
  /\ open = {}
  /\ begun = {}
  /\ again = {}
  /\ given = {}
  /\ cancels = 0
  /\ unheard = {}
  /\ lost = {}

-----------------------------------------------------------------------------
(***************************************************************************)
(* The jobs of an activation.                                              *)
(***************************************************************************)

\* activate(): the handlers of signals and updates run before the other jobs,
\* unless all jobs are one batch.
Activate(m) ==
  /\ phase = "idle"
  /\ mode' = m
  /\ phase' = IF m = "batch" THEN "jobs" ELSE "signals"
  /\ UNCHANGED <<kind, asked, seqVars, started, at, fut, creq, timer, pending,
                 cmdVars, coreVars, askVars, unheard>>

\* The reason is recorded, which only the start of an operation looks at; the
\* deferred cancel() of the workflow's task is one of the calls of Cancel.
CancelWorkflow ==
  /\ phase = "jobs"
  /\ ~asked
  /\ \E h \in Handles : kind[h] \in TwoPhase
  /\ asked' = TRUE
  /\ UNCHANGED <<phase, kind, mode, seqVars, started, at, fut, creq, timer, pending,
                 cmdVars, coreVars, askVars, unheard>>

\* The core resolves s, which takes it from the pending operations.
Take(s, h) ==
  /\ phase = "jobs"
  /\ s \in open
  /\ <<s, h>> \in pending
  /\ pending' = pending \ {<<s, h>>}
  /\ open' = open \ {s}

\* The result of an activity: completed, or failed or cancelled.  A failure is
\* not set if the handle has not started.
ResolveActivity(s, h, res) ==
  /\ kind[h] \in Activities
  /\ Take(s, h)
  /\ fut' = IF res = "error" /\ h \notin started THEN fut
            ELSE [fut EXCEPT ![<<h, "task">>] = res]
  /\ UNCHANGED <<phase, instVars, seqVars, started, at, creq, timer, cmdVars,
                 told, begun, again, askVars, unheard>>

\* _resolve_backoff: the awaited future raises, the handle has a new sequence
\* number and is not started.  A cancelled activity is not retried.
ResolveBackoff(s, h) ==
  /\ kind[h] = "local"
  /\ s \notin cancelled
  /\ Take(s, h)
  /\ nextSeq < MaxSeq
  /\ nextSeq' = nextSeq + 1
  /\ seq' = [seq EXCEPT ![h] = nextSeq']
  /\ fut' = [fut EXCEPT ![<<h, "task">>] = "backoff"]
  /\ started' = started \ {h}
  /\ UNCHANGED <<phase, instVars, at, creq, timer, cmdVars, told, begun, again,
                 askVars, unheard>>

\* The timer of a backoff fires; its callback wakes the sleeping task.
FireTimer(h) ==
  /\ phase = "jobs"
  /\ timer[h] = "open"
  /\ timer' = [timer EXCEPT ![h] = "fired"]
  /\ UNCHANGED <<phase, instVars, seqVars, started, at, fut, creq, pending,
                 cmdVars, coreVars, askVars, unheard>>

\* A child workflow or a Nexus operation has started; its result is to follow.
ResolveStart(s, h) ==
  /\ phase = "jobs"
  /\ kind[h] \in TwoPhase
  /\ s \in open \ begun
  /\ <<s, h>> \in pending
  /\ fut' = [fut EXCEPT ![<<h, "call">>] = "value"]
  /\ begun' = begun \cup {s}
  /\ UNCHANGED <<phase, instVars, seqVars, started, at, creq, timer, pending, cmdVars,
                 told, open, again, askVars, unheard>>

\* (mutant) The result of an operation that did not start stays open.
FailStart_leavesResult(s, h) ==
  /\ kind[h] \in TwoPhase
  /\ s \notin begun
  /\ Take(s, h)
  /\ fut' = [fut EXCEPT ![<<h, "call">>] = "error"]
  /\ UNCHANGED <<phase, instVars, seqVars, started, at, creq, timer, cmdVars,
                 told, begun, again, askVars, unheard>>

\* It could not be started, or was cancelled before: no result follows.
FailStart(s, h) ==
  /\ kind[h] \in TwoPhase
  /\ s \notin begun
  /\ Take(s, h)
  /\ fut' = [fut EXCEPT ![<<h, "call">>] = "error", ![<<h, "task">>] = "value"]
  /\ UNCHANGED <<phase, instVars, seqVars, started, at, creq, timer, cmdVars,
                 told, begun, again, askVars, unheard>>

\* The result of a child workflow or a Nexus operation.
ResolveResult(s, h, res) ==
  /\ kind[h] \in TwoPhase
  /\ s \in begun
  /\ Take(s, h)
  /\ fut' = [fut EXCEPT ![<<h, "task">>] = res]
  /\ UNCHANGED <<phase, instVars, seqVars, started, at, creq, timer, cmdVars,
                 told, begun, again, askVars, unheard>>

\* What the core may resolve once more: a Nexus operation that it resolved because
\* its cancellation was requested (WaitRequested) may still end by itself.
EndsLater == {s \in (begun \cap cancelled) \ (open \cup again) :
                \E h \in Handles : kind[h] = "nexus" /\ seq[h] = s}

\* The second result of a Nexus operation: "it has already been resolved", so no
\* handle is found and the job is skipped.
ResolveAgain(s, res) ==
  /\ phase = "jobs"
  /\ s \in EndsLater
  /\ again' = again \cup {s}
  /\ pending' = {p \in pending : p[1] # s}
  /\ fut' = [w \in Waiters |-> IF <<s, w[1]>> \in pending /\ w[2] = "task" THEN res ELSE fut[w]]
  /\ UNCHANGED <<phase, instVars, seqVars, started, at, creq, timer, cmdVars,
                 told, open, begun, askVars, unheard>>

\* The answer to a signal or a cancel request.  Setting the result of a future
\* that is done raises, and so fails the activation.
ResolveExternal(s, h, res) ==
  /\ kind[h] \in {"signal", "cancel"}
  /\ Take(s, h)
  /\ IF fut[<<h, "call">>] = "pending"
     THEN fut' = [fut EXCEPT ![<<h, "call">>] = res] /\ UNCHANGED phase
     ELSE phase' = "failed" /\ UNCHANGED fut
  /\ UNCHANGED <<instVars, seqVars, started, at, creq, timer, cmdVars,
                 told, begun, again, askVars, unheard>>

\* _run_once after the jobs.
RunOnce ==
  /\ phase = "jobs"
  /\ phase' = "resolved"
  /\ UNCHANGED <<instVars, seqVars, started, at, fut, creq, timer, pending,
                 cmdVars, coreVars, askVars, unheard>>

-----------------------------------------------------------------------------
(***************************************************************************)
(* Calls of the workflow.                                                  *)
(***************************************************************************)

Number(h) ==
  /\ Running
  /\ seq[h] = 0
  /\ nextSeq < MaxSeq
  /\ nextSeq' = nextSeq + 1
  /\ seq' = [seq EXCEPT ![h] = nextSeq']

\* The command is added and the operation is pending; or its arguments cannot be
\* converted and the call raises, which leaves a handle's task behind.
Schedule(h) ==
  /\ scheduled' = scheduled \cup {nextSeq'}
  /\ pending' = pending \cup {<<nextSeq', h>>}

\* _outbound_schedule_activity: the handle is returned at once.
ScheduleActivity(h) ==
  /\ kind[h] \in Activities
  /\ Number(h)
  /\ at' = [at EXCEPT ![<<h, "task">>] = "new"]
  /\ \/ Schedule(h) /\ given' = given \cup {h}
     \/ UNCHANGED <<scheduled, pending, given>>
  /\ UNCHANGED <<phase, instVars, started, fut, creq, timer, cancelled, coreVars,
                 cancels, lost, unheard>>

\* _outbound_start_child_workflow and _outbound_start_nexus_operation: the handle
\* is created, and the call waits for the start.
StartOperation(h) ==
  /\ kind[h] \in TwoPhase
  /\ Number(h)
  /\ \/ Schedule(h) /\ at' = [at EXCEPT ![<<h, "task">>] = "new", ![<<h, "call">>] = "waiting"]
     \/ at' = [at EXCEPT ![<<h, "task">>] = "new"] /\ UNCHANGED <<scheduled, pending>>
  /\ UNCHANGED <<phase, instVars, started, fut, creq, timer, cancelled, coreVars,
                 askVars, unheard>>

\* _signal_external_workflow and _cancel_external_workflow
CallExternal(h) ==
  /\ kind[h] \in {"signal", "cancel"}
  /\ Number(h)
  /\ Schedule(h)
  /\ at' = [at EXCEPT ![<<h, "call">>] = "waiting"]
  /\ UNCHANGED <<phase, instVars, started, fut, creq, timer, cancelled, coreVars,
                 askVars, unheard>>

\* The handle is cancelled, or the task that makes the call.  An activity that
\* has not started adds the command here (_ActivityHandle.cancel).
Cancel(h, x) ==
  /\ Running
  /\ x = "task" => h \in given
  /\ at[<<h, x>>] \notin Done \cup {"none"}
  /\ cancels < MaxCancels
  /\ cancels' = cancels + 1
  /\ cancelled' = IF kind[h] \in Activities /\ h \notin started
                  THEN cancelled \cup {seq[h]} ELSE cancelled
  /\ creq' = creq \cup {<<h, x>>}
  /\ unheard' = unheard \cup {<<h, x>>}
  /\ UNCHANGED <<phase, instVars, seqVars, started, at, fut, timer, pending,
                 scheduled, coreVars, given, lost>>

-----------------------------------------------------------------------------
(***************************************************************************)
(* The waiters.                                                            *)
(***************************************************************************)

Steps == Running \/ phase = "evicting"

\* The wait ends.
End(w, outcome) ==
  /\ at' = [at EXCEPT ![w] = outcome]
  /\ creq' = creq \ {w}

\* The wait ends with the CancelledError.
EndCancelled(w) ==
  /\ End(w, IF Deleting THEN "evicted" ELSE "cancelled")
  /\ unheard' = unheard \ {w}

\* The task of a handle takes its first step, to wait for the result: "Mark it as
\* started each loop".
RunTask(h) ==
  /\ Steps
  /\ at[<<h, "task">>] = "new"
  /\ <<h, "task">> \notin creq
  /\ started' = IF kind[h] \in Activities THEN started \cup {h} ELSE started
  /\ at' = [at EXCEPT ![<<h, "task">>] = "waiting"]
  /\ UNCHANGED <<phase, instVars, seqVars, fut, creq, timer, pending, cmdVars,
                 coreVars, askVars, unheard>>

\* A task that is cancelled before its first step never runs.
CancelUnstarted(h) ==
  /\ Steps
  /\ at[<<h, "task">>] = "new"
  /\ <<h, "task">> \in creq
  /\ EndCancelled(<<h, "task">>)
  /\ UNCHANGED <<phase, instVars, seqVars, started, fut, timer, pending, cmdVars,
                 coreVars, askVars>>

\* The result is there: the shielded wait returns it or raises it.  A start that
\* succeeds gives the workflow the handle.
ResultReady(h, x) ==
  /\ Steps
  /\ at[<<h, x>>] = "waiting"
  /\ <<h, x>> \notin creq
  /\ fut[<<h, x>>] \in {"value", "error"}
  /\ End(<<h, x>>, fut[<<h, x>>])
  /\ given' = IF x = "call" /\ kind[h] \in TwoPhase /\ fut[<<h, x>>] = "value"
              THEN given \cup {h} ELSE given
  /\ UNCHANGED <<phase, instVars, seqVars, started, fut, timer, pending, cmdVars,
                 coreVars, cancels, lost, unheard>>

\* (mutant) Waits again although the result is there.
EraseCancel(h, x) == FALSE

\* "Retrying the shield after both futures become ready would return the result
\* and erase the task cancellation."  Without single-batch activation only
\* activities care.
Reraise(h, x) ==
  /\ fut[<<h, x>>] # "pending"
  /\ mode = "batch" \/ (mode = "legacy" /\ kind[h] \in Activities)

\* A cancel command is added, which raises during an eviction; then wait again.
\* The wait for a start ends if it is the workflow that is cancelled.
AnswerCancel(h, x) ==
  IF Deleting THEN EndCancelled(<<h, x>>) /\ UNCHANGED cancelled
  ELSE /\ cancelled' = cancelled \cup {seq[h]}
       /\ IF asked /\ x = "call" /\ kind[h] \in TwoPhase
          THEN EndCancelled(<<h, x>>)
          ELSE /\ creq' = creq \ {<<h, x>>}
               /\ unheard' = IF fut[<<h, x>>] = "pending" THEN unheard \ {<<h, x>>} ELSE unheard
               /\ UNCHANGED at

\* _await_temporal_operation, when the wait raises CancelledError.
CancelWaiting(h, x) ==
  /\ Steps
  /\ kind[h] # "cancel"
  /\ at[<<h, x>>] = "waiting"
  /\ <<h, x>> \in creq
  /\ IF Reraise(h, x) THEN EndCancelled(<<h, x>>) /\ UNCHANGED cancelled ELSE AnswerCancel(h, x)
  /\ lost' = IF \/ fut[<<h, x>>] # "pending" /\ mode = "oldReplay"
                \/ fut[<<h, x>>] # "pending" /\ mode = "legacy" /\ kind[h] \notin Activities
             THEN lost \cup {<<h, x>>} ELSE lost
  /\ UNCHANGED <<phase, instVars, seqVars, started, fut, timer, pending, scheduled,
                 coreVars, given, cancels>>

\* A cancel request is awaited without a shield: its future is cancelled.
CancelCancelRequest(h) ==
  /\ Steps
  /\ kind[h] = "cancel"
  /\ at[<<h, "call">>] = "waiting"
  /\ <<h, "call">> \in creq
  /\ fut' = IF fut[<<h, "call">>] = "pending" THEN [fut EXCEPT ![<<h, "call">>] = "cancelled"] ELSE fut
  /\ EndCancelled(<<h, "call">>)
  /\ UNCHANGED <<phase, instVars, seqVars, started, timer, pending, cmdVars,
                 coreVars, askVars>>

\* _ActivityDoBackoffError: sleep.
BackOff(h) ==
  /\ Running
  /\ at[<<h, "task">>] = "waiting"
  /\ <<h, "task">> \notin creq
  /\ fut[<<h, "task">>] = "backoff"
  /\ at' = [at EXCEPT ![<<h, "task">>] = "sleeping"]
  /\ timer' = [timer EXCEPT ![h] = "new"]
  /\ UNCHANGED <<phase, instVars, seqVars, started, fut, creq, pending, cmdVars,
                 coreVars, askVars, unheard>>

\* The sleep is cancelled, and its timer; nothing catches the CancelledError.
CancelSleeping(h) ==
  /\ Steps
  /\ at[<<h, "task">>] = "sleeping"
  /\ <<h, "task">> \in creq
  /\ timer' = [timer EXCEPT ![h] = "none"]
  /\ EndCancelled(<<h, "task">>)
  /\ UNCHANGED <<phase, instVars, seqVars, started, fut, pending, cmdVars, coreVars,
                 askVars>>

\* (mutant) Does not put the handle back among the pending ones.
RescheduleUnlisted(h) ==
  /\ Running
  /\ at[<<h, "task">>] = "sleeping"
  /\ <<h, "task">> \notin creq
  /\ timer[h] = "fired"
  /\ timer' = [timer EXCEPT ![h] = "none"]
  /\ scheduled' = scheduled \cup {seq[h]}
  /\ started' = started \cup {h}
  /\ fut' = [fut EXCEPT ![<<h, "task">>] = "pending"]
  /\ at' = [at EXCEPT ![<<h, "task">>] = "waiting"]
  /\ UNCHANGED <<phase, instVars, seqVars, creq, pending, cancelled, coreVars, askVars, unheard>>

\* The sleep is over: schedule the activity again, under the new number, and
\* loop; if the arguments cannot be converted the task raises.
Reschedule(h) ==
  /\ Running
  /\ at[<<h, "task">>] = "sleeping"
  /\ <<h, "task">> \notin creq
  /\ timer[h] = "fired"
  /\ timer' = [timer EXCEPT ![h] = "none"]
  /\ \/ /\ scheduled' = scheduled \cup {seq[h]}
        /\ pending' = pending \cup {<<seq[h], h>>}
        /\ started' = started \cup {h}
        /\ fut' = [fut EXCEPT ![<<h, "task">>] = "pending"]
        /\ at' = [at EXCEPT ![<<h, "task">>] = "waiting"]
     \/ /\ at' = [at EXCEPT ![<<h, "task">>] = "error"]
        /\ UNCHANGED <<scheduled, pending, started, fut>>
  /\ UNCHANGED <<phase, instVars, seqVars, creq, cancelled, coreVars, askVars, unheard>>

TaskStep(h) ==
  \/ RunTask(h) \/ CancelUnstarted(h) \/ BackOff(h) \/ CancelSleeping(h) \/ Reschedule(h)
  \/ CancelCancelRequest(h)
  \/ \E x \in {"call", "task"} : ResultReady(h, x) \/ CancelWaiting(h, x)

\* The waiter is in the loop's ready list.
Ready(w) ==
  \/ at[w] = "new"
  \/ at[w] = "waiting" /\ (w \in creq \/ fut[w] # "pending")
  \/ at[w] = "sleeping" /\ (w \in creq \/ timer[w[1]] = "fired")

Quiet == \A w \in Waiters : ~Ready(w)

-----------------------------------------------------------------------------
(***************************************************************************)
(* The end of an activation.                                               *)
(***************************************************************************)

\* The loop is empty after the handlers of signals; the other jobs follow.
SignalsRun ==
  /\ phase = "signals"
  /\ Quiet
  /\ phase' = "jobs"
  /\ UNCHANGED <<instVars, seqVars, started, at, fut, creq, timer, pending,
                 cmdVars, coreVars, askVars, unheard>>

\* The core gets the commands of the activation.
Complete ==
  /\ phase = "resolved"
  /\ Quiet
  /\ phase' = "idle"
  /\ told' = scheduled
  /\ open' = open \cup (scheduled \ told)
  /\ timer' = [h \in Handles |-> IF timer[h] = "new" THEN "open" ELSE timer[h]]
  /\ UNCHANGED <<instVars, seqVars, started, at, fut, creq, pending, cmdVars, begun, again,
                 askVars, unheard>>

\* A job cannot be applied, or workflow code raises: the tasks that are ready
\* do not run, and the core gets no command.
FailActivation ==
  /\ Running \/ phase = "jobs"
  /\ phase' = "failed"
  /\ UNCHANGED <<instVars, seqVars, started, at, fut, creq, timer, pending,
                 cmdVars, coreVars, askVars, unheard>>

\* remove_from_cache: "Cancel everything" in _tasks.  The task of a Nexus handle
\* is not in it, and is cancelled only if a task that is waits for it.
Evict ==
  /\ phase \in {"idle", "failed"}
  /\ phase' = "evicting"
  /\ \E awaited \in SUBSET {h \in Handles : kind[h] = "nexus"} :
       creq' = creq \cup {w \in Waiters :
                           /\ at[w] \notin Done \cup {"none"}
                           /\ (w[2] = "task" /\ kind[w[1]] = "nexus") => w[1] \in awaited}
  /\ UNCHANGED <<instVars, seqVars, started, at, fut, timer, pending, cmdVars,
                 coreVars, askVars, unheard>>

EvictionDone ==
  /\ phase = "evicting"
  /\ Quiet
  /\ phase' = "evicted"
  /\ UNCHANGED <<instVars, seqVars, started, at, fut, creq, timer, pending,
                 cmdVars, coreVars, askVars, unheard>>

Resolve(s) ==
  \E h \in Handles :
    \/ ResolveBackoff(s, h) \/ ResolveStart(s, h) \/ FailStart(s, h)
    \/ \E res \in {"value", "error"} :
         ResolveActivity(s, h, res) \/ ResolveResult(s, h, res) \/ ResolveExternal(s, h, res)

Advance == (\E m \in Modes : Activate(m)) \/ RunOnce \/ SignalsRun \/ Complete

Next ==
  \/ Advance \/ CancelWorkflow \/ FailActivation \/ Evict \/ EvictionDone
  \/ \E s \in 1..MaxSeq : Resolve(s) \/ \E res \in {"value", "error"} : ResolveAgain(s, res)
  \/ \E h \in Handles :
       \/ FireTimer(h) \/ TaskStep(h)
       \/ ScheduleActivity(h) \/ StartOperation(h) \/ CallExternal(h)
       \/ \E x \in {"call", "task"} : Cancel(h, x)

Spec == Init /\ [][Next]_vars

\* The core keeps sending activations, resolves what is open and fires what is
\* started; the loop runs what is ready; an eviction runs to its end.
FairSpec ==
  /\ Spec
  /\ WF_vars(Advance)
  /\ WF_vars(EvictionDone)
  /\ WF_vars(\E h \in Handles : TaskStep(h))
  /\ SF_vars(\E s \in 1..MaxSeq : Resolve(s))
  /\ SF_vars(\E h \in Handles : FireTimer(h))

-----------------------------------------------------------------------------
\* The future that the next job for operation h resolves.
Awaited(h, s) ==
  fut[<<h, IF kind[h] \in Activities \/ s \in begun THEN "task" ELSE "call">>]

\* "Failed finding ... handle for sequence" is never raised, and no result is set
\* on a future that has one: what the core resolves for the first time is
\* pending, for an operation that still has this number and whose future has no
\* result, and when a Nexus operation is resolved again, after a cancellation,
\* none is pending under its number.  Only a cancel request to another workflow
\* is left out.
ResolvesFindHandle ==
  /\ \A s \in open : \E h \in Handles :
       /\ <<s, h>> \in pending
       /\ \A g \in Handles : <<s, g>> \in pending => g = h
       /\ seq[h] = s
       /\ kind[h] # "cancel" => Awaited(h, s) = "pending"
  /\ \A s \in EndsLater : \A h \in Handles : <<s, h>> \notin pending

\* A cancellation is not lost: a wait that was cancelled does not return a result
\* unless a cancel command was sent while there was none.  Only the modes for
\* older histories may lose it.
CancelHeard ==
  \A w \in unheard : at[w] \in {"value", "error"} => w \in lost

\* Everyone who waits for an operation that was scheduled stops waiting: with its
\* result, or cancelled, or evicted, through all backoffs, and the task of a
\* handle also when the operation could not be started.  Not covered are a
\* failed activation and the Nexus tasks that an eviction does not know of.
HandlesEnd ==
  \A h \in Handles :
    (seq[h] \in scheduled)
      ~> (\/ \A x \in {"call", "task"} : at[<<h, x>>] \in Done \cup {"none"}
          \/ phase = "failed" \/ (kind[h] = "nexus" /\ Deleting))

\* _cancel_external_workflow: "Wait until done (there is no cancelling a cancel
\* request)".  The answer to a cancel request finds its future waiting, or else it
\* fails the activation; only an eviction may end the wait.
CancelRequestWaits ==
  ~Deleting => \A s \in open : \A h \in Handles :
    <<s, h>> \in pending /\ kind[h] = "cancel" => fut[<<h, "call">>] = "pending"

\* "If we're deleting, there better be no more tasks": no waiter survives an
\* eviction, also one that follows a failed activation.
EvictionClean ==
  phase = "evicted" => \A w \in Waiters : at[w] \in Done \cup {"none"}

\* cancel(): a cancel command is sent "because the async function won't run to
\* trap the cancel (i.e. cancelled before started)".  A cancel command names an
\* operation that was scheduled.
CancelsScheduled == cancelled \subseteq scheduled

=============================================================================
