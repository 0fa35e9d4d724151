------------------------------ MODULE NexusWorker ------------------------------
(***************************************************************************)
(* _NexusWorker of temporalio/worker/_nexus.py: the poll loop, the tasks   *)
(* that handle start and cancel operations, their cancellation, and the    *)
(* completions sent to the core.                                           *)
(*                                                                         *)
(* All of it runs on one event loop; a step is what happens between two    *)
(* awaits.  Both kinds of task run the same steps: the user's handler,     *)
(* then encoding and sending the completion.  Their payloads are left out. *)
(***************************************************************************)
EXTENDS Naturals, FiniteSets

CONSTANTS
  Tokens,       \* the tasks the core may send
  MaxCancels    \* bound: cancel_tasks for one token (time out, then shutdown)

ASSUME NexusAssumption == MaxCancels \in Nat

VARIABLES
  loop,       \* run(), drain_poll_queue() and wait_all_completed()
  stopping,   \* has the core been asked to shut down?
  issued,     \* the tokens the core has given out and has no completion of
  task,       \* where the task of each token is
  running,    \* the keys of _running_tasks
  cancelled,  \* the tokens whose _NexusTaskCancellation is cancelled
  cancels,    \* the cancel_tasks the core has sent
  reply,      \* the completion each task has built
  inflight,   \* how many completions of each task the bridge is sending
  received,   \* the completions the core has, in number
  empty,      \* has a completion without a token been sent?
  broken,     \* is there an exception in _fail_worker_exception_queue?
  dropped     \* the tasks that ended without a completion, and why

coreVars == <<stopping, issued, cancels>>
sendVars == <<inflight, received, empty>>
vars == <<loop, coreVars, task, running, cancelled, reply, sendVars, broken, dropped>>

Init ==
  /\ loop = "polling"
  /\ stopping = FALSE
  /\ issued = {}
  /\ task = [t \in Tokens |-> "none"]
  /\ running = {}
  /\ cancelled = {}
  /\ cancels = [t \in Tokens |-> 0]
  /\ reply = [t \in Tokens |-> "none"]
  /\ inflight = [t \in Tokens |-> 0]
  /\ received = [t \in Tokens |-> 0]
  /\ empty = FALSE
  /\ broken = FALSE
  /\ dropped = {}

-----------------------------------------------------------------------------
(***************************************************************************)
(* The poll loop.                                                          *)
(***************************************************************************)

\* A start or a cancel operation: a task handles it.
PollTask(t) ==
  /\ loop = "polling"
  /\ ~stopping
  /\ task[t] = "none"
  /\ t \notin issued
  /\ received[t] = 0
  /\ issued' = issued \cup {t}
  /\ task' = [task EXCEPT ![t] = "handler"]
  /\ running' = running \cup {t}
  /\ UNCHANGED <<loop, stopping, cancels, cancelled, reply, sendVars, broken, dropped>>

\* (mutant) Acknowledges also while a completion is being sent.
CancelAlwaysAcks(t) ==
  /\ task' = [task EXCEPT ![t] = "completing"]
  /\ reply' = [reply EXCEPT ![t] = "ack"]
  /\ inflight' = [inflight EXCEPT ![t] = @ + 1]
  /\ UNCHANGED <<running, dropped>>

\* What a cancellation does at the await where the task is: while the handler
\* runs or its response is encoded it is acknowledged, while a failure is
\* encoded or a completion sent it ends the task.  The handler may also
\* swallow it.
Cancel(t) ==
  CASE task[t] \in {"handler", "encoding"} ->
         /\ \/ /\ task' = [task EXCEPT ![t] = "completing"]
               /\ reply' = [reply EXCEPT ![t] = "ack"]
               /\ inflight' = [inflight EXCEPT ![t] = @ + 1]
            \/ /\ task[t] = "handler"
               /\ UNCHANGED <<task, reply, inflight>>
         /\ UNCHANGED <<running, dropped>>
    [] task[t] = "encodingFailure" ->
         /\ task' = [task EXCEPT ![t] = "ended"]
         /\ running' = running \ {t}
         /\ dropped' = dropped \cup {<<t, "cancel">>}
         /\ UNCHANGED <<reply, inflight>>
    [] task[t] = "completing" ->
         /\ task' = [task EXCEPT ![t] = "ended"]
         /\ running' = running \ {t}
         /\ UNCHANGED <<reply, inflight, dropped>>

\* A cancel_task for a task that is running; any other is only logged.
PollCancel(t) ==
  /\ loop = "polling"
  /\ t \in issued
  /\ cancels[t] < MaxCancels
  /\ cancels' = [cancels EXCEPT ![t] = @ + 1]
  /\ IF t \in running
     THEN cancelled' = cancelled \cup {t} /\ Cancel(t)
     ELSE UNCHANGED <<task, running, cancelled, reply, inflight, dropped>>
  /\ UNCHANGED <<loop, stopping, issued, received, empty, broken>>

\* A handler's executor is broken: run() raises the exception.  A task that
\* the poll returned at the same time is lost.
RaiseFromExceptionQueue ==
  /\ loop = "polling"
  /\ broken
  /\ loop' = "raised"
  /\ \E lost \in SUBSET {t \in Tokens : task[t] = "none" /\ t \notin issued} :
       /\ Cardinality(lost) <= 1
       /\ issued' = issued \cup lost
  /\ UNCHANGED <<stopping, cancels, task, running, cancelled, reply, sendVars,
                 broken, dropped>>

PollFails ==
  /\ loop = "polling"
  /\ loop' = "raised"
  /\ UNCHANGED <<coreVars, task, running, cancelled, reply, sendVars, broken, dropped>>

\* Worker._run: initiate_shutdown, and a drain in the place of a failed run().
Shutdown ==
  /\ ~stopping
  /\ stopping' = TRUE
  /\ loop' = IF loop = "raised" THEN "draining" ELSE loop
  /\ UNCHANGED <<issued, cancels, task, running, cancelled, reply, sendVars,
                 broken, dropped>>

\* A poll loop that fails after the shutdown has begun is not drained.
PollShutdown ==
  /\ stopping
  /\ loop \in {"polling", "draining", "raised"}
  /\ loop' = "stopped"
  /\ UNCHANGED <<coreVars, task, running, cancelled, reply, sendVars, broken, dropped>>

\* drain_poll_queue: a start or cancel operation is answered as failed.
DrainTask(t) ==
  /\ loop = "draining"
  /\ task[t] = "none"
  /\ t \notin issued
  /\ received[t] = 0
  /\ received' = [received EXCEPT ![t] = @ + 1]
  /\ UNCHANGED <<loop, coreVars, task, running, cancelled, reply, inflight,
                 empty, broken, dropped>>

\* A cancel_task has no field "task": the answer's token is empty.
DrainCancel(t) ==
  /\ loop = "draining"
  /\ t \in issued
  /\ cancels[t] < MaxCancels
  /\ cancels' = [cancels EXCEPT ![t] = @ + 1]
  /\ empty' = TRUE
  /\ UNCHANGED <<loop, stopping, issued, task, running, cancelled, reply,
                 inflight, received, broken, dropped>>

\* wait_all_completed returns: all tasks have ended.
WaitAllCompleted ==
  /\ loop = "stopped"
  /\ running = {}
  /\ loop' = "waited"
  /\ UNCHANGED <<coreVars, task, running, cancelled, reply, sendVars, broken, dropped>>

-----------------------------------------------------------------------------
(***************************************************************************)
(* _handle_start_operation_task and _handle_cancel_operation_task.         *)
(***************************************************************************)

\* The user's handler returns a response, an OperationError included.
HandlerReturns(t) ==
  /\ task[t] = "handler"
  /\ task' = [task EXCEPT ![t] = "encoding"]
  /\ reply' = [reply EXCEPT ![t] = "response"]
  /\ UNCHANGED <<loop, coreVars, running, cancelled, sendVars, broken, dropped>>

\* (mutant) Ends the task at once.
HandlerRaisesUnanswered(t) ==
  /\ task[t] = "handler"
  /\ task' = [task EXCEPT ![t] = "ended"]
  /\ running' = running \ {t}
  /\ reply' = [reply EXCEPT ![t] = "failure"]
  /\ UNCHANGED <<loop, coreVars, cancelled, sendVars, broken, dropped>>

\* It raises; a broken executor fails the worker.
HandlerRaises(t) ==
  /\ task[t] = "handler"
  /\ task' = [task EXCEPT ![t] = "encodingFailure"]
  /\ reply' = [reply EXCEPT ![t] = "failure"]
  /\ \E b \in BOOLEAN : broken' = (broken \/ b)
  /\ UNCHANGED <<loop, coreVars, running, cancelled, sendVars, dropped>>

\* It raises CancelledError on its own: ack_cancel is whether the core asked.
HandlerRaisesCancelled(t) ==
  /\ task[t] = "handler"
  /\ task' = [task EXCEPT ![t] = "completing"]
  /\ reply' = [reply EXCEPT ![t] = IF t \in cancelled THEN "ack" ELSE "noack"]
  /\ inflight' = [inflight EXCEPT ![t] = @ + 1]
  /\ UNCHANGED <<loop, coreVars, running, cancelled, received, empty, broken, dropped>>

\* _encode_completion is done; _complete_task sends.
Encoded(t) ==
  /\ task[t] \in {"encoding", "encodingFailure"}
  /\ task' = [task EXCEPT ![t] = "completing"]
  /\ inflight' = [inflight EXCEPT ![t] = @ + 1]
  /\ UNCHANGED <<loop, coreVars, running, cancelled, reply, received, empty,
                 broken, dropped>>

\* Encoding a response raises: a failure is encoded instead.  Encoding a
\* failure raises: it is logged, the task ends without a completion.
EncodeFails(t) ==
  /\ \/ /\ task[t] = "encoding"
        /\ task' = [task EXCEPT ![t] = "encodingFailure"]
        /\ reply' = [reply EXCEPT ![t] = "failure"]
        /\ UNCHANGED <<running, dropped>>
     \/ /\ task[t] = "encodingFailure"
        /\ task' = [task EXCEPT ![t] = "ended"]
        /\ running' = running \ {t}
        /\ dropped' = dropped \cup {<<t, "codec">>}
        /\ UNCHANGED reply
  /\ UNCHANGED <<loop, coreVars, cancelled, sendVars, broken>>

\* The bridge has sent the completion; the task, if it still waits, ends.
Sent(t) ==
  /\ inflight[t] > 0
  /\ inflight' = [inflight EXCEPT ![t] = @ - 1]
  /\ received' = [received EXCEPT ![t] = @ + 1]
  /\ issued' = issued \ {t}
  /\ task' = [task EXCEPT ![t] = "ended"]
  /\ running' = running \ {t}
  /\ UNCHANGED <<loop, stopping, cancels, cancelled, reply, empty, broken, dropped>>

\* complete_nexus_task raises: it is logged, the task ends, and the core has no
\* completion.
SendFails(t) ==
  /\ inflight[t] > 0
  /\ inflight' = [inflight EXCEPT ![t] = @ - 1]
  /\ task' = [task EXCEPT ![t] = "ended"]
  /\ running' = running \ {t}
  /\ dropped' = dropped \cup {<<t, "send">>}
  /\ UNCHANGED <<loop, coreVars, cancelled, reply, received, empty, broken>>

Handle(t) ==
  \/ HandlerReturns(t) \/ HandlerRaises(t) \/ HandlerRaisesCancelled(t)
  \/ Encoded(t) \/ EncodeFails(t) \/ Sent(t) \/ SendFails(t)

Next ==
  \/ \E t \in Tokens :
       PollTask(t) \/ PollCancel(t) \/ DrainTask(t) \/ DrainCancel(t) \/ Handle(t)
  \/ RaiseFromExceptionQueue \/ PollFails
  \/ Shutdown \/ PollShutdown \/ WaitAllCompleted

Spec == Init /\ [][Next]_vars

\* The event loop runs the tasks, handlers end, and the bridge sends.
FairSpec ==
  /\ Spec
  /\ \A t \in Tokens : WF_vars(Handle(t))
  /\ WF_vars(PollShutdown)
  /\ WF_vars(WaitAllCompleted)

-----------------------------------------------------------------------------
\* Types; a completion has been built exactly when the handler has ended, and
\* _running_tasks holds exactly the tasks that have not ended: a cancel_task
\* finds its task as long as there is something to cancel.
TypeOK ==
  /\ loop \in {"polling", "raised", "draining", "stopped", "waited"}
  /\ issued \subseteq Tokens
  /\ task \in [Tokens -> {"none", "handler", "encoding", "encodingFailure",
                          "completing", "ended"}]
  /\ running \subseteq Tokens
  /\ cancelled \subseteq Tokens
  /\ cancels \in [Tokens -> 0..MaxCancels]
  /\ reply \in [Tokens -> {"none", "response", "failure", "ack", "noack"}]
  /\ inflight \in [Tokens -> Nat]
  /\ received \in [Tokens -> Nat]
  /\ dropped \subseteq Tokens \X {"cancel", "codec", "send"}
  /\ {stopping, empty, broken} \subseteq BOOLEAN
  /\ \A t \in Tokens : reply[t] = "none" <=> task[t] \in {"none", "handler"}
  /\ running = {t \in Tokens : task[t] \notin {"none", "ended"}}

\* The core gets at most one completion of a task, also when a cancellation
\* overtakes the response, and none for a task it has not given out; and
\* wait_all_completed returns after the last task has ended.
CompletedOnce ==
  \A t \in Tokens :
    /\ received[t] + inflight[t] <= 1
    /\ inflight[t] > 0 => t \in issued
    /\ loop = "waited" => task[t] \in {"none", "ended"}

\* Every task that run() takes on is answered, whatever is cancelled, with three
\* exceptions, each recorded in dropped: a cancellation arrived while its failure
\* was encoded, the codec raised on that failure too, or complete_nexus_task
\* raised, which is only logged.
TasksAnswered ==
  \A t \in Tokens : (task[t] # "none") ~>
    (received[t] > 0 \/ \E d \in dropped : d[1] = t)

\* "Task completion should never be dropped in case of cancellation."
NotDroppedOnCancel == \A d \in dropped : d[2] # "cancel"

\* Worker._run: "Let all activity / nexus operations completions finish":
\* when wait_all_completed has returned, no completion is still on its way.
CompletionsFinished == loop = "waited" => \A t \in Tokens : inflight[t] = 0

\* drain_poll_queue: "Take all tasks and say we can't handle them": what it
\* sends names a task.
DrainNamesTask == ~empty

=============================================================================
