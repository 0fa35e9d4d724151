------------------------- MODULE WorkerLifecycleProofs -------------------------
(***************************************************************************)
(* Proofs about WorkerLifecycle: what run() has left behind when the       *)
(* complete event is set, and that no failure is lost on the way, for any  *)
(* set of sub-workers, any number of callers of shutdown() and any number  *)
(* of cancellations.  And about NexusWorker, one of the sub-workers, for   *)
(* any number of tasks and of their cancellations.                         *)
(***************************************************************************)
EXTENDS WorkerLifecycle, TLAPS

\* What the poll tasks have left: tasks only while they poll, or where
\* wait_all_completed waits for them, and a drain for every early failure.
PollInv ==
  \A w \in Workers :
    /\ poll[w] = "off" \/ (w = "workflow" /\ poll[w] # "running") => w \notin unfinished
    /\ phase \in {"idle", "validating"} => poll[w] = "off"
    /\ w \in early => IF coreStopped THEN poll[w] \in {"draining", "ended", "undrained"}
                                     ELSE poll[w] = "failed"

\* What each await of the shutdown sequence has waited for.
SequenceInv ==
  /\ phase \in {"waitActivity", "waitNexus", "finalizing"} \/ complete =>
       \A w \in Workers : poll[w] \in Stopped
  /\ phase \in {"waitNexus", "finalizing"} => "activity" \notin unfinished
  /\ phase = "finalizing" => "nexus" \notin unfinished
  /\ complete => phase \in Ended /\ coreStopped /\ unfinished = {}

\* An early failure is in the exception as soon as the shutdown has begun.
ExceptionInv ==
  /\ early # {} /\ coreStopped => exception # "none"
  /\ phase = "handler" => exception # "none"
  /\ phase = "returned" => coreStopped /\ exception = "none"

\* An error that run() ends with has cancelled the block, unless it had ended.
ContextInv ==
  /\ ctxOut # "none" => ctx = "exited"
  /\ ctxOut = "ok" => complete /\ (exception = "none" \/ swallowed)
  /\ complete /\ exception # "none" /\ ctx \in {"body", "aexit"} =>
       ctxCancel \/ swallowed \/ ctxExc = "cancel"

IInv == TypeOK /\ PollInv /\ SequenceInv /\ ExceptionInv /\ ContextInv
-----------------------------------------------------------------------------
\* The initial state satisfies the invariant.
LEMMA InitInv == Init => IInv
<1> SUFFICES ASSUME Init PROVE IInv
  OBVIOUS
<1>1. TypeOK
  BY LifecycleAssumption, Zenon DEF Init, TypeOK, Running, Ended
<1>2. PollInv /\ SequenceInv /\ ExceptionInv /\ ContextInv
  BY DEF Init, PollInv, SequenceInv, ExceptionInv, ContextInv, Running, Ended
<1> QED
  BY <1>1, <1>2 DEF IInv

\* Every step of run(), of the poll loops, of the callers and of the block
\* preserves the invariant.
LEMMA NextInv == IInv /\ [Next]_vars => IInv'
<1> SUFFICES ASSUME IInv, [Next]_vars PROVE IInv'
  OBVIOUS
<1> USE LifecycleAssumption DEF IInv, TypeOK, PollInv, SequenceInv, ExceptionInv, ContextInv,
                                Running, Ended, Stopped, Kinds, ctxVars, pollVars
<1>1. CASE CallRun
  BY <1>1 DEF CallRun
<1>2. CASE AEnter
  BY <1>2 DEF AEnter
<1>3. CASE Validated
  BY <1>3 DEF Validated
<1>4. CASE ValidateFails
  BY <1>4 DEF ValidateFails, RaiseOut, EndContextRun
<1>5. CASE WaitReturns
  <2>1. exception' \in {"none", "failure"} /\ (early # {} => exception' = "failure")
    BY <1>5, Zenon DEF WaitReturns, FirstException
  <2>2. /\ phase = "waiting"
        /\ UNCHANGED <<unfinished, early, requested, complete, cancels, caller, ctxVars>>
    BY <1>5 DEF WaitReturns
  <2>3. CASE exception' # "none" /\ HasFatalHandler
    <3>1. phase' = "handler" /\ UNCHANGED <<poll, coreStopped>>
      BY <1>5, <2>3 DEF WaitReturns
    <3> QED
      BY <2>1, <2>2, <2>3, <3>1
  <2>4. CASE BeginShutdown
    BY <2>1, <2>2, <2>4 DEF BeginShutdown
  <2> QED
    BY <1>5, <2>3, <2>4 DEF WaitReturns
<1>6. CASE HandlerDone
  BY <1>6 DEF HandlerDone, BeginShutdown
<1>7. CASE PollersStopped
  BY <1>7 DEF PollersStopped
<1>8. CASE ActivitiesCompleted
  BY <1>8 DEF ActivitiesCompleted
<1>9. CASE ActivityWaitRaises
  BY <1>9 DEF ActivityWaitRaises, RaiseOut, EndContextRun
<1>10. CASE NexusCompleted
  BY <1>10 DEF NexusCompleted
<1>11. CASE Finalized
  BY <1>11, ZenonT(30) DEF Finalized, FinishRun, EndContextRun
<1>12. CASE CancelRun
  <2>1. CASE phase = "waiting"
    BY <1>12, <2>1 DEF CancelRun, Cancelled, BeginShutdown
  <2>2. CASE phase = "handler"
    BY <1>12, <2>2 DEF CancelRun, Cancelled, BeginShutdown
  <2>3. CASE phase = "finalizing"
    BY <1>12, <2>3 DEF CancelRun, Cancelled, FinishRun, EndContextRun
  <2>4. CASE phase \notin {"waiting", "handler", "finalizing"}
    BY <1>12, <2>4 DEF CancelRun, Cancelled, RaiseOut, EndContextRun
  <2> QED
    BY <2>1, <2>2, <2>3, <2>4
<1>13. ASSUME NEW w \in Workers, TaskStarts(w) PROVE IInv'
  BY <1>13 DEF TaskStarts
<1>14. ASSUME NEW w \in Workers, TaskEnds(w) PROVE IInv'
  BY <1>14 DEF TaskEnds
<1>15. ASSUME NEW w \in Workers, PollFails(w) PROVE IInv'
  BY <1>15 DEF PollFails, MayEnd
<1>16. ASSUME NEW w \in Workers, DrainFails(w) PROVE IInv'
  BY <1>16 DEF DrainFails
<1>17. ASSUME NEW w \in Workers, PollShutdown(w) PROVE IInv'
  BY <1>17 DEF PollShutdown, MayEnd
<1>18. ASSUME NEW c \in Callers, CallShutdown(c) PROVE IInv'
  BY <1>18 DEF CallShutdown
<1>19. ASSUME NEW c \in Callers, ShutdownReturns(c) PROVE IInv'
  BY <1>19 DEF ShutdownReturns
<1>20. CASE BodyEnds
  BY <1>20 DEF BodyEnds
<1>21. CASE BodyCancelled
  BY <1>21, ZenonT(30) DEF BodyCancelled
<1>22. CASE AExitReturns
  BY <1>22 DEF AExitReturns
<1>23. CASE AExitCancelled
  BY <1>23, ZenonT(30) DEF AExitCancelled
<1>24. CASE UNCHANGED vars
  BY <1>24 DEF vars
<1> QED
  BY <1>1, <1>2, <1>3, <1>4, <1>5, <1>6, <1>7, <1>8, <1>9, <1>10, <1>11, <1>12,
     <1>13, <1>14, <1>15, <1>16, <1>17, <1>18, <1>19, <1>20, <1>21, <1>22, <1>23, <1>24,
     Zenon
  DEF Next, RunStep, ContextStep

-----------------------------------------------------------------------------
\* The invariant holds in every reachable state.
THEOREM Invariant == Spec => []IInv
  BY InitInv, NextInv, PTL DEF Spec

\* CompleteMeansStopped: whenever _shutdown_complete_event is set, so whenever
\* shutdown() has returned, every poll task has ended, the drain of each one
\* that failed early is over, and no task of a sub-worker is left.
THEOREM StopsBeforeComplete == Spec => []CompleteMeansStopped
<1>1. IInv => CompleteMeansStopped
  BY DEF IInv, TypeOK, PollInv, SequenceInv, CompleteMeansStopped, Stopped
<1> QED
  BY <1>1, Invariant, PTL

\* EarlyFailureRaised: run() never returns normally after a poll loop has failed
\* before the shutdown, however shutdown() and cancellations interleave.
THEOREM RaisesEarlyFailure == Spec => []EarlyFailureRaised
<1>1. IInv => EarlyFailureRaised
  BY DEF IInv, ExceptionInv, EarlyFailureRaised
<1> QED
  BY <1>1, Invariant, PTL

\* ContextNeverHidesError: `async with worker` ends normally only if run() had
\* no error, or the body swallowed the cancellation that told of it.
THEOREM ContextTellsError == Spec => []ContextNeverHidesError
<1>1. IInv => ContextNeverHidesError
  BY DEF IInv, ContextInv, ContextNeverHidesError
<1> QED
  BY <1>1, Invariant, PTL

-----------------------------------------------------------------------------
\* The Nexus worker, by itself.
CONSTANTS Tokens, MaxCancelTasks
VARIABLES loop, stopping, issued, task, running, cancelled, cancelTasks, reply,
          inflight, received, empty, broken, dropped

Nexus == INSTANCE NexusWorker WITH MaxCancels <- MaxCancelTasks, cancels <- cancelTasks

\* The completion of a task is on its way exactly while the task sends it, or
\* when a cancellation has ended the task while it was being sent.
NexusInv ==
  /\ issued \subseteq Tokens
  /\ task \in [Tokens -> {"none", "handler", "encoding", "encodingFailure", "completing", "ended"}]
  /\ running = {t \in Tokens : task[t] \notin {"none", "ended"}}
  /\ inflight \in [Tokens -> Nat]
  /\ received \in [Tokens -> Nat]
  /\ \A t \in Tokens :
       /\ received[t] + inflight[t] <= 1
       /\ inflight[t] > 0 => t \in issued /\ task[t] \in {"completing", "ended"}
       /\ task[t] = "completing" => inflight[t] = 1
       /\ task[t] \in {"handler", "encoding", "encodingFailure"} =>
            t \in issued /\ received[t] = 0
       /\ loop = "waited" => task[t] \in {"none", "ended"}

\* No task has been received at the start.
LEMMA NexusInit == Nexus!Init => NexusInv
  BY DEF Nexus!Init, NexusInv

\* Every step of the poll loop, of a task and of the core keeps NexusInv.
LEMMA NexusStep == NexusInv /\ [Nexus!Next]_(Nexus!vars) => NexusInv'
<1> SUFFICES ASSUME NexusInv, [Nexus!Next]_(Nexus!vars) PROVE NexusInv'
  OBVIOUS
<1> USE DEF NexusInv, Nexus!coreVars, Nexus!sendVars
<1> DEFINE Starts(t) ==
      /\ task[t] \in {"handler", "encoding", "encodingFailure"}
      /\ task' = [task EXCEPT ![t] = "completing"]
      /\ inflight' = [inflight EXCEPT ![t] = @ + 1]
      /\ UNCHANGED <<loop, issued, running, received>>
<1>s. ASSUME NEW t \in Tokens, Starts(t) PROVE NexusInv'
  BY <1>s
<1> HIDE DEF Starts
<1>1. CASE UNCHANGED Nexus!vars
  BY <1>1 DEF Nexus!vars
<1>2. ASSUME NEW t \in Tokens, Nexus!PollTask(t) PROVE NexusInv'
  BY <1>2 DEF Nexus!PollTask
<1>3. ASSUME NEW t \in Tokens, Nexus!PollCancel(t) PROVE NexusInv'
  <2>1. CASE t \notin running
    BY <1>3, <2>1 DEF Nexus!PollCancel
  <2>2. CASE t \in running
    <3>0. Nexus!Cancel(t) /\ UNCHANGED <<loop, issued, received>>
      BY <1>3, <2>2, Zenon DEF Nexus!PollCancel
    <3>1. CASE task[t] \in {"handler", "encoding"}
      <4>1. UNCHANGED <<loop, issued, received, running>>
        BY <3>0, <3>1, Zenon DEF Nexus!Cancel
      <4>2. \/ UNCHANGED <<task, inflight>>
            \/ /\ task' = [task EXCEPT ![t] = "completing"]
               /\ inflight' = [inflight EXCEPT ![t] = @ + 1]
        BY <3>0, <3>1, Zenon DEF Nexus!Cancel
      <4>3. CASE UNCHANGED <<task, inflight>>
        BY <4>1, <4>3
      <4>4. CASE ~UNCHANGED <<task, inflight>>
        BY <3>1, <4>1, <4>2, <4>4, <1>s, Zenon DEF Starts
      <4> QED
        BY <4>3, <4>4, Zenon
    <3>2. CASE task[t] \in {"encodingFailure", "completing"}
      BY <3>0, <3>2, <2>2, Zenon DEF Nexus!Cancel
    <3> QED
      BY <2>2, <3>1, <3>2, Zenon
  <2> QED
    BY <2>1, <2>2
<1>4. ASSUME NEW t \in Tokens, Nexus!DrainTask(t) \/ Nexus!DrainCancel(t) PROVE NexusInv'
  BY <1>4 DEF Nexus!DrainTask, Nexus!DrainCancel
<1>5. ASSUME NEW t \in Tokens,
             \/ Nexus!HandlerReturns(t) \/ Nexus!HandlerRaises(t) \/ Nexus!EncodeFails(t)
      PROVE  NexusInv'
  BY <1>5 DEF Nexus!HandlerReturns, Nexus!HandlerRaises, Nexus!EncodeFails
<1>6. ASSUME NEW t \in Tokens, Nexus!HandlerRaisesCancelled(t) \/ Nexus!Encoded(t)
      PROVE  NexusInv'
  BY <1>6, <1>s DEF Starts, Nexus!HandlerRaisesCancelled, Nexus!Encoded
<1>7. ASSUME NEW t \in Tokens, Nexus!Sent(t) \/ Nexus!SendFails(t) PROVE NexusInv'
  <2>1. CASE Nexus!Sent(t)
    BY <2>1 DEF Nexus!Sent
  <2>2. CASE Nexus!SendFails(t)
    BY <2>2 DEF Nexus!SendFails, Nexus!coreVars
  <2> QED
    BY <1>7, <2>1, <2>2
<1>8. CASE Nexus!RaiseFromExceptionQueue
  BY <1>8 DEF Nexus!RaiseFromExceptionQueue
<1>9. CASE Nexus!PollFails \/ Nexus!Shutdown \/ Nexus!PollShutdown
  BY <1>9 DEF Nexus!PollFails, Nexus!Shutdown, Nexus!PollShutdown
<1>10. CASE Nexus!WaitAllCompleted
  BY <1>10 DEF Nexus!WaitAllCompleted
<1> QED
  BY <1>1, <1>2, <1>3, <1>4, <1>5, <1>6, <1>7, <1>8, <1>9, <1>10, Zenon DEF Nexus!Next, Nexus!Handle

\* The core has at most one completion of a Nexus task, cancelled or not, and one
\* is on its way only for a task that the core still waits for; once
\* wait_all_completed has returned every task has ended.
THEOREM CompletesOnce == Nexus!Spec => []Nexus!CompletedOnce
<1>1. NexusInv => Nexus!CompletedOnce
  BY DEF NexusInv, Nexus!CompletedOnce
<1> QED
  BY <1>1, NexusInit, NexusStep, PTL DEF Nexus!Spec

=============================================================================
