---------------------------- MODULE WorkflowWorker ----------------------------
(***************************************************************************)
(* _WorkflowWorker of temporalio/worker/_workflow.py: the poll loop, the   *)
(* handling of activations and cache evictions, the cache of workflow      *)
(* instances, and the executor whose threads run the instances.            *)
(*                                                                         *)
(* Each activation has a handler, an asyncio task.  The core has at most   *)
(* one activation of a run outstanding.  asyncio.wait_for cancels the      *)
(* future of an executor call that takes longer than the deadlock timeout: *)
(* the future is then done, a call still queued is dropped, and a call     *)
(* that is running runs on.  Payloads, commands and logging are left out.  *)
(***************************************************************************)
EXTENDS Integers, Sequences, FiniteSets

CONSTANTS
  Runs,       \* the workflow runs
  Threads,    \* threads of workflow_task_executor (max_concurrent_workflow_tasks)
  MaxGen,     \* bound: instances created for a run
  MaxCalls,   \* bound: calls submitted to the executor
  MaxFails    \* bound: deadlocks, and failed evictions, of a run

ASSUME WorkflowWorkerAssumption ==
  /\ Threads \in Nat \ {0}
  /\ {MaxGen, MaxCalls, MaxFails} \subseteq Nat

VARIABLES
  loop,        \* the poll loop: run(), then drain_poll_queue()
  stopping,    \* has the core been asked to shut down?
  throwAfter,  \* _throw_after_activation is set
  ownExecutor, \* the worker created its executor: not user provided
  core,        \* what the core knows of each run: "out" of the cache, "in" it,
               \*   or "leaving" it, as its task failed or it is closed
  job,         \* the activation of each run that is outstanding
  unanswered,  \* the runs for which sending the completion has failed
  pc,          \* where its handler is
  cache,       \* the keys of _running_workflows
  gen,         \* the number of the latest instance of each run
  await,       \* the executor call the handler waits for
  result,      \* the completion: "ok", "closed" (successful, and its commands
               \*   close the run) or "failed"
  seenFail,    \* the runs whose eviction has failed
  couldNotEvict,
  fails,       \* deadlocks and failed evictions of each run
  calls,       \* the calls submitted: [run, gen, kind]
  cs,          \* and their states
  abandoned,   \* the calls whose handler gave up waiting for them
  torn         \* the instances, as pairs, that an eviction has torn down

coreVars == <<loop, stopping, throwAfter, ownExecutor, core>>
evictVars == <<seenFail, couldNotEvict, fails>>
callVars == <<calls, cs, abandoned, torn>>
handlerVars == <<job, unanswered, pc, cache, gen, await, result, evictVars, callVars>>
vars == <<coreVars, handlerVars>>

Init ==
  /\ loop = "polling"
  /\ stopping = FALSE
  /\ throwAfter = FALSE
  /\ ownExecutor \in BOOLEAN
  /\ core = [r \in Runs |-> "out"]
  /\ job = [r \in Runs |-> "none"]
  /\ unanswered = {}
  /\ pc = [r \in Runs |-> "none"]
  /\ cache = {}
  /\ gen = [r \in Runs |-> 0]
  /\ await = [r \in Runs |-> 0]
  /\ result = [r \in Runs |-> "ok"]
  /\ seenFail = {}
  /\ couldNotEvict = 0
  /\ fails = [r \in Runs |-> 0]
  /\ calls = <<>>
  /\ cs = <<>>
  /\ abandoned = {}
  /\ torn = {}

-----------------------------------------------------------------------------
(***************************************************************************)
(* The core and the poll loop.                                             *)
(***************************************************************************)

\* What the core may send: a run that is not cached starts with an initialize
\* job, a run whose task failed or that is closed is evicted next, and any
\* cached run may be.
Sendable(r) ==
  CASE core[r] = "out" -> IF gen[r] < MaxGen /\ ~stopping THEN {"init"} ELSE {}
    [] core[r] = "in" -> {"jobs", "evict"}
    [] core[r] = "leaving" -> {"evict"}

\* complete_workflow_activation: the core takes the completion.
CoreCompletes(r, ok) ==
  /\ core' = [core EXCEPT ![r] = IF job[r] = "evict" THEN "out"
                                 ELSE IF ok THEN "in" ELSE "leaving"]
  /\ job' = [job EXCEPT ![r] = "none"]
  /\ UNCHANGED unanswered

\* complete_workflow_activation raises: that is only logged, and for the core
\* the activation stays outstanding.
CompletionLost(r) ==
  /\ unanswered' = unanswered \cup {r}
  /\ UNCHANGED <<core, job>>

\* MaxCalls leaves room for the retries of every activation at work.
Room(r) ==
  LET atWork == {q \in Runs : job[q] # "none"} \cup {r}
  IN  Len(calls) + Cardinality(atWork) * (1 + MaxFails) - fails[r] <= MaxCalls

\* poll_workflow_activation returns an activation; a task handles it.
Poll(r, j) ==
  /\ loop = "polling"
  /\ job[r] = "none"
  /\ j \in Sendable(r)
  /\ Room(r)
  /\ job' = [job EXCEPT ![r] = j]
  /\ pc' = [pc EXCEPT ![r] = IF j = "evict" THEN "evictStart" ELSE "decoding"]
  /\ UNCHANGED <<coreVars, unanswered, cache, gen, await, result, evictVars, callVars>>

\* Worker._run asks the core to shut down.
Shutdown ==
  /\ ~stopping
  /\ stopping' = TRUE
  /\ UNCHANGED <<loop, throwAfter, ownExecutor, core, handlerVars>>

\* The core has evicted every run: the poll ends with PollShutdownError.
AllOut == \A r \in Runs : core[r] = "out" /\ job[r] = "none"

PollShutdown ==
  /\ loop = "polling"
  /\ stopping
  /\ AllOut
  /\ loop' = "waiting"
  /\ UNCHANGED <<stopping, throwAfter, ownExecutor, core, handlerVars>>

\* The poll fails; run() waits for the handlers before it raises.
PollFails ==
  /\ loop = "polling"
  /\ loop' = "failing"
  /\ UNCHANGED <<stopping, throwAfter, ownExecutor, core, handlerVars>>

\* (mutant) Does not wait for the handlers.
RunEndsAtOnce ==
  /\ loop \in {"waiting", "failing"}
  /\ ownExecutor => \A k \in DOMAIN cs : cs[k] \notin {"queued", "running"}
  /\ loop' = IF loop = "waiting" THEN "ended" ELSE "draining"
  /\ stopping' = TRUE
  /\ UNCHANGED <<throwAfter, ownExecutor, core, handlerVars>>

\* All handlers have ended: run() shuts the executor down, which waits for the
\* threads, unless the user provided it, and returns or raises; after a failure
\* Worker._run initiates the shutdown and drain_poll_queue takes over.
RunEnds ==
  /\ loop \in {"waiting", "failing"}
  /\ \A r \in Runs : pc[r] = "none"
  /\ ownExecutor => \A k \in DOMAIN cs : cs[k] \notin {"queued", "running"}
  /\ loop' = IF loop = "waiting" THEN "ended" ELSE "draining"
  /\ stopping' = TRUE
  /\ UNCHANGED <<throwAfter, ownExecutor, core, handlerVars>>

\* drain_poll_queue: every activation is answered as failed, evictions too.
DrainTask(r) ==
  /\ loop = "draining"
  /\ job[r] = "none"
  /\ \E j \in Sendable(r) :
       core' = [core EXCEPT ![r] = IF j = "evict" THEN "out" ELSE "leaving"]
  /\ UNCHANGED <<loop, stopping, throwAfter, ownExecutor, handlerVars>>

DrainEnds ==
  /\ loop = "draining"
  /\ AllOut
  /\ loop' = "ended"
  /\ UNCHANGED <<stopping, throwAfter, ownExecutor, core, handlerVars>>

\* A poll or a completion raises anything else, and so does drain_poll_queue.
DrainFails ==
  /\ loop = "draining"
  /\ loop' = "ended"
  /\ UNCHANGED <<stopping, throwAfter, ownExecutor, core, handlerVars>>

-----------------------------------------------------------------------------
(***************************************************************************)
(* The executor.                                                           *)
(***************************************************************************)

InThread == {k \in DOMAIN cs : cs[k] = "running"}

\* run_in_executor(executor, workflow.activate, act)
Submit(r, kind, g) ==
  /\ Len(calls) < MaxCalls
  /\ calls' = Append(calls, [run |-> r, gen |-> g, kind |-> kind])
  /\ cs' = Append(cs, "queued")
  /\ await' = [await EXCEPT ![r] = Len(calls) + 1]
  /\ UNCHANGED <<abandoned, torn>>

\* A thread takes the oldest call in the queue.
ThreadStarts(k) ==
  /\ k \in DOMAIN cs
  /\ cs[k] = "queued"
  /\ \A i \in DOMAIN cs : cs[i] = "queued" => k <= i
  /\ Cardinality(InThread) < Threads
  /\ cs' = [cs EXCEPT ![k] = "running"]
  /\ UNCHANGED <<coreVars, job, unanswered, pc, cache, gen, await, result, evictVars,
                 calls, abandoned, torn>>

\* workflow.activate returns, or raises; an eviction that returns has torn the
\* instance down.
ThreadEnds(k, ok) ==
  /\ k \in DOMAIN cs
  /\ cs[k] = "running"
  /\ LET evictionFails == ~ok /\ calls[k].kind = "evict"
         r == calls[k].run
     IN /\ evictionFails => fails[r] < MaxFails
        /\ fails' = IF evictionFails THEN [fails EXCEPT ![r] = @ + 1] ELSE fails
  /\ cs' = [cs EXCEPT ![k] = IF ok THEN "ok" ELSE "failed"]
  /\ torn' = IF ok /\ calls[k].kind = "evict"
             THEN torn \cup {<<calls[k].run, calls[k].gen>>} ELSE torn
  /\ UNCHANGED <<coreVars, job, unanswered, pc, cache, gen, await, result, seenFail,
                 couldNotEvict, calls, abandoned>>

\* A call takes too long: it runs, or waits while all threads are taken.
TakesTooLong(r) ==
  /\ fails[r] < MaxFails
  /\ \/ cs[await[r]] = "running"
     \/ cs[await[r]] = "queued" /\ Cardinality(InThread) = Threads

\* wait_for has timed out: the future is cancelled, a queued call is dropped.
CancelFuture(r) ==
  LET k == await[r]
  IN /\ cs' = [cs EXCEPT ![k] = IF cs[k] = "queued" THEN "dropped" ELSE cs[k]]
     /\ abandoned' = abandoned \cup {k}
     /\ await' = [await EXCEPT ![r] = 0]

-----------------------------------------------------------------------------
(***************************************************************************)
(* _handle_activation.                                                     *)
(***************************************************************************)

\* The activation fails in the handler: its completion says so, or, for an
\* ApplicationError that is not retryable, fails the workflow.
Fail(r, res) ==
  /\ pc' = [pc EXCEPT ![r] = "encoding"]
  /\ result' = [result EXCEPT ![r] = res]

\* Decoding or creating the instance raises, or there is no initialize job for
\* a run that is not in the cache.
DecodeFails(r) ==
  /\ pc[r] = "decoding"
  /\ \E res \in {"failed", "closed"} : Fail(r, res)
  /\ UNCHANGED <<coreVars, job, unanswered, cache, gen, await, evictVars, callVars>>

\* The activation is decoded; an instance is created if there is none, and its
\* activation submitted to the executor.
Decode(r) ==
  /\ pc[r] = "decoding"
  /\ r \in cache \/ job[r] = "init"
  /\ cache' = cache \cup {r}
  /\ gen' = [gen EXCEPT ![r] = IF r \in cache THEN @ ELSE @ + 1]
  /\ Submit(r, "act", gen'[r])
  /\ pc' = [pc EXCEPT ![r] = "activating"]
  /\ UNCHANGED <<coreVars, job, unanswered, result, evictVars>>

\* The executor call has returned (the instance reports its own errors in the
\* completion) or raised.
ActivateReturns(r) ==
  /\ pc[r] = "activating"
  /\ cs[await[r]] \in {"ok", "failed"}
  /\ pc' = [pc EXCEPT ![r] = "encoding"]
  /\ \E res \in {"ok", "closed", "failed"} :
       /\ cs[await[r]] = "failed" => res # "ok"
       /\ result' = [result EXCEPT ![r] = res]
  /\ await' = [await EXCEPT ![r] = 0]
  /\ UNCHANGED <<coreVars, job, unanswered, cache, gen, evictVars, callVars>>

\* The deadlock timeout: the thread is interrupted if it can be (and then ends
\* as a failed call), the future is kept as deadlocked_activation_task.
Deadlock(r) ==
  /\ pc[r] = "activating"
  /\ TakesTooLong(r)
  /\ fails' = [fails EXCEPT ![r] = @ + 1]
  /\ CancelFuture(r)
  /\ Fail(r, "failed")
  /\ UNCHANGED <<coreVars, job, unanswered, cache, gen, seenFail, couldNotEvict, calls, torn>>

\* The completion is encoded, or replaced by a failure if that raises.
Encode(r) ==
  /\ pc[r] = "encoding"
  /\ pc' = [pc EXCEPT ![r] = "completing"]
  /\ \E res \in {result[r], "failed"} : result' = [result EXCEPT ![r] = res]
  /\ UNCHANGED <<coreVars, job, unanswered, cache, gen, await, evictVars, callVars>>

\* The completion is sent; the handler ends, also when that fails.
Complete(r) ==
  /\ pc[r] = "completing"
  /\ CoreCompletes(r, result[r] = "ok") \/ CompletionLost(r)
  /\ pc' = [pc EXCEPT ![r] = "none"]
  /\ result' = [result EXCEPT ![r] = "ok"]
  /\ UNCHANGED <<loop, stopping, throwAfter, ownExecutor, cache, gen, await, evictVars, callVars>>

-----------------------------------------------------------------------------
(***************************************************************************)
(* _handle_cache_eviction.                                                 *)
(***************************************************************************)

\* A run that is not in the cache needs no safe eviction.
EvictAbsent(r) ==
  /\ pc[r] = "evictStart"
  /\ r \notin cache
  /\ pc' = [pc EXCEPT ![r] = "evicted"]
  /\ UNCHANGED <<coreVars, job, unanswered, cache, gen, await, result, evictVars, callVars>>

\* (mutant) Does not try again.
EvictOnce(r) ==
  /\ pc[r] = "evictStart"
  /\ r \in cache
  /\ Submit(r, "evict", gen[r])
  /\ pc' = [pc EXCEPT ![r] = "evicting"]
  /\ UNCHANGED <<coreVars, job, unanswered, cache, gen, result, evictVars>>

\* Awaiting deadlocked_activation_task does not take long: its future is
\* already cancelled.  The eviction is submitted, at first and again after
\* each sleep, as the future of an attempt that timed out is done.
EvictSubmit(r) ==
  /\ pc[r] \in {"evictStart", "sleeping"}
  /\ r \in cache
  /\ Submit(r, "evict", gen[r])
  /\ pc' = [pc EXCEPT ![r] = "evicting"]
  /\ UNCHANGED <<coreVars, job, unanswered, cache, gen, result, evictVars>>

\* "Decrement the could-not-evict-count if it finally succeeded"
Uncount(r) ==
  /\ couldNotEvict' = IF r \in seenFail THEN couldNotEvict - 1 ELSE couldNotEvict
  /\ seenFail' = seenFail \ {r}

\* (mutant) Leaves the instance in the cache.
KeepEntry(r) == UNCHANGED cache

RemoveEntry(r) == cache' = cache \ {r}

\* (mutant) Gives up on an eviction that has failed.
EvictGivesUp(r) ==
  /\ pc[r] = "evicting"
  /\ cs[await[r]] \in {"ok", "failed"}
  /\ Uncount(r)
  /\ RemoveEntry(r)
  /\ await' = [await EXCEPT ![r] = 0]
  /\ pc' = [pc EXCEPT ![r] = "evicted"]
  /\ UNCHANGED <<coreVars, job, unanswered, gen, result, fails, callVars>>

\* The eviction has returned: the instance leaves the cache.
EvictReturns(r) ==
  /\ pc[r] = "evicting"
  /\ cs[await[r]] = "ok"
  /\ Uncount(r)
  /\ RemoveEntry(r)
  /\ await' = [await EXCEPT ![r] = 0]
  /\ pc' = [pc EXCEPT ![r] = "evicted"]
  /\ UNCHANGED <<coreVars, job, unanswered, gen, result, fails, callVars>>

\* Only the first failure of an eviction is logged and counted.
SeeFail(r) ==
  /\ seenFail' = seenFail \cup {r}
  /\ couldNotEvict' = IF r \in seenFail THEN couldNotEvict ELSE couldNotEvict + 1

\* The attempt raised or timed out; try again in two seconds.
EvictFails(r) ==
  /\ pc[r] = "evicting"
  /\ \/ /\ cs[await[r]] = "failed"
        /\ await' = [await EXCEPT ![r] = 0]
        /\ UNCHANGED <<cs, abandoned, fails>>
     \/ /\ TakesTooLong(r)
        /\ CancelFuture(r)
        /\ fails' = [fails EXCEPT ![r] = @ + 1]
  /\ SeeFail(r)
  /\ pc' = [pc EXCEPT ![r] = "sleeping"]
  /\ UNCHANGED <<coreVars, job, unanswered, cache, gen, result, calls, torn>>

\* The completion of the eviction is sent, and whether or not that fails, the
\* eviction hook runs; if the hook raises, the worker shuts down.
EvictComplete(r) ==
  /\ pc[r] = "evicted"
  /\ CoreCompletes(r, TRUE) \/ CompletionLost(r)
  /\ pc' = [pc EXCEPT ![r] = "none"]
  /\ \E raises \in BOOLEAN :
       /\ throwAfter' = (throwAfter \/ raises)
       /\ stopping' = (stopping \/ raises)
  /\ UNCHANGED <<loop, ownExecutor, cache, gen, await, result, evictVars, callVars>>

Handler(r) ==
  \/ DecodeFails(r) \/ Decode(r) \/ ActivateReturns(r) \/ Deadlock(r)
  \/ Encode(r) \/ Complete(r)
  \/ EvictAbsent(r) \/ EvictSubmit(r) \/ EvictReturns(r) \/ EvictFails(r)
  \/ EvictComplete(r)

Thread(k) == ThreadStarts(k) \/ \E ok \in BOOLEAN : ThreadEnds(k, ok)

Next ==
  \/ \E r \in Runs : \E j \in {"init", "jobs", "evict"} : Poll(r, j)
  \/ \E r \in Runs : Handler(r) \/ DrainTask(r)
  \/ \E k \in DOMAIN cs : Thread(k)
  \/ Shutdown \/ PollShutdown \/ PollFails \/ RunEnds \/ DrainEnds \/ DrainFails

Spec == Init /\ [][Next]_vars

\* The event loop runs the handlers, the threads get time, and the workflow
\* code that an activation runs ends.
FairSpec ==
  /\ Spec
  /\ \A r \in Runs : WF_vars(Handler(r))
  /\ WF_vars(\E k \in DOMAIN cs : ThreadStarts(k))
  /\ WF_vars(\E k \in DOMAIN cs, ok \in BOOLEAN : ThreadEnds(k, ok))

-----------------------------------------------------------------------------
\* Types.
TypeOK ==
  /\ loop \in {"polling", "waiting", "failing", "draining", "ended"}
  /\ {stopping, throwAfter, ownExecutor} \subseteq BOOLEAN
  /\ core \in [Runs -> {"out", "in", "leaving"}]
  /\ job \in [Runs -> {"none", "init", "jobs", "evict"}]
  /\ pc \in [Runs -> {"none", "decoding", "activating", "encoding", "completing",
                      "evictStart", "evicting", "sleeping", "evicted"}]
  /\ unanswered \subseteq Runs
  /\ cache \subseteq Runs
  /\ gen \in [Runs -> Nat]
  /\ await \in [Runs -> 0..Len(cs)]
  /\ result \in [Runs -> {"ok", "closed", "failed"}]
  /\ seenFail \subseteq Runs
  /\ couldNotEvict \in Nat
  /\ Len(calls) = Len(cs)
  /\ abandoned \subseteq DOMAIN cs
  /\ \A k \in DOMAIN cs : cs[k] \in {"queued", "running", "ok", "failed", "dropped"}

\* The cache agrees with what the core believes: a run that the core holds as
\* cached and is not evicting is in _running_workflows, so "Missing initialize
\* workflow, workflow could have unexpectedly been removed from cache" is never
\* raised, and a run that the core has evicted is not, so that its next
\* activation, which may arrive at once, gets a fresh instance.  It does so also
\* when a completion that was sent is lost.
CacheMatchesCore ==
  loop \in {"polling", "waiting", "failing"} =>
    \A r \in Runs :
      /\ core[r] = "in" /\ job[r] # "evict" => r \in cache
      /\ core[r] = "out" /\ job[r] = "none" => r \notin cache

\* "It is very important that eviction complete successfully": an instance that
\* has left the cache was torn down by an eviction that returned, whatever
\* deadlocks, failures and retries came before; and _could_not_evict_count, of
\* which notify_shutdown warns, is the number of runs whose eviction has failed
\* and is being retried.
EvictedTornDown ==
  /\ \A r \in Runs : \A g \in 1..gen[r] :
       ~(r \in cache /\ g = gen[r]) => <<r, g>> \in torn
  /\ couldNotEvict = Cardinality(seenFail)
  /\ \A r \in seenFail : job[r] = "evict"

\* Once run() has ended, also after a poll failure, no workflow is entered any
\* more: no handler is left, and no call waits in the executor, whoever owns it.
\* A thread still in a workflow belongs to a user's executor, and runs a call
\* that was reported as deadlocked, or an eviction that was, when it timed out.
EndsQuiet ==
  loop \in {"draining", "ended"} =>
    /\ \A r \in Runs : pc[r] = "none"
    /\ \A k \in DOMAIN cs : cs[k] # "queued"
    /\ InThread \subseteq (IF ownExecutor THEN {} ELSE abandoned)

\* Every activation is answered in the end, although evictions retry, unless
\* complete_workflow_activation itself fails, which the worker only logs.
ActivationsAnswered ==
  \A r \in Runs : (job[r] # "none") ~> (job[r] = "none" \/ r \in unanswered)

\* "we cannot safely evict until that task is done with its thread": while an
\* eviction runs in an instance, no deadlocked activation does.
EvictsAfterDeadlock ==
  \A i, k \in InThread :
    calls[i].kind = "act" /\ calls[k].kind = "evict" =>
      <<calls[i].run, calls[i].gen>> # <<calls[k].run, calls[k].gen>>

\* "We only create the eviction task if we haven't already or it is done":
\* no two threads evict the same instance.
OneEvictionThread ==
  \A i, k \in InThread :
    calls[i].kind = "evict" /\ calls[k].kind = "evict" /\ i # k =>
      <<calls[i].run, calls[i].gen>> # <<calls[k].run, calls[k].gen>>

\* "Potential deadlock detected: workflow didn't yield within ... second(s)":
\* an activation that is failed for a deadlock has been running.
DeadlockedHadStarted ==
  \A k \in DOMAIN cs : cs[k] = "dropped" => calls[k].kind # "act"

=============================================================================
