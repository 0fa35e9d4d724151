------------------------- MODULE WorkflowWorkerProofs -------------------------
(***************************************************************************)
(* Proofs about WorkflowWorker: the cache agrees with the core, an         *)
(* instance leaves the cache only when it is torn down, and run() leaves   *)
(* nothing running, for any set of runs, any number of threads and any     *)
(* number of deadlocks and failed evictions.  And about the interruption   *)
(* of the deadlocked activations, which is a module of its own.            *)
(***************************************************************************)
EXTENDS WorkflowWorker, FiniteSetTheorems, TLAPS

Calls == [run : Runs, gen : Nat, kind : {"act", "evict"}]
CallStates == {"queued", "running", "ok", "failed", "dropped"}
Evicting == {"evictStart", "evicting", "sleeping", "evicted"}

Types ==
  /\ loop \in {"polling", "waiting", "failing", "draining", "ended"}
  /\ core \in [Runs -> {"out", "in", "leaving"}]
  /\ job \in [Runs -> {"none", "init", "jobs", "evict"}]
  /\ pc \in [Runs -> {"none", "decoding", "activating", "encoding", "completing"} \cup Evicting]
  /\ gen \in [Runs -> Nat]
  /\ await \in [Runs -> Nat]
  /\ result \in [Runs -> {"ok", "closed", "failed"}]
  /\ calls \in Seq(Calls)
  /\ cs \in Seq(CallStates)
  /\ Len(calls) = Len(cs)

\* The handler of an activation: its job, the executor call it waits for, and
\* the instance it works on.
HandlerInv ==
  \A r \in Runs :
    /\ job[r] = "none" => pc[r] = "none"
    /\ pc[r] = "none" => job[r] = "none" \/ r \in unanswered
    /\ r \in unanswered => pc[r] = "none" /\ job[r] # "none"
    /\ job[r] = "evict" => pc[r] \in Evicting \cup {"none"}
    /\ pc[r] \in Evicting => job[r] = "evict"
    /\ pc[r] = "evicted" => r \notin cache
    /\ pc[r] \in {"activating", "evicting"} => await[r] \in 1..Len(cs)
    /\ pc[r] \in {"activating", "evicting", "sleeping"} => r \in cache
    /\ pc[r] \in {"encoding", "completing"} /\ result[r] = "ok" => r \in cache

\* The cache and the core, until drain_poll_queue answers for the worker.
CoreInv ==
  loop \in {"polling", "waiting", "failing"} =>
    \A r \in Runs :
      /\ job[r] = "jobs" => core[r] = "in"
      /\ job[r] = "init" => core[r] = "out"
      /\ job[r] = "evict" => core[r] # "out"
      /\ core[r] = "in" /\ job[r] # "evict" => r \in cache
      /\ core[r] = "out" /\ job[r] = "none" => r \notin cache

\* All instances but the one in the cache are torn down.
InstanceInv ==
  \A r \in Runs : \A g \in 1..gen[r] : ~(r \in cache /\ g = gen[r]) => <<r, g>> \in torn

\* The call that an eviction waits for is one of the instance in the cache, and
\* such a call has torn its instance down when it has returned.
EvictCallInv ==
  \A r \in Runs : pc[r] = "evicting" =>
    /\ calls[await[r]].run = r
    /\ calls[await[r]].gen = gen[r]
    /\ calls[await[r]].kind = "evict"

ReturnedInv ==
  \A k \in 1..Len(cs) :
    cs[k] = "ok" /\ calls[k].kind = "evict" => <<calls[k].run, calls[k].gen>> \in torn

\* The evictions that have failed.
CountInv ==
  /\ IsFiniteSet(seenFail)
  /\ couldNotEvict = Cardinality(seenFail)
  /\ \A r \in seenFail : r \in Runs /\ pc[r] \in {"evicting", "sleeping"}

\* A call that waits in the executor has a handler that waits for it, and so has
\* one that runs, unless its handler gave it up.
Awaited(k) == \E r \in Runs : pc[r] \in {"activating", "evicting"} /\ await[r] = k

AwaitedInv ==
  \A k \in 1..Len(cs) :
    /\ cs[k] = "queued" => Awaited(k)
    /\ cs[k] = "running" => Awaited(k) \/ k \in abandoned

\* Once run() has ended there is no handler, and no call in its own executor.
QuietInv ==
  loop \in {"draining", "ended"} =>
    /\ \A r \in Runs : pc[r] = "none"
    /\ ownExecutor => \A k \in 1..Len(cs) : cs[k] \notin {"queued", "running"}

IInv ==
  /\ Types /\ HandlerInv /\ CoreInv
  /\ InstanceInv /\ EvictCallInv /\ ReturnedInv
  /\ CountInv /\ AwaitedInv /\ QuietInv

-----------------------------------------------------------------------------
\* The initial state satisfies the invariant.
LEMMA InitInv == Init => IInv
<1> SUFFICES ASSUME Init PROVE IInv
  OBVIOUS
<1> USE DEF Init
<1>1. Types
  BY DEF Types
<1>2. HandlerInv /\ CoreInv /\ AwaitedInv /\ QuietInv
  BY DEF HandlerInv, CoreInv, AwaitedInv, QuietInv, Evicting
<1>3. InstanceInv /\ EvictCallInv /\ ReturnedInv
  BY DEF InstanceInv, EvictCallInv, ReturnedInv
<1>4. CountInv
  BY FS_EmptySet DEF CountInv
<1> QED
  BY <1>1, <1>2, <1>3, <1>4 DEF IInv

\* What submitting a call does to the sequences of calls.
Submitted(r, kind, g) ==
  /\ calls' \in Seq(Calls) /\ cs' \in Seq(CallStates)
  /\ Len(cs) \in Nat /\ Len(cs') = Len(cs) + 1 /\ Len(calls') = Len(cs) + 1
  /\ \A k \in 1..Len(cs) : calls'[k] = calls[k] /\ cs'[k] = cs[k]
  /\ calls'[Len(cs) + 1].run = r
  /\ calls'[Len(cs) + 1].gen = g
  /\ calls'[Len(cs) + 1].kind = kind
  /\ cs'[Len(cs) + 1] = "queued"
  /\ await' = [await EXCEPT ![r] = Len(cs) + 1]
  /\ abandoned' = abandoned /\ torn' = torn

\* A submitted call is the last one, and its handler waits for it.
LEMMA SubmitFacts ==
  ASSUME Types, NEW r \in Runs, NEW kind \in {"act", "evict"}, NEW g \in Nat, Submit(r, kind, g)
  PROVE  Submitted(r, kind, g)
<1>1. [run |-> r, gen |-> g, kind |-> kind] \in Calls
  BY DEF Calls
<1>2. "queued" \in CallStates
  BY DEF CallStates
<1> QED
  BY <1>1, <1>2 DEF Submit, Submitted, Types

\* What happens to the calls that are awaited when one handler moves on: if it was
\* waiting, its call has ended or is given up.
LEMMA AwaitedLeave ==
  ASSUME IInv, NEW r \in Runs, Len(cs') = Len(cs), abandoned \subseteq abandoned',
         \A q \in Runs \ {r} : pc'[q] = pc[q] /\ await'[q] = await[q],
         \A k \in 1..Len(cs) : cs'[k] = cs[k] \/ cs'[k] = "dropped",
         pc[r] \in {"activating", "evicting"} =>
           /\ cs'[await[r]] # "queued"
           /\ cs'[await[r]] = "running" => await[r] \in abandoned'
  PROVE  AwaitedInv'
<1> SUFFICES ASSUME NEW k \in 1..Len(cs)
             PROVE  /\ cs'[k] = "queued" => Awaited(k)'
                    /\ cs'[k] = "running" => Awaited(k)' \/ k \in abandoned'
  BY DEF AwaitedInv
<1>1. CASE cs'[k] = "dropped"
  BY <1>1
<1>2. CASE cs'[k] = cs[k] /\ Awaited(k)
  <2>1. PICK q \in Runs : pc[q] \in {"activating", "evicting"} /\ await[q] = k
    BY <1>2 DEF Awaited
  <2>2. CASE q = r
    BY <2>1, <2>2
  <2>3. CASE q # r
    BY <2>1, <2>3 DEF Awaited
  <2> QED
    BY <2>2, <2>3
<1>3. CASE cs'[k] = cs[k] /\ ~Awaited(k)
  BY <1>3 DEF IInv, AwaitedInv
<1> QED
  BY <1>1, <1>2, <1>3

\* A submitted call is awaited.
LEMMA AwaitedSubmit ==
  ASSUME IInv, NEW r \in Runs, NEW kind \in {"act", "evict"}, NEW g \in Nat,
         Submitted(r, kind, g),
         \A q \in Runs \ {r} : pc'[q] = pc[q],
         pc[r] \notin {"activating", "evicting"},
         pc'[r] \in {"activating", "evicting"}
  PROVE  AwaitedInv'
<1> SUFFICES ASSUME NEW k \in 1..(Len(cs) + 1)
             PROVE  /\ cs'[k] = "queued" => Awaited(k)'
                    /\ cs'[k] = "running" => Awaited(k)' \/ k \in abandoned'
  BY DEF AwaitedInv, Submitted
<1>0. DOMAIN await = Runs /\ Len(cs) \in Nat
  BY DEF IInv, Types
<1>1. CASE k = Len(cs) + 1
  <2>1. await'[r] = k
    BY <1>0, <1>1 DEF Submitted
  <2> QED
    BY <2>1 DEF Awaited
<1>2. CASE k # Len(cs) + 1
  <2>1. k \in 1..Len(cs) /\ cs'[k] = cs[k] /\ abandoned' = abandoned
    BY <1>0, <1>2 DEF Submitted
  <2>2. \A q \in Runs \ {r} : await'[q] = await[q]
    BY <1>0 DEF Submitted
  <2>3. Awaited(k) => Awaited(k)'
    BY <2>2 DEF Awaited
  <2> QED
    BY <2>1, <2>3 DEF IInv, AwaitedInv
<1> QED
  BY <1>1, <1>2

\* What the core sends of a run depends on whether it holds the run as cached.
LEMMA SendableFacts ==
  ASSUME Types, NEW r \in Runs, NEW j \in Sendable(r)
  PROVE  /\ j \in {"init", "jobs", "evict"}
         /\ j = "init" => core[r] = "out"
         /\ j = "jobs" => core[r] = "in"
         /\ j = "evict" => core[r] # "out"
<1>1. CASE core[r] = "out"
  BY <1>1 DEF Sendable
<1>2. CASE core[r] = "in"
  BY <1>2 DEF Sendable
<1>3. CASE core[r] = "leaving"
  BY <1>3 DEF Sendable
<1> QED
  BY <1>1, <1>2, <1>3 DEF Types

\* An activation arrives.
LEMMA PollInv ==
  ASSUME IInv, NEW r \in Runs, NEW j \in {"init", "jobs", "evict"}, Poll(r, j)
  PROVE  IInv'
<1> USE DEF IInv, coreVars, handlerVars, evictVars, callVars
<1>0. j \in Sendable(r)
  BY DEF Poll
<1> USE SendableFacts
<1>1. Types' /\ HandlerInv'
  BY DEF Types, HandlerInv, Evicting, Poll
<1>2. CoreInv' /\ QuietInv'
  BY DEF Types, HandlerInv, CoreInv, QuietInv, Evicting, Poll
<1>3. InstanceInv' /\ EvictCallInv' /\ ReturnedInv'
  BY DEF Types, HandlerInv, InstanceInv, EvictCallInv, ReturnedInv, Poll
<1>4. CountInv'
  BY DEF Types, HandlerInv, CountInv, Evicting, Poll
<1>a. AwaitedInv'
  BY AwaitedLeave DEF Types, HandlerInv, Evicting, Poll
<1> QED
  BY <1>a, <1>1, <1>2, <1>3, <1>4

\* An activation fails before it reaches the instance.
LEMMA DecodeFailsInv ==
  ASSUME IInv, NEW r \in Runs, DecodeFails(r)
  PROVE  IInv'
<1> USE DEF IInv, coreVars, handlerVars, evictVars, callVars
<1>1. Types' /\ HandlerInv'
  BY DEF Types, HandlerInv, Evicting, DecodeFails, Fail
<1>2. CoreInv' /\ QuietInv'
  BY DEF Types, HandlerInv, CoreInv, QuietInv, Evicting, DecodeFails, Fail
<1>3. InstanceInv' /\ EvictCallInv' /\ ReturnedInv'
  BY DEF Types, HandlerInv, InstanceInv, EvictCallInv, ReturnedInv, DecodeFails, Fail
<1>4. CountInv'
  BY DEF Types, HandlerInv, CountInv, Evicting, DecodeFails, Fail
<1>a. AwaitedInv'
  BY AwaitedLeave DEF Types, HandlerInv, Evicting, DecodeFails, Fail
<1> QED
  BY <1>a, <1>1, <1>2, <1>3, <1>4

\* The executor call of an activation is done.
LEMMA ActivateReturnsInv ==
  ASSUME IInv, NEW r \in Runs, ActivateReturns(r)
  PROVE  IInv'
<1> USE DEF IInv, coreVars, handlerVars, evictVars, callVars
<1>1. Types' /\ HandlerInv'
  BY DEF Types, HandlerInv, Evicting, ActivateReturns
<1>2. CoreInv' /\ QuietInv'
  BY DEF Types, HandlerInv, CoreInv, QuietInv, Evicting, ActivateReturns
<1>3. InstanceInv' /\ EvictCallInv' /\ ReturnedInv'
  BY DEF Types, HandlerInv, InstanceInv, EvictCallInv, ReturnedInv, ActivateReturns
<1>4. CountInv'
  BY DEF Types, HandlerInv, CountInv, Evicting, ActivateReturns
<1>a. AwaitedInv'
  BY AwaitedLeave DEF Types, HandlerInv, Evicting, ActivateReturns
<1> QED
  BY <1>a, <1>1, <1>2, <1>3, <1>4

\* A completion is encoded.
LEMMA EncodeInv ==
  ASSUME IInv, NEW r \in Runs, Encode(r)
  PROVE  IInv'
<1> USE DEF IInv, coreVars, handlerVars, evictVars, callVars
<1>1. Types' /\ HandlerInv'
  BY DEF Types, HandlerInv, Evicting, Encode
<1>2. CoreInv' /\ QuietInv'
  BY DEF Types, HandlerInv, CoreInv, QuietInv, Evicting, Encode
<1>3. InstanceInv' /\ EvictCallInv' /\ ReturnedInv'
  BY DEF Types, HandlerInv, InstanceInv, EvictCallInv, ReturnedInv, Encode
<1>4. CountInv'
  BY DEF Types, HandlerInv, CountInv, Evicting, Encode
<1>a. AwaitedInv'
  BY AwaitedLeave DEF Types, HandlerInv, Evicting, Encode
<1> QED
  BY <1>a, <1>1, <1>2, <1>3, <1>4

\* A completion reaches the core.
LEMMA CompleteInv ==
  ASSUME IInv, NEW r \in Runs, Complete(r)
  PROVE  IInv'
<1> USE DEF IInv, coreVars, handlerVars, evictVars, callVars
<1>0. Types'
  BY DEF Types, Complete, CoreCompletes, CompletionLost
<1>1. HandlerInv'
  BY DEF Types, HandlerInv, Evicting, Complete, CoreCompletes, CompletionLost
<1>2. CoreInv' /\ QuietInv'
  BY ZenonT(30) DEF Types, HandlerInv, CoreInv, QuietInv, Evicting, Complete, CoreCompletes, CompletionLost
<1>3. InstanceInv' /\ EvictCallInv' /\ ReturnedInv'
  BY DEF Types, HandlerInv, InstanceInv, EvictCallInv, ReturnedInv, Complete, CoreCompletes, CompletionLost
<1>4. CountInv'
  BY Zenon DEF Types, HandlerInv, CountInv, Evicting, Complete, CoreCompletes, CompletionLost
<1>a. AwaitedInv'
  BY AwaitedLeave DEF Types, HandlerInv, Evicting, Complete
<1> QED
  BY <1>a, <1>0, <1>1, <1>2, <1>3, <1>4

\* An eviction finds no instance.
LEMMA EvictAbsentInv ==
  ASSUME IInv, NEW r \in Runs, EvictAbsent(r)
  PROVE  IInv'
<1> USE DEF IInv, coreVars, handlerVars, evictVars, callVars
<1>1. Types' /\ HandlerInv'
  BY DEF Types, HandlerInv, Evicting, EvictAbsent
<1>2. CoreInv' /\ QuietInv'
  BY DEF Types, HandlerInv, CoreInv, QuietInv, Evicting, EvictAbsent
<1>3. InstanceInv' /\ EvictCallInv' /\ ReturnedInv'
  BY DEF Types, HandlerInv, InstanceInv, EvictCallInv, ReturnedInv, EvictAbsent
<1>4. CountInv'
  BY DEF Types, HandlerInv, CountInv, Evicting, EvictAbsent
<1>a. AwaitedInv'
  BY AwaitedLeave DEF Types, HandlerInv, Evicting, EvictAbsent
<1> QED
  BY <1>a, <1>1, <1>2, <1>3, <1>4

\* An eviction has torn the instance down, which leaves the cache.
LEMMA EvictReturnsInv ==
  ASSUME IInv, NEW r \in Runs, EvictReturns(r)
  PROVE  IInv'
<1> USE DEF IInv, coreVars, handlerVars, evictVars, callVars
<1>0. /\ pc[r] = "evicting" /\ pc' = [pc EXCEPT ![r] = "evicted"]
      /\ await' = [await EXCEPT ![r] = 0] /\ cache' = cache \ {r}
      /\ UNCHANGED <<coreVars, job, unanswered, gen, result, callVars>>
  BY DEF EvictReturns, RemoveEntry
<1>1. Types' /\ HandlerInv'
  BY <1>0 DEF Types, HandlerInv, Evicting
<1>2. CoreInv'
  BY <1>0 DEF Types, HandlerInv, CoreInv, Evicting
<1>3. InstanceInv'
  <2>1. await[r] \in 1..Len(cs) /\ cs[await[r]] = "ok"
    BY DEF HandlerInv, EvictReturns
  <2>2. <<r, gen[r]>> \in torn
    BY <2>1, Zenon DEF EvictCallInv, ReturnedInv, EvictReturns
  <2> QED
    BY <1>0, <2>2 DEF InstanceInv, Types
<1>4. EvictCallInv' /\ ReturnedInv' /\ QuietInv'
  BY <1>0 DEF Types, HandlerInv, EvictCallInv, ReturnedInv, QuietInv
<1>5. CountInv'
  <2>1. Uncount(r) /\ pc' = [pc EXCEPT ![r] = "evicted"]
    BY DEF EvictReturns
  <2>2. IsFiniteSet(seenFail')
    BY <2>1, FS_RemoveElement, Zenon DEF CountInv, Uncount
  <2>3. couldNotEvict' = Cardinality(seenFail')
    <3>1. Cardinality(seenFail \ {r}) =
            IF r \in seenFail THEN Cardinality(seenFail) - 1 ELSE Cardinality(seenFail)
      BY FS_RemoveElement, Zenon DEF CountInv
    <3> QED
      BY <2>1, <3>1 DEF CountInv, Uncount
  <2> QED
    BY <2>1, <2>2, <2>3 DEF CountInv, Uncount, Types
<1>6. AwaitedInv'
  BY <1>0, AwaitedLeave DEF Types, EvictReturns
<1> QED
  BY <1>1, <1>2, <1>3, <1>4, <1>5, <1>6

\* drain_poll_queue answers an activation.
LEMMA DrainTaskInv ==
  ASSUME IInv, NEW r \in Runs, DrainTask(r)
  PROVE  IInv'
<1> USE DEF IInv, coreVars, handlerVars, evictVars, callVars
<1>1. Types' /\ HandlerInv'
  BY DEF Types, HandlerInv, Evicting, DrainTask
<1>2. CoreInv' /\ QuietInv'
  BY DEF Types, HandlerInv, CoreInv, QuietInv, Evicting, DrainTask
<1>3. InstanceInv' /\ EvictCallInv' /\ ReturnedInv'
  BY DEF Types, HandlerInv, InstanceInv, EvictCallInv, ReturnedInv, DrainTask
<1>4. CountInv'
  BY DEF Types, HandlerInv, CountInv, Evicting, DrainTask
<1>a. AwaitedInv'
  BY AwaitedLeave DEF Types, HandlerInv, Evicting, DrainTask
<1> QED
  BY <1>a, <1>1, <1>2, <1>3, <1>4

\* The activation is handed to the executor, with a new instance if there is none.
LEMMA DecodeInv ==
  ASSUME IInv, NEW r \in Runs, Decode(r)
  PROVE  IInv'
<1> USE DEF IInv, coreVars, handlerVars, evictVars, callVars
<1>0. PICK g \in Nat : g = gen'[r] /\ Submitted(r, "act", g)
  BY SubmitFacts DEF Decode, Types
<1>c. /\ gen' = [gen EXCEPT ![r] = IF r \in cache THEN @ ELSE @ + 1]
      /\ pc' = [pc EXCEPT ![r] = "activating"]
      /\ cache' = cache \cup {r} /\ torn' = torn
  BY <1>0, Zenon DEF Decode, Submitted
<1>1. Types'
  BY <1>0 DEF Types, HandlerInv, Evicting, Decode, Submitted
<1>2. HandlerInv'
  BY <1>0 DEF Types, HandlerInv, Evicting, Decode, Submitted
<1>3. CoreInv'
  BY <1>0 DEF Types, HandlerInv, CoreInv, Evicting, Decode, Submitted
<1>4. InstanceInv'
  <2>1. gen \in [Runs -> Nat] /\ DOMAIN pc = Runs
    BY Zenon DEF Types
  <2> QED
    BY <1>c, <2>1 DEF InstanceInv
<1>5. EvictCallInv'
  <2>1. /\ DOMAIN gen = Runs /\ DOMAIN pc = Runs /\ DOMAIN await = Runs
        /\ \A q \in Runs : pc[q] = "evicting" => await[q] \in 1..Len(cs)
    BY Zenon DEF Types, HandlerInv
  <2>2. ASSUME NEW q \in Runs, pc'[q] = "evicting"
        PROVE  /\ q # r /\ pc[q] = "evicting" /\ gen'[q] = gen[q]
               /\ await'[q] = await[q] /\ calls'[await[q]] = calls[await[q]]
    BY <1>0, <1>c, <2>1, <2>2 DEF Submitted
  <2> QED
    BY <2>2 DEF EvictCallInv
<1>6. ReturnedInv'
  <2>1. \A k \in 1..Len(cs') : k \in 1..Len(cs) \/ k = Len(cs) + 1
    BY <1>0 DEF Submitted
  <2>2. /\ \A k \in 1..Len(cs) : cs'[k] = cs[k] /\ calls'[k] = calls[k]
        /\ cs'[Len(cs) + 1] = "queued" /\ torn' = torn
    BY <1>0 DEF Submitted
  <2> QED
    BY <2>1, <2>2, Zenon DEF ReturnedInv
<1>7. CountInv'
  BY <1>0 DEF Types, HandlerInv, CountInv, Evicting, Decode, Submitted
<1>8. QuietInv'
  BY <1>0 DEF Types, HandlerInv, QuietInv, Evicting, Decode, Submitted
<1>a. AwaitedInv'
  BY <1>0, <1>c, AwaitedSubmit DEF Types, Decode
<1> QED
  BY <1>a, <1>1, <1>2, <1>3, <1>4, <1>5, <1>6, <1>7, <1>8

\* An eviction is handed to the executor.
LEMMA EvictSubmitInv ==
  ASSUME IInv, NEW r \in Runs, EvictSubmit(r)
  PROVE  IInv'
<1> USE DEF IInv, coreVars, handlerVars, evictVars, callVars
<1>0. gen[r] \in Nat /\ Submitted(r, "evict", gen[r])
  BY SubmitFacts DEF EvictSubmit, Types
<1>1. Types'
  BY <1>0 DEF Types, HandlerInv, Evicting, EvictSubmit, Submitted
<1>2. HandlerInv'
  BY <1>0 DEF Types, HandlerInv, Evicting, EvictSubmit, Submitted
<1>3. CoreInv'
  BY <1>0 DEF Types, HandlerInv, CoreInv, Evicting, EvictSubmit, Submitted
<1>4. InstanceInv'
  BY <1>0 DEF Types, HandlerInv, InstanceInv, Evicting, EvictSubmit, Submitted
<1>5. EvictCallInv'
  <2>1. /\ DOMAIN pc = Runs /\ DOMAIN await = Runs /\ gen' = gen
        /\ pc' = [pc EXCEPT ![r] = "evicting"]
        /\ \A q \in Runs : pc[q] = "evicting" => await[q] \in 1..Len(cs)
    BY Zenon DEF Types, HandlerInv, EvictSubmit
  <2>2. ASSUME NEW q \in Runs, q # r, pc'[q] = "evicting"
        PROVE  pc[q] = "evicting" /\ await'[q] = await[q] /\ calls'[await[q]] = calls[await[q]]
    BY <1>0, <2>1, <2>2 DEF Submitted
  <2>3. await'[r] = Len(cs) + 1
    BY <1>0, <2>1 DEF Submitted
  <2> QED
    BY <1>0, <2>1, <2>2, <2>3 DEF EvictCallInv, Submitted
<1>6. ReturnedInv'
  <2>1. \A k \in 1..Len(cs') : k \in 1..Len(cs) \/ k = Len(cs) + 1
    BY <1>0 DEF Submitted
  <2>2. /\ \A k \in 1..Len(cs) : cs'[k] = cs[k] /\ calls'[k] = calls[k]
        /\ cs'[Len(cs) + 1] = "queued" /\ torn' = torn
    BY <1>0 DEF Submitted
  <2> QED
    BY <2>1, <2>2, Zenon DEF ReturnedInv
<1>7. CountInv'
  BY <1>0 DEF Types, HandlerInv, CountInv, Evicting, EvictSubmit, Submitted
<1>8. QuietInv'
  BY <1>0 DEF Types, HandlerInv, QuietInv, Evicting, EvictSubmit, Submitted
<1>a. AwaitedInv'
  BY <1>0, AwaitedSubmit DEF Types, EvictSubmit
<1> QED
  BY <1>a, <1>1, <1>2, <1>3, <1>4, <1>5, <1>6, <1>7, <1>8

\* An activation has taken too long.
LEMMA DeadlockInv ==
  ASSUME IInv, NEW r \in Runs, Deadlock(r)
  PROVE  IInv'
<1> USE DEF IInv, coreVars, handlerVars, evictVars, callVars
<1>1. Types' /\ HandlerInv'
  BY DEF Types, HandlerInv, Evicting, Deadlock, Fail, CancelFuture, CallStates
<1>2. CoreInv' /\ QuietInv'
  BY DEF Types, HandlerInv, CoreInv, QuietInv, Evicting, Deadlock, Fail, CancelFuture, CallStates
<1>3. InstanceInv' /\ EvictCallInv' /\ ReturnedInv'
  BY DEF Types, HandlerInv, InstanceInv, EvictCallInv, ReturnedInv,
         Deadlock, Fail, CancelFuture, CallStates
<1>4. CountInv'
  BY DEF Types, HandlerInv, CountInv, Evicting, Deadlock, Fail, CancelFuture, CallStates
<1>a. AwaitedInv'
  BY AwaitedLeave DEF Types, HandlerInv, Evicting, Deadlock, Fail, CancelFuture, CallStates
<1> QED
  BY <1>a, <1>1, <1>2, <1>3, <1>4

\* An eviction has raised or taken too long.
LEMMA EvictFailsInv ==
  ASSUME IInv, NEW r \in Runs, EvictFails(r)
  PROVE  IInv'
<1> USE DEF IInv, coreVars, handlerVars, evictVars, callVars
<1> DEFINE FailFacts == /\ cs' \in Seq(CallStates) /\ Len(cs') = Len(cs)
                        /\ \A k \in 1..Len(cs) : cs'[k] \in {cs[k], "dropped"}
                        /\ await' = [await EXCEPT ![r] = 0]
                        /\ pc[r] = "evicting" /\ pc' = [pc EXCEPT ![r] = "sleeping"]
                        /\ UNCHANGED <<coreVars, job, unanswered, cache, gen, result, calls, torn>>
<1>0. FailFacts
  <2>1. await[r] \in 1..Len(cs) /\ cs \in Seq(CallStates)
    BY DEF EvictFails, Types, HandlerInv
  <2>2. CASE CancelFuture(r)
    BY <2>1, <2>2 DEF EvictFails, CancelFuture, CallStates
  <2>3. CASE cs' = cs /\ await' = [await EXCEPT ![r] = 0]
    BY <2>1, <2>3 DEF EvictFails
  <2> QED
    BY <2>2, <2>3 DEF EvictFails
<1> HIDE DEF FailFacts
<1>1. Types'
  BY <1>0 DEF Types, HandlerInv, Evicting, FailFacts, Types, HandlerInv
<1>2. HandlerInv'
  BY <1>0 DEF Types, HandlerInv, Evicting, FailFacts, Types, HandlerInv
<1>3. CoreInv'
  BY <1>0 DEF Types, HandlerInv, CoreInv, Evicting, FailFacts, Types, HandlerInv
<1>4. InstanceInv'
  BY <1>0 DEF Types, HandlerInv, InstanceInv, Evicting, FailFacts, Types, HandlerInv
<1>5. EvictCallInv'
  BY <1>0 DEF Types, HandlerInv, EvictCallInv, Evicting, FailFacts, Types, HandlerInv
<1>6. ReturnedInv'
  BY <1>0 DEF Types, HandlerInv, ReturnedInv, Evicting, FailFacts, Types, HandlerInv
<1>7. CountInv'
  <2>1. SeeFail(r) /\ pc' = [pc EXCEPT ![r] = "sleeping"] /\ DOMAIN pc = Runs
    BY DEF EvictFails, Types
  <2>2. IsFiniteSet(seenFail')
    BY <2>1, FS_AddElement DEF CountInv, SeeFail
  <2>3. couldNotEvict' = Cardinality(seenFail')
    <3>1. Cardinality(seenFail \cup {r}) =
            IF r \in seenFail THEN Cardinality(seenFail) ELSE Cardinality(seenFail) + 1
      BY FS_AddElement, Zenon DEF CountInv
    <3> QED
      BY <2>1, <3>1 DEF CountInv, SeeFail
  <2> QED
    BY <2>1, <2>2, <2>3 DEF CountInv, SeeFail
<1>8. QuietInv'
  BY <1>0 DEF Types, HandlerInv, QuietInv, Evicting, FailFacts, Types, HandlerInv
<1>a. AwaitedInv'
  <2>1. DOMAIN pc = Runs /\ DOMAIN await = Runs /\ await[r] \in 1..Len(cs) /\ cs \in Seq(CallStates)
    BY <1>0 DEF Types, HandlerInv, FailFacts
  <2>2. CASE cs[await[r]] = "failed" /\ UNCHANGED <<cs, abandoned>>
    BY <1>0, <2>1, <2>2, AwaitedLeave DEF FailFacts
  <2>3. CASE CancelFuture(r)
    <3>1. /\ abandoned' = abandoned \cup {await[r]}
          /\ cs'[await[r]] # "queued"
      BY <2>1, <2>3 DEF CancelFuture
    <3> QED
      BY <1>0, <2>1, <3>1, AwaitedLeave DEF FailFacts
  <2> QED
    BY <2>2, <2>3 DEF EvictFails
<1> QED
  BY <1>a, <1>1, <1>2, <1>3, <1>4, <1>5, <1>6, <1>7, <1>8

\* The completion of an eviction reaches the core, or is lost.  The run is not
\* evicted again, so no eviction of it is counted as failed.
LEMMA EvictCompleteInv ==
  ASSUME IInv, NEW r \in Runs, EvictComplete(r)
  PROVE  IInv'
<1> USE DEF IInv, coreVars, handlerVars, evictVars, callVars
<1>c. /\ pc[r] = "evicted" /\ pc' = [pc EXCEPT ![r] = "none"] /\ job[r] = "evict"
      /\ r \notin cache /\ r \notin unanswered
      /\ UNCHANGED <<loop, ownExecutor, cache, gen, await, result, evictVars, callVars>>
      /\ \/ /\ core' = [core EXCEPT ![r] = "out"] /\ job' = [job EXCEPT ![r] = "none"]
            /\ unanswered' = unanswered
         \/ core' = core /\ job' = job /\ unanswered' = unanswered \cup {r}
  BY DEF HandlerInv, Evicting, EvictComplete, CoreCompletes, CompletionLost
<1>0. Types'
  BY <1>c DEF Types
<1>1. HandlerInv'
  BY <1>c DEF Types, HandlerInv, Evicting
<1>2. CoreInv'
  <2>1. DOMAIN core = Runs /\ DOMAIN job = Runs
    BY DEF Types
  <2> QED
    BY <1>c, <2>1 DEF CoreInv
<1>6. QuietInv'
  BY <1>c, Zenon DEF Types, QuietInv
<1>3. InstanceInv' /\ EvictCallInv' /\ ReturnedInv'
  BY <1>c DEF Types, HandlerInv, InstanceInv, EvictCallInv, ReturnedInv
<1>4. CountInv'
  BY <1>c DEF Types, CountInv
<1>5. AwaitedInv'
  BY <1>c, AwaitedLeave DEF Types
<1> QED
  BY <1>0, <1>1, <1>2, <1>3, <1>4, <1>5, <1>6

\* A thread takes a call.
LEMMA ThreadStartsInv ==
  ASSUME IInv, NEW k \in DOMAIN cs, ThreadStarts(k)
  PROVE  IInv'
<1> USE DEF IInv, coreVars, handlerVars, evictVars, callVars
<1>1. Types' /\ HandlerInv'
  BY DEF Types, HandlerInv, Evicting, ThreadStarts, CallStates
<1>2. CoreInv' /\ QuietInv'
  BY DEF Types, HandlerInv, CoreInv, QuietInv, Evicting, ThreadStarts, CallStates
<1>3. InstanceInv' /\ EvictCallInv' /\ ReturnedInv'
  BY DEF Types, HandlerInv, InstanceInv, EvictCallInv, ReturnedInv, ThreadStarts, CallStates
<1>4. CountInv'
  BY DEF Types, HandlerInv, CountInv, Evicting, ThreadStarts, CallStates
<1>a. AwaitedInv'
  BY DEF Types, AwaitedInv, Awaited, ThreadStarts, CallStates
<1> QED
  BY <1>a, <1>1, <1>2, <1>3, <1>4

\* A call ends.
LEMMA ThreadEndsInv ==
  ASSUME IInv, NEW k \in DOMAIN cs, NEW ok \in BOOLEAN, ThreadEnds(k, ok)
  PROVE  IInv'
<1> USE DEF IInv, coreVars, handlerVars, evictVars, callVars
<1>1. Types' /\ HandlerInv'
  BY DEF Types, HandlerInv, Evicting, ThreadEnds, CallStates
<1>2. CoreInv' /\ QuietInv'
  BY DEF Types, HandlerInv, CoreInv, QuietInv, Evicting, ThreadEnds, CallStates
<1>3. InstanceInv' /\ EvictCallInv' /\ ReturnedInv'
  BY DEF Types, HandlerInv, InstanceInv, EvictCallInv, ReturnedInv, ThreadEnds, CallStates
<1>4. CountInv'
  BY DEF Types, HandlerInv, CountInv, Evicting, ThreadEnds, CallStates
<1>a. AwaitedInv'
  BY DEF Types, AwaitedInv, Awaited, ThreadEnds, CallStates
<1> QED
  BY <1>a, <1>1, <1>2, <1>3, <1>4

\* The loop moves on, or nothing changes: run() ends only when it is quiet, and
\* the loop never polls again.
LEMMA LoopInv ==
  ASSUME IInv, Shutdown \/ PollShutdown \/ PollFails \/ RunEnds \/ DrainEnds
                \/ DrainFails \/ UNCHANGED vars
  PROVE  IInv'
<1> USE DEF IInv, coreVars, handlerVars, evictVars, callVars
<1>1. UNCHANGED <<core, job, unanswered, pc, cache, gen, await, result, seenFail, couldNotEvict,
                  calls, cs, abandoned, torn, ownExecutor>>
  BY DEF Shutdown, PollShutdown, PollFails, RunEnds, DrainEnds, DrainFails, vars
<1>2. /\ loop' \in {"polling", "waiting", "failing", "draining", "ended"}
      /\ loop' \in {"polling", "waiting", "failing"} => loop \in {"polling", "waiting", "failing"}
  BY DEF Shutdown, PollShutdown, PollFails, RunEnds, DrainEnds, DrainFails, vars, Types
<1>3. Types' /\ HandlerInv' /\ CoreInv' /\ CountInv'
  BY <1>1, <1>2 DEF Types, HandlerInv, CoreInv, CountInv
<1>4. InstanceInv' /\ EvictCallInv' /\ ReturnedInv'
  BY <1>1 DEF InstanceInv, EvictCallInv, ReturnedInv
<1>5. QuietInv'
  <2>1. DOMAIN cs = 1..Len(cs)
    BY DEF Types
  <2> QED
    BY <1>1, <2>1 DEF QuietInv, Shutdown, PollShutdown, PollFails, RunEnds, DrainEnds, DrainFails, vars
<1>a. AwaitedInv'
  BY <1>1 DEF AwaitedInv, Awaited
<1> QED
  BY <1>a, <1>3, <1>4, <1>5

-----------------------------------------------------------------------------
\* The invariant holds in every reachable state.
THEOREM Invariant == Spec => []IInv
<1>1. IInv /\ [Next]_vars => IInv'
  <2> SUFFICES ASSUME IInv, [Next]_vars PROVE IInv'
    OBVIOUS
  <2>1. CASE \E r \in Runs : \E j \in {"init", "jobs", "evict"} : Poll(r, j)
    BY <2>1, PollInv
  <2>2. CASE \E r \in Runs : Handler(r) \/ DrainTask(r)
    BY <2>2, DecodeFailsInv, DecodeInv, ActivateReturnsInv, DeadlockInv, EncodeInv, CompleteInv,
       EvictAbsentInv, EvictSubmitInv, EvictReturnsInv, EvictFailsInv, EvictCompleteInv,
       DrainTaskInv, Zenon
    DEF Handler
  <2>3. CASE \E k \in DOMAIN cs : Thread(k)
    BY <2>3, ThreadStartsInv, ThreadEndsInv DEF Thread
  <2>4. CASE Shutdown \/ PollShutdown \/ PollFails \/ RunEnds \/ DrainEnds
                \/ DrainFails \/ UNCHANGED vars
    BY <2>4, LoopInv
  <2> QED
    BY <2>1, <2>2, <2>3, <2>4 DEF Next
<1> QED
  BY <1>1, InitInv, PTL DEF Spec

\* CacheMatchesCore: _running_workflows has every run that the core holds as
\* cached and none that it has evicted, for every interleaving of the handlers,
\* the executor's threads and the deadlock timeouts.
THEOREM CacheAgrees == Spec => []CacheMatchesCore
<1>1. IInv => CacheMatchesCore
  BY DEF IInv, CoreInv, CacheMatchesCore
<1> QED
  BY <1>1, Invariant, PTL

\* EvictedTornDown: an instance that has left the cache was torn down by an
\* eviction that returned, however many attempts failed or timed out, and
\* _could_not_evict_count is the number of runs with such an attempt behind them.
THEOREM EvictionTearsDown == Spec => []EvictedTornDown
<1>1. IInv => EvictedTornDown
  BY DEF IInv, InstanceInv, HandlerInv, Evicting, CountInv, EvictedTornDown
<1> QED
  BY <1>1, Invariant, PTL

\* EndsQuiet: once run() has ended no workflow is entered any more, whoever owns
\* the executor, and what a thread of a user's executor still runs was given up.
THEOREM RunEndsQuiet == Spec => []EndsQuiet
<1>1. IInv => EndsQuiet
  <2> SUFFICES ASSUME IInv, loop \in {"draining", "ended"}
               PROVE  /\ \A r \in Runs : pc[r] = "none"
                      /\ \A k \in 1..Len(cs) : cs[k] # "queued"
                      /\ \A k \in 1..Len(cs) : cs[k] = "running" => ~ownExecutor /\ k \in abandoned
    BY DEF IInv, Types, EndsQuiet, InThread
  <2>1. \A k \in 1..Len(cs) : ~Awaited(k)
    BY DEF IInv, QuietInv, Awaited
  <2> QED
    BY <2>1 DEF IInv, QuietInv, AwaitedInv
<1> QED
  BY <1>1, Invariant, PTL

-----------------------------------------------------------------------------
(***************************************************************************)
(* The interruption of a deadlocked activation, in DeadlockInterruption.   *)
(* With any number of runs and threads, and with unsandboxed workflows on  *)
(* the same executor, the interruption of a sandboxed workflow is raised   *)
(* in the activation that timed out.                                       *)
(*                                                                         *)
(* InterruptInv says why: the id of a sandboxed instance is set only while *)
(* its activation is in the workflow code of that thread, so that the      *)
(* thread that the handler has read and the thread that is marked are      *)
(* still in the activation: it cannot leave before it has the lock.        *)
(***************************************************************************)
CONSTANTS SandboxedRuns, ThreadIds, None
VARIABLES at, on, flag, id, timedOut, holder, aim, mark, dead, struck

Abort == INSTANCE DeadlockInterruption WITH Threads <- ThreadIds

\* What DeadlockInterruption assumes of its constants.
Apart == SandboxedRuns \subseteq Runs /\ None \notin Runs \cup ThreadIds

\* The activation of run r has set its thread's id.
Past(r) == at[r] \in {"inside", "leaving"}

\* No two activations are on one thread.
OwnThreads == \A r, s \in Runs : on[r] # None /\ on[r] = on[s] => r = s

\* The id of a sandboxed instance is that of the thread that runs its code.
IdCurrent ==
  \A r \in SandboxedRuns : id[r] # None => at[r] = "inside" /\ id[r] = on[r]

\* The handler holds the lock for an activation that has timed out, and the thread
\* it has read the id of is still in that activation.
AimCurrent ==
  /\ holder # None => holder \in timedOut
  /\ holder \in SandboxedRuns /\ aim # None => Past(holder) /\ on[holder] = aim

\* So is the thread that it has marked.
MarkCurrent ==
  \A t \in ThreadIds : mark[t] \in SandboxedRuns =>
    Past(mark[t]) /\ on[mark[t]] = t /\ mark[t] \in timedOut

InterruptInv ==
  /\ Abort!TypeOK
  /\ OwnThreads
  /\ IdCurrent
  /\ AimCurrent
  /\ MarkCurrent
  /\ Abort!SandboxInterruptsOwn

\* Nothing is running at the start.
LEMMA InterruptInit == Apart /\ Abort!Init => InterruptInv
BY SMTT(20) DEF Apart, Abort!Init, InterruptInv, Abort!TypeOK, OwnThreads, IdCurrent, AimCurrent,
       MarkCurrent, Abort!SandboxInterruptsOwn, Past

\* Every step of the executor's threads and of the handler keeps InterruptInv.
LEMMA InterruptStep == Apart /\ InterruptInv /\ [Abort!Next]_(Abort!vars) => InterruptInv'
<1> SUFFICES ASSUME Apart, InterruptInv, [Abort!Next]_(Abort!vars) PROVE InterruptInv'
    OBVIOUS
<1> USE DEF Apart, InterruptInv, Abort!TypeOK, OwnThreads, IdCurrent, AimCurrent, MarkCurrent,
            Abort!SandboxInterruptsOwn, Past, Abort!lockVars
<1>1. ASSUME NEW r \in Runs, Abort!Submit(r) PROVE InterruptInv'
    BY <1>1 DEF Abort!Submit
<1>2. ASSUME NEW r \in Runs, NEW t \in ThreadIds, Abort!Enter(r, t) PROVE InterruptInv'
    BY <1>2 DEF Abort!Enter, Abort!Idle
<1>3. ASSUME NEW r \in Runs, Abort!SetId(r) PROVE InterruptInv'
    BY <1>3 DEF Abort!SetId
<1>4. ASSUME NEW r \in Runs, Abort!Exit(r) PROVE InterruptInv'
    BY <1>4 DEF Abort!Exit, Abort!ResetId
<1>5. ASSUME NEW r \in Runs, Abort!Leave(r) PROVE InterruptInv'
    BY <1>5 DEF Abort!Leave
<1>6. ASSUME NEW r \in Runs, Abort!Raise(r) PROVE InterruptInv'
    BY <1>6 DEF Abort!Raise, Abort!ResetId
<1>7. ASSUME NEW r \in Runs, Abort!Timeout(r) PROVE InterruptInv'
    BY <1>7 DEF Abort!Timeout
<1>8. ASSUME Abort!Interrupt PROVE InterruptInv'
    BY <1>8 DEF Abort!Interrupt
<1>9. ASSUME NEW t \in ThreadIds, Abort!RaiseIdle(t) PROVE InterruptInv'
    BY <1>9 DEF Abort!RaiseIdle, Abort!Idle
<1>10. CASE UNCHANGED Abort!vars
    BY <1>10 DEF Abort!vars
<1> QED
    BY <1>1, <1>2, <1>3, <1>4, <1>5, <1>6, <1>7, <1>8, <1>9, <1>10, Zenon DEF Abort!Next

\* The _InterruptDeadlockError for a sandboxed workflow is raised only in the
\* activation whose time-out it answers.
THEOREM InterruptsOwnThread == Apart => (Abort!Spec => []Abort!SandboxInterruptsOwn)
<1> SUFFICES ASSUME Apart PROVE Abort!Spec => []Abort!SandboxInterruptsOwn
    OBVIOUS
<1>1. InterruptInv => Abort!SandboxInterruptsOwn
    BY DEF InterruptInv
<1> QED
    BY InterruptInit, InterruptStep, <1>1, PTL DEF Abort!Spec

\* No thread of the executor is marked for a sandboxed workflow between two
\* activations.
THEOREM ExecutorUndisturbed == Apart => (Abort!Spec => []Abort!IdleUnmarked)
<1> SUFFICES ASSUME Apart PROVE Abort!Spec => []Abort!IdleUnmarked
    OBVIOUS
<1>1. InterruptInv => Abort!IdleUnmarked
    BY SMTT(20) DEF Apart, InterruptInv, Abort!TypeOK, MarkCurrent, Past, Abort!IdleUnmarked, Abort!Idle
<1> QED
    BY InterruptInit, InterruptStep, <1>1, PTL DEF Abort!Spec

-----------------------------------------------------------------------------
\* An activation that is in workflow code can be interrupted, and its instance
\* has the id of its thread, sandboxed or not.
ReadyInv ==
  \A r \in Runs :
    /\ at[r] \in {"entered", "inside"} => r \in flag
    /\ at[r] = "inside" => id[r] = on[r]

\* No step takes the flag or the id away from an activation in workflow code.
LEMMA ReadyStep == Abort!TypeOK /\ ReadyInv /\ [Abort!Next]_(Abort!vars) => ReadyInv'
<1> SUFFICES ASSUME Abort!TypeOK, ReadyInv, [Abort!Next]_(Abort!vars) PROVE ReadyInv'
    OBVIOUS
<1> USE DEF Abort!TypeOK, ReadyInv
<1>1. ASSUME NEW r \in Runs, Abort!Submit(r) \/ Abort!SetId(r) PROVE ReadyInv'
    BY <1>1 DEF Abort!Submit, Abort!SetId
<1>2. ASSUME NEW r \in Runs, NEW t \in ThreadIds, Abort!Enter(r, t) PROVE ReadyInv'
    BY <1>2 DEF Abort!Enter
<1>3. ASSUME NEW r \in Runs, Abort!Exit(r) \/ Abort!Raise(r) PROVE ReadyInv'
    BY <1>3 DEF Abort!Exit, Abort!Raise, Abort!ResetId
<1>4. ASSUME NEW r \in Runs, Abort!Leave(r) PROVE ReadyInv'
    BY <1>4 DEF Abort!Leave
<1>5. ASSUME NEW r \in Runs, Abort!Timeout(r) PROVE ReadyInv'
    BY <1>5 DEF Abort!Timeout
<1>6. CASE \/ Abort!Interrupt
           \/ \E t \in ThreadIds : Abort!RaiseIdle(t)
           \/ UNCHANGED Abort!vars
    BY <1>6 DEF Abort!Interrupt, Abort!RaiseIdle, Abort!vars
<1> QED
    BY <1>1, <1>2, <1>3, <1>4, <1>5, <1>6, Zenon DEF Abort!Next

\* The handler of an activation that times out in workflow code holds the lock
\* and has read the id of the very thread the activation is on.
THEOREM TimeoutAims == Apart => (Abort!Spec => Abort!HitsTheDeadlocked)
<1> SUFFICES ASSUME Apart PROVE Abort!Spec => Abort!HitsTheDeadlocked
    OBVIOUS
<1>1. Abort!Init => ReadyInv
    BY DEF Abort!Init, ReadyInv
<1>2. Abort!TypeOK /\ ReadyInv /\ [Abort!Next]_(Abort!vars) =>
        [\A r \in Runs : r \in timedOut' \ timedOut /\ at[r] = "inside"
                         => holder' = r /\ aim' = on[r]]_(Abort!vars)
  <2> SUFFICES ASSUME Abort!TypeOK, ReadyInv, Abort!Next, NEW r \in Runs,
                      r \in timedOut' \ timedOut, at[r] = "inside"
               PROVE  holder' = r /\ aim' = on[r]
    BY ZenonT(30)
  <2>1. Abort!Timeout(r)
    BY DEF Abort!Next, Abort!Submit, Abort!Enter, Abort!SetId, Abort!Exit,
           Abort!Leave, Abort!Raise, Abort!RaiseIdle, Abort!Timeout, Abort!Interrupt
  <2> QED
    BY <2>1 DEF Abort!Timeout, ReadyInv
<1>3. InterruptInv => Abort!TypeOK
    BY DEF InterruptInv
<1> QED
    BY <1>1, <1>2, <1>3, InterruptInit, InterruptStep, ReadyStep, PTL DEF Abort!Spec, Abort!HitsTheDeadlocked

=============================================================================
