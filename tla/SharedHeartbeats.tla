--------------------------- MODULE SharedHeartbeats ---------------------------
(***************************************************************************)
(* _MultiprocessingSharedStateManager of temporalio/worker/_activity.py:   *)
(* heartbeats of sync activities that run in other processes.  They come   *)
(* through one bounded queue, which a processor on a thread of its own     *)
(* empties, calling each heartbeat function on the activity's event loop   *)
(* and waiting for it.  queue_poller_executor is the default one, with one *)
(* thread: a processor starts when the one before it has ended.            *)
(*                                                                         *)
(* The processes, the processor's thread and the event loops interleave.   *)
(***************************************************************************)
EXTENDS Naturals, Sequences

CONSTANTS
  Tokens,         \* the activities
  Loops,          \* the event loops of the workers that share the manager
  LoopOf,         \* the loop of each activity's worker
  QueueSize,      \* capacity of _heartbeat_queue (1000 in the code)
  MaxHeartbeats   \* bound: heartbeats sent by one activity

ASSUME SharedAssumption ==
  /\ LoopOf \in [Tokens -> Loops]
  /\ QueueSize \in Nat \ {0}
  /\ MaxHeartbeats \in Nat

VARIABLES
  act,          \* where each activity is
  registered,   \* the keys of _heartbeats
  completions,  \* the keys of _heartbeat_completions
  signalled,    \* the activities whose finish_event is set
  queue,        \* _heartbeat_queue: pairs of a token and a heartbeat's number,
                \*   where number 0 is _multiprocess_heartbeat_complete
  sent,         \* the heartbeats each activity has sent
  submitted,    \* processors submitted to the executor and not started
  proc,         \* where the running processor is
  call,         \* the call it waits for
  inflight,     \* the calls the event loops have yet to run
  handed,       \* the heartbeats handed to each activity's loop, in order
  died          \* has a processor stopped on an exception?

actVars == <<act, registered, completions, signalled, sent, submitted>>
procVars == <<proc, call, inflight, handed, died>>
vars == <<actVars, queue, procVars>>

Marker == 0
Item(t, n) == <<t, n>>

Init ==
  /\ act = [t \in Tokens |-> "none"]
  /\ registered = {}
  /\ completions = {}
  /\ signalled = {}
  /\ queue = <<>>
  /\ sent = [t \in Tokens |-> 0]
  /\ submitted = 0
  /\ proc = "none"
  /\ call = <<>>
  /\ inflight = {}
  /\ handed = [t \in Tokens |-> <<>>]
  /\ died = FALSE

\* A loop that waits in the blocking put of unregister_heartbeater, or is
\* between the two statements of register_heartbeater, does nothing else.
LoopFree(l) ==
  \A t \in Tokens : LoopOf[t] = l => act[t] \notin {"adding", "putting"}

-----------------------------------------------------------------------------
(***************************************************************************)
(* The activities.                                                         *)
(***************************************************************************)

\* register_heartbeater: add the function, then look at the number of them.
AddHeartbeater(t) ==
  /\ act[t] = "none"
  /\ LoopFree(LoopOf[t])
  /\ act' = [act EXCEPT ![t] = "adding"]
  /\ registered' = registered \cup {t}
  /\ UNCHANGED <<completions, signalled, sent, submitted, queue, procVars>>

StartProcessor(t) ==
  /\ act[t] = "adding"
  /\ act' = [act EXCEPT ![t] = "running"]
  /\ submitted' = IF registered = {t} THEN submitted + 1 ELSE submitted
  /\ UNCHANGED <<registered, completions, signalled, sent, queue, procVars>>

\* send_heartbeat, in the activity's process; put() waits for room.
SendHeartbeat(t) ==
  /\ act[t] = "running"
  /\ sent[t] < MaxHeartbeats
  /\ Len(queue) < QueueSize
  /\ sent' = [sent EXCEPT ![t] = @ + 1]
  /\ queue' = Append(queue, Item(t, sent[t] + 1))
  /\ UNCHANGED <<act, registered, completions, signalled, submitted, procVars>>

\* (mutant) Does not record whom to wake.
UnregisterUnrecorded(t) ==
  /\ act[t] = "running"
  /\ LoopFree(LoopOf[t])
  /\ Len(queue) < QueueSize
  /\ act' = [act EXCEPT ![t] = "waiting"]
  /\ queue' = Append(queue, Item(t, Marker))
  /\ UNCHANGED <<registered, completions, signalled, sent, submitted, procVars>>

\* The function has ended: unregister_heartbeater puts the marker on the
\* queue and waits for it; with no room it blocks the loop.
Unregister(t) ==
  /\ act[t] = "running"
  /\ LoopFree(LoopOf[t])
  /\ completions' = completions \cup {t}
  /\ IF Len(queue) < QueueSize
     THEN /\ act' = [act EXCEPT ![t] = "waiting"]
          /\ queue' = Append(queue, Item(t, Marker))
     ELSE /\ act' = [act EXCEPT ![t] = "putting"]
          /\ UNCHANGED queue
  /\ UNCHANGED <<registered, signalled, sent, submitted, procVars>>

\* There is room now, or there was none for 5 seconds: queue.Full is raised
\* to the activity.
PutMarker(t) ==
  /\ act[t] = "putting"
  /\ \/ /\ Len(queue) < QueueSize
        /\ act' = [act EXCEPT ![t] = "waiting"]
        /\ queue' = Append(queue, Item(t, Marker))
        /\ UNCHANGED completions
     \/ /\ Len(queue) = QueueSize
        /\ act' = [act EXCEPT ![t] = "failed"]
        /\ completions' = completions \ {t}
        /\ UNCHANGED queue
  /\ UNCHANGED <<registered, signalled, sent, submitted, procVars>>

\* finish_event is set: unregister_heartbeater returns.
UnregisterReturns(t) ==
  /\ act[t] = "waiting"
  /\ t \in signalled
  /\ LoopFree(LoopOf[t])
  /\ act' = [act EXCEPT ![t] = "ended"]
  /\ completions' = completions \ {t}
  /\ UNCHANGED <<registered, signalled, sent, submitted, queue, procVars>>

\* The loop runs a heartbeat function that the processor asked it to.
RunCall(c) ==
  /\ c \in inflight
  /\ LoopFree(LoopOf[c[1]])
  /\ inflight' = inflight \ {c}
  /\ \/ /\ handed' = [handed EXCEPT ![c[1]] = Append(@, c[2])]
        /\ proc' = IF call = c THEN "checking" ELSE proc
        /\ UNCHANGED died
     \/ /\ UNCHANGED handed
        /\ proc' = IF call = c THEN "none" ELSE proc
        /\ died' = (died \/ call = c)
  /\ call' = IF call = c THEN <<>> ELSE call
  /\ UNCHANGED <<actVars, queue>>

-----------------------------------------------------------------------------
(***************************************************************************)
(* _heartbeat_processor.                                                   *)
(***************************************************************************)

\* The executor's thread starts a processor.
ProcessorStarts ==
  /\ proc = "none"
  /\ submitted > 0
  /\ submitted' = submitted - 1
  /\ proc' = "checking"
  /\ UNCHANGED <<act, registered, completions, signalled, sent, queue, call,
                 inflight, handed, died>>

\* while len(self._heartbeats) > 0
CheckRegistered ==
  /\ proc = "checking"
  /\ proc' = IF registered = {} THEN "none" ELSE "getting"
  /\ UNCHANGED <<actVars, queue, call, inflight, handed, died>>

\* (mutant) Takes the newest item.
GetNewest ==
  /\ proc = "getting"
  /\ queue # <<>>
  /\ LET i == queue[Len(queue)]
     IN IF i[2] = Marker
        THEN /\ registered' = registered \ {i[1]}
             /\ signalled' = signalled \cup ({i[1]} \cap completions)
             /\ proc' = "checking"
             /\ UNCHANGED <<call, inflight>>
        ELSE /\ proc' = "calling"
             /\ call' = i
             /\ inflight' = inflight \cup {i}
             /\ UNCHANGED <<registered, signalled>>
  /\ queue' = SubSeq(queue, 1, Len(queue) - 1)
  /\ UNCHANGED <<act, completions, sent, submitted, handed, died>>

\* Take an item: a marker completes its activity, a heartbeat is passed to the
\* loop of its activity if it is still registered.
GetItem ==
  /\ proc = "getting"
  /\ queue # <<>>
  /\ LET t == Head(queue)[1]
         n == Head(queue)[2]
     IN IF n = Marker
        THEN /\ registered' = registered \ {t}
             /\ signalled' = signalled \cup ({t} \cap completions)
             /\ proc' = "checking"
             /\ UNCHANGED <<call, inflight>>
        ELSE /\ IF t \in registered
                THEN /\ proc' = "calling"
                     /\ call' = Item(t, n)
                     /\ inflight' = inflight \cup {Item(t, n)}
                ELSE proc' = "checking" /\ UNCHANGED <<call, inflight>>
             /\ UNCHANGED <<registered, signalled>>
  /\ queue' = Tail(queue)
  /\ UNCHANGED <<act, completions, sent, submitted, handed, died>>

\* (mutant) Stops when the queue is empty.
StopWhenEmpty ==
  /\ proc = "getting"
  /\ queue = <<>>
  /\ proc' = "none"
  /\ UNCHANGED <<actVars, queue, call, inflight, handed, died>>

\* Half a second passed with nothing on the queue.
GetTimeout ==
  /\ proc = "getting"
  /\ queue = <<>>
  /\ proc' = "checking"
  /\ UNCHANGED <<actVars, queue, call, inflight, handed, died>>

\* The call did not return within 10 seconds: TimeoutError ends the processor,
\* while the call stays scheduled on the loop.
CallTimeout ==
  /\ proc = "calling"
  /\ proc' = "none"
  /\ call' = <<>>
  /\ died' = TRUE
  /\ UNCHANGED <<actVars, queue, inflight, handed>>

ProcessorStep ==
  ProcessorStarts \/ CheckRegistered \/ GetItem \/ GetTimeout

LoopStep ==
  \/ \E t \in Tokens : StartProcessor(t) \/ PutMarker(t) \/ UnregisterReturns(t)
  \/ \E c \in inflight : RunCall(c)

Next ==
  \/ \E t \in Tokens : AddHeartbeater(t) \/ SendHeartbeat(t) \/ Unregister(t)
  \/ LoopStep
  \/ ProcessorStep
  \/ CallTimeout

Spec == Init /\ [][Next]_vars

\* The processor's thread and the event loops keep running.
FairSpec ==
  /\ Spec
  /\ WF_vars(ProcessorStep)
  /\ \A t \in Tokens :
       /\ WF_vars(StartProcessor(t))
       /\ WF_vars(PutMarker(t))
       /\ WF_vars(UnregisterReturns(t))
       /\ \A n \in 1..MaxHeartbeats : WF_vars(RunCall(Item(t, n)))

-----------------------------------------------------------------------------
(***************************************************************************)
(* Properties.                                                             *)
(***************************************************************************)

\* Types; the queue respects its capacity.
TypeOK ==
  /\ act \in [Tokens -> {"none", "adding", "running", "putting", "waiting",
                         "ended", "failed"}]
  /\ registered \subseteq Tokens
  /\ completions \subseteq Tokens
  /\ signalled \subseteq Tokens
  /\ queue \in Seq(Tokens \X Nat)
  /\ Len(queue) <= QueueSize
  /\ sent \in [Tokens -> Nat]
  /\ submitted \in Nat
  /\ proc \in {"none", "checking", "getting", "calling"}
  /\ inflight \subseteq Tokens \X Nat
  /\ handed \in [Tokens -> Seq(Nat)]
  /\ died \in BOOLEAN

\* unregister_heartbeater: "This should also flush any pending heartbeats".
\* Once it has returned, no heartbeat of the activity is left on the queue or
\* in the processor's hands, so none reaches a loop after the completion; and
\* as long as no call failed they reach it in the order they were sent in.
FlushedOnUnregister ==
  \A t \in Tokens :
    /\ act[t] = "ended" => /\ \A i \in DOMAIN queue : queue[i][1] # t
                           /\ call = <<>> \/ call[1] # t
    /\ ~died => \A i, j \in DOMAIN handed[t] : i < j => handed[t][i] < handed[t][j]

\* No lost start: while an activity is registered and no call has failed, a
\* processor is running or about to, although register_heartbeater looks at
\* the number of activities while the processor removes them.
ProcessorRuns ==
  ~died /\ (\A t \in Tokens : act[t] # "adding") /\ registered # {} =>
    proc # "none" \/ submitted > 0

\* unregister_heartbeater, once it has put the marker, returns, unless a call
\* that failed has ended the processor.
UnregisterEnds ==
  \A t \in Tokens : (act[t] = "waiting") ~> (act[t] = "ended" \/ died)

=============================================================================
