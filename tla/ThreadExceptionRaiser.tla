------------------------ MODULE ThreadExceptionRaiser ------------------------
(***************************************************************************)
(* _ThreadExceptionRaiser of temporalio/worker/_activity.py: how the       *)
(* cancellation of a threaded sync activity becomes a CancelledError in    *)
(* the thread that runs it.  Several activities, each with a raiser of its *)
(* own, run one after the other on one thread of the executor.             *)
(*                                                                         *)
(* A method of the raiser holds its lock from start to end and is one      *)
(* step.  PyThreadState_SetAsyncExc only marks the thread: CPython raises  *)
(* the exception at the thread's next call.  A thread that was waiting for *)
(* the lock when it was marked first runs the locked region it waits for.  *)
(***************************************************************************)
EXTENDS Naturals, FiniteSets

CONSTANTS
  Activities,   \* the activities the thread runs, in any order
  NoActivity,
  MaxRequests,  \* bound: cancellations of one activity (the core's, and one
                \*   for every heartbeat failure)
  MaxNesting    \* bound: shield blocks nested in each other

ASSUME RaiserAssumption ==
  NoActivity \notin Activities /\ MaxRequests \in Nat /\ MaxNesting \in Nat

VARIABLES
  cur,        \* the activity on the thread
  pc,         \* where each activity is
  threadSet,  \* the raisers whose _thread_id is set
  pending,    \* the raisers with a _pending_exception
  depth,      \* _shield_depth of each raiser
  blocks,     \* the shield blocks the activity's code is in
  exc,        \* whose exception the thread is marked with
  requests,   \* the cancellations asked for
  raised      \* the exceptions raised in the activity's code

raiserVars == <<threadSet, pending, depth, exc>>
vars == <<cur, pc, raiserVars, blocks, requests, raised>>

Init ==
  /\ cur = NoActivity
  /\ pc = [a \in Activities |-> "queued"]
  /\ threadSet = {}
  /\ pending = {}
  /\ depth = [a \in Activities |-> 0]
  /\ blocks = [a \in Activities |-> 0]
  /\ exc = NoActivity
  /\ requests = [a \in Activities |-> 0]
  /\ raised = [a \in Activities |-> 0]

\* The executor's thread takes the next activity.
Start(a) ==
  /\ cur = NoActivity
  /\ pc[a] = "queued"
  /\ cur' = a
  /\ pc' = [pc EXCEPT ![a] = "starting"]
  /\ UNCHANGED <<raiserVars, blocks, requests, raised>>

\* (mutant) Marks the thread inside a shield block as well.
RaiseIgnoringShield(a, isPending) ==
  IF a \in threadSet /\ isPending
  THEN exc' = a /\ pending' = pending \ {a}
  ELSE /\ pending' = IF isPending THEN pending \cup {a} ELSE pending \ {a}
       /\ UNCHANGED exc

\* _raise_in_thread_if_pending_unlocked, with the depth its caller has set.
RaiseIfPending(a, isPending) ==
  IF a \in threadSet /\ depth'[a] = 0 /\ isPending
  THEN exc' = a /\ pending' = pending \ {a}
  ELSE /\ pending' = IF isPending THEN pending \cup {a} ELSE pending \ {a}
       /\ UNCHANGED exc

\* Entry of active_thread(): set_thread_id.
SetThreadId(a) ==
  /\ pc[a] = "starting"
  /\ pc' = [pc EXCEPT ![a] = "running"]
  /\ threadSet' = threadSet \cup {a}
  /\ UNCHANGED <<cur, pending, depth, exc, blocks, requests, raised>>

\* _RunningActivity.cancel, on the event loop: raise_in_thread.  The loop does
\* not learn at once that the activity's function has ended.
RaiseInThread(a) ==
  /\ requests[a] < MaxRequests
  /\ requests' = [requests EXCEPT ![a] = @ + 1]
  /\ UNCHANGED depth
  /\ RaiseIfPending(a, TRUE)
  /\ UNCHANGED <<cur, pc, threadSet, blocks, raised>>

\* The marked thread raises the exception in the code it runs.
RaiseMarked(a) ==
  /\ cur = a
  /\ exc # NoActivity
  /\ raised' = [raised EXCEPT ![a] = @ + 1]
  /\ exc' = NoActivity
  /\ UNCHANGED <<cur, pc, threadSet, pending, depth, blocks, requests>>

\* Entry of shielded().  A thread marked while it waited for the lock raises
\* when it has let go of it: after the increment, before the try.
EnterShield(a) ==
  /\ pc[a] = "running"
  /\ blocks[a] < MaxNesting
  /\ depth' = [depth EXCEPT ![a] = @ + 1]
  /\ IF exc = NoActivity
     THEN blocks' = [blocks EXCEPT ![a] = @ + 1] /\ UNCHANGED <<exc, raised>>
     ELSE /\ raised' = [raised EXCEPT ![a] = @ + 1]
          /\ exc' = NoActivity
          /\ UNCHANGED blocks
  /\ UNCHANGED <<cur, pc, threadSet, pending, requests>>

\* Exit of shielded(), however the block ends.
ExitShield(a) ==
  /\ pc[a] = "running"
  /\ exc = NoActivity
  /\ blocks[a] > 0
  /\ blocks' = [blocks EXCEPT ![a] = @ - 1]
  /\ depth' = [depth EXCEPT ![a] = @ - 1]
  /\ RaiseIfPending(a, a \in pending)
  /\ UNCHANGED <<cur, pc, threadSet, requests, raised>>

\* (mutant) Forgets to reset the thread id.
LeaveThreadSet(a) ==
  /\ pc[a] = "running"
  /\ blocks[a] = 0
  /\ pc' = [pc EXCEPT ![a] = "left"]
  /\ pending' = pending \ {a}
  /\ UNCHANGED <<cur, threadSet, depth, exc, blocks, requests, raised>>

\* Exit of active_thread(), however the activity's function ends.
Leave(a) ==
  /\ pc[a] = "running"
  /\ blocks[a] = 0
  /\ pc' = [pc EXCEPT ![a] = "left"]
  /\ threadSet' = threadSet \ {a}
  /\ pending' = pending \ {a}
  /\ UNCHANGED <<cur, depth, exc, blocks, requests, raised>>

\* The thread returns to the executor.  If it is marked it raises before.
Finish(a) ==
  /\ pc[a] = "left"
  /\ exc = NoActivity
  /\ pc' = [pc EXCEPT ![a] = "finished"]
  /\ cur' = NoActivity
  /\ UNCHANGED <<raiserVars, blocks, requests, raised>>

Next ==
  \E a \in Activities :
    \/ Start(a) \/ SetThreadId(a) \/ RaiseInThread(a) \/ RaiseMarked(a)
    \/ EnterShield(a) \/ ExitShield(a) \/ Leave(a) \/ Finish(a)

Spec == Init /\ [][Next]_vars

-----------------------------------------------------------------------------
\* Types; _shield_depth never becomes negative.
TypeOK ==
  /\ cur \in Activities \cup {NoActivity}
  /\ pc \in [Activities -> {"queued", "starting", "running", "left", "finished"}]
  /\ threadSet \subseteq Activities
  /\ pending \subseteq Activities
  /\ depth \in [Activities -> Nat]
  /\ blocks \in [Activities -> Nat]
  /\ exc \in Activities \cup {NoActivity}
  /\ requests \in [Activities -> Nat]
  /\ raised \in [Activities -> Nat]

\* The thread is only ever marked with an exception of the activity it runs:
\* a cancellation that comes as the activity ends is not raised in the next
\* activity that the executor runs on the same thread.
RaisedInOwnActivity == exc # NoActivity => cur = exc

\* No exception is raised inside a shield block, also not when the request
\* races with the thread entering or leaving it.
NotRaisedInShield ==
  [][\A a \in Activities : raised'[a] # raised[a] => blocks[a] = 0 /\ blocks'[a] = 0]_vars

\* README.md: "cancellation of a synchronous multithreaded activity is done via
\* a CancelledError thrown into the activity thread", and only a shield block
\* delays it: an activity does not run unshielded with its exception pending.
CancellationThrown ==
  \A a \in Activities : pc[a] = "running" /\ blocks[a] = 0 => a \notin pending

\* README.md: "once the last nested form of that block is finished, even if
\* there is a return statement within, it will throw the cancellation if there
\* was one".
ThrownAfterLastShield ==
  [][\A a \in Activities :
       blocks[a] = 1 /\ blocks'[a] = 0 /\ a \in pending => exc' = a]_vars

=============================================================================
