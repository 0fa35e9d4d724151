------------------------- MODULE DeadlockInterruption -------------------------
(***************************************************************************)
(* The interruption of a deadlocked activation: _RunningWorkflow of        *)
(* temporalio/worker/_workflow.py, and the thread id that the instance     *)
(* records.  The handler on the event loop marks that thread with an       *)
(* _InterruptDeadlockError, which CPython raises at the thread's next      *)
(* bytecode.  It reads the id and marks the thread under the lock that     *)
(* guards _deadlock_can_be_interrupted.                                    *)
(*                                                                         *)
(* A run has one activation at a time.  After a time-out its instance is   *)
(* only evicted, and an eviction is never interrupted.                     *)
(***************************************************************************)
EXTENDS Naturals, FiniteSets

CONSTANTS
  Runs,           \* the workflow runs, an instance each
  SandboxedRuns,  \* those whose instance is that of the sandbox
  Threads,        \* the threads of the executor
  None            \* no thread, or no run

ASSUME InterruptionAssumption ==
  /\ SandboxedRuns \subseteq Runs
  /\ None \notin Runs \cup Threads

VARIABLES
  at,         \* where the activation of each run is
  on,         \* the thread it runs on
  flag,       \* the runs with _deadlock_can_be_interrupted set
  id,         \* _current_thread_id of each instance
  timedOut,   \* the runs whose activation has timed out
  holder,     \* the run whose lock the handler holds
  aim,        \* the thread id it has read
  mark,       \* the run for whose sake each thread is marked
  dead,       \* the threads that an exception has ended
  struck      \* the pairs <<interrupted run, run the exception was raised in>>

lockVars == <<holder, aim>>
vars == <<at, on, flag, id, timedOut, lockVars, mark, dead, struck>>

Init ==
  /\ at = [r \in Runs |-> "none"]
  /\ on = [r \in Runs |-> None]
  /\ flag = {}
  /\ id = [r \in Runs |-> None]
  /\ timedOut = {}
  /\ holder = None
  /\ aim = None
  /\ mark = [t \in Threads |-> None]
  /\ dead = {}
  /\ struck = {}

Idle(t) == \A r \in Runs : on[r] # t

\* run_in_executor(executor, workflow.activate, act)
Submit(r) ==
  /\ at[r] = "none"
  /\ r \notin timedOut
  /\ at' = [at EXCEPT ![r] = "queued"]
  /\ UNCHANGED <<on, flag, id, timedOut, lockVars, mark, dead, struck>>

\* _RunningWorkflow.activate: "Mark that the deadlock can be interrupted"
Enter(r, t) ==
  /\ at[r] = "queued"
  /\ holder # r
  /\ Idle(t)
  /\ t \notin dead
  /\ mark[t] = None
  /\ at' = [at EXCEPT ![r] = "entered"]
  /\ on' = [on EXCEPT ![r] = t]
  /\ flag' = flag \cup {r}
  /\ UNCHANGED <<id, timedOut, lockVars, mark, dead, struck>>

\* (mutant) Keeps the first thread's id.
SetIdOnce(r) ==
  /\ at[r] = "entered"
  /\ mark[on[r]] = None
  /\ at' = [at EXCEPT ![r] = "inside"]
  /\ id' = [id EXCEPT ![r] = IF @ = None THEN on[r] ELSE @]
  /\ UNCHANGED <<on, flag, timedOut, lockVars, mark, dead, struck>>

\* self._current_thread_id = threading.get_ident()
SetId(r) ==
  /\ at[r] = "entered"
  /\ mark[on[r]] = None
  /\ at' = [at EXCEPT ![r] = "inside"]
  /\ id' = [id EXCEPT ![r] = on[r]]
  /\ UNCHANGED <<on, flag, timedOut, lockVars, mark, dead, struck>>

\* (mutant) The sandbox does not reset the id either.
KeepId(r) == id' = id

\* The finally clause of the sandbox's _run_code; the unsandboxed instance
\* keeps the id.
ResetId(r) == id' = IF r \in SandboxedRuns THEN [id EXCEPT ![r] = None] ELSE id

\* The workflow code of the activation ends.
Exit(r) ==
  /\ at[r] = "inside"
  /\ mark[on[r]] = None
  /\ at' = [at EXCEPT ![r] = "leaving"]
  /\ ResetId(r)
  /\ UNCHANGED <<on, flag, timedOut, lockVars, mark, dead, struck>>

\* (mutant) Does not take the lock: the mark may come after the last bytecode.
LeaveUnlocked(r) ==
  /\ at[r] = "leaving"
  /\ flag' = flag \ {r}
  /\ at' = [at EXCEPT ![r] = "none"]
  /\ on' = [on EXCEPT ![r] = None]
  /\ UNCHANGED <<id, timedOut, lockVars, mark, dead, struck>>

\* The finally clause of activate.  A thread marked while it waited for the lock
\* raises as it leaves the locked region, after the flag is reset or before.
Leave(r) ==
  LET t == on[r]
  IN /\ at[r] = "leaving"
     /\ holder # r
     /\ \E reset \in BOOLEAN :
          /\ mark[t] = None => reset
          /\ flag' = IF reset THEN flag \ {r} ELSE flag
     /\ struck' = IF mark[t] = None THEN struck ELSE struck \cup {<<mark[t], r>>}
     /\ mark' = [mark EXCEPT ![t] = None]
     /\ at' = [at EXCEPT ![r] = "none"]
     /\ on' = [on EXCEPT ![r] = None]
     /\ UNCHANGED <<id, timedOut, lockVars, dead>>

\* The exception is raised in the activation that the marked thread runs.
Raise(r) ==
  LET t == on[r]
  IN /\ at[r] \in {"entered", "inside"}
     /\ mark[t] # None
     /\ struck' = struck \cup {<<mark[t], r>>}
     /\ mark' = [mark EXCEPT ![t] = None]
     /\ at' = [at EXCEPT ![r] = "leaving"]
     /\ ResetId(r)
     /\ UNCHANGED <<on, flag, timedOut, lockVars, dead>>

\* The exception is raised in a thread that runs no activation: the thread ends.
RaiseIdle(t) ==
  /\ Idle(t)
  /\ mark[t] # None
  /\ struck' = struck \cup {<<mark[t], None>>}
  /\ mark' = [mark EXCEPT ![t] = None]
  /\ dead' = dead \cup {t}
  /\ UNCHANGED <<at, on, flag, id, timedOut, lockVars>>

\* The deadlock time-out: a call that is still queued is dropped, and
\* attempt_deadlock_interruption takes the lock, looks at the flag, and reads
\* the thread id.
Timeout(r) ==
  /\ at[r] # "none"
  /\ r \notin timedOut
  /\ holder = None
  /\ timedOut' = timedOut \cup {r}
  /\ at' = IF at[r] = "queued" THEN [at EXCEPT ![r] = "none"] ELSE at
  /\ holder' = IF r \in flag THEN r ELSE None
  /\ aim' = IF r \in flag THEN id[r] ELSE None
  /\ UNCHANGED <<on, flag, id, mark, dead, struck>>

\* It marks the thread, if there is one, and releases the lock.
Interrupt ==
  /\ holder # None
  /\ mark' = IF aim \in Threads \ dead THEN [mark EXCEPT ![aim] = holder] ELSE mark
  /\ holder' = None
  /\ aim' = None
  /\ UNCHANGED <<at, on, flag, id, timedOut, dead, struck>>

Next ==
  \/ \E r \in Runs :
       \/ Submit(r) \/ SetId(r) \/ Exit(r) \/ Leave(r) \/ Raise(r) \/ Timeout(r)
       \/ \E t \in Threads : Enter(r, t)
  \/ \E t \in Threads : RaiseIdle(t)
  \/ Interrupt

Spec == Init /\ [][Next]_vars

-----------------------------------------------------------------------------
\* Types.
TypeOK ==
  /\ at \in [Runs -> {"none", "queued", "entered", "inside", "leaving"}]
  /\ on \in [Runs -> Threads \cup {None}]
  /\ flag \subseteq Runs
  /\ id \in [Runs -> Threads \cup {None}]
  /\ timedOut \subseteq Runs
  /\ holder \in Runs \cup {None}
  /\ aim \in Threads \cup {None}
  /\ mark \in [Threads -> Runs \cup {None}]
  /\ dead \subseteq Threads
  /\ struck \subseteq Runs \X (Runs \cup {None})
  /\ \A r \in Runs : on[r] = None <=> at[r] \in {"none", "queued"}

\* "we want to try to interrupt the thread": the exception is raised in the
\* activation that has timed out, not in that of another workflow that the
\* executor has given the thread to.
InterruptsOwn == \A s \in struck : s[2] = s[1]

\* InterruptsOwn for the interruptions of sandboxed workflows, whatever
\* unsandboxed ones share the executor with them.
SandboxInterruptsOwn ==
  \A s \in struck : s[1] \in SandboxedRuns => s[2] = s[1]

\* A thread between two activations is never marked for a sandboxed workflow,
\* so that the executor does not lose it.
IdleUnmarked == \A t \in Threads : Idle(t) => mark[t] \notin SandboxedRuns

\* An activation that times out in workflow code is the target of its
\* interruption, whatever threads its run had before.
HitsTheDeadlocked ==
  [][\A r \in Runs : r \in timedOut' \ timedOut /\ at[r] = "inside"
                     => holder' = r /\ aim' = on[r]]_vars

=============================================================================
