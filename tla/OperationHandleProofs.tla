-------------------------- MODULE OperationHandleProofs --------------------------
(***************************************************************************)
(* Proofs about OperationHandle: what the core resolves is pending and      *)
(* waits for it, what it resolves again is not, and no cancellation of a    *)
(* wait is swallowed.                                                       *)
(***************************************************************************)
EXTENDS OperationHandle, TLAPS

Places == {"none", "new", "waiting", "sleeping"} \cup Done
Results == {"pending", "value", "error", "backoff", "cancelled"}

Types ==
  /\ kind \in [Handles -> Kinds]
  /\ mode \in Modes
  /\ nextSeq \in Nat
  /\ seq \in [Handles -> 0..nextSeq]
  /\ at \in [Waiters -> Places]
  /\ fut \in [Waiters -> Results]
  /\ pending \subseteq Nat \X Handles
  /\ scheduled \subseteq 1..nextSeq
  /\ begun \subseteq 1..nextSeq
  /\ open \subseteq told
  /\ begun \subseteq told
  /\ told \subseteq scheduled

\* A number other than 0 belongs to one operation.
SeqUnique == \A g, h \in Handles : seq[g] = seq[h] /\ seq[h] # 0 => g = h

\* What the core may be told of or resolve is pending.
Listed == \A s \in open \cup (scheduled \ told) : \E h \in Handles : <<s, h>> \in pending

\* An operation that is pending as s has this number, and the future that the next
\* job for it resolves has no result.
Waits(s, h) ==
  /\ seq[h] = s
  /\ s \in scheduled
  /\ kind[h] # "none"
  /\ kind[h] \in Activities => fut[<<h, "task">>] = "pending"
  /\ kind[h] \in TwoPhase =>
       /\ fut[<<h, "task">>] = "pending"
       /\ s \notin begun => fut[<<h, "call">>] = "pending"
  /\ kind[h] = "signal" => s \notin begun /\ fut[<<h, "call">>] = "pending"

PendingWaits == \A s \in Nat : \A h \in Handles : <<s, h>> \in pending => Waits(s, h)

\* An operation without a number has no results, and one that backs off has a
\* number that is not scheduled yet.
Idles(h) ==
  /\ seq[h] = 0 =>
       /\ fut[<<h, "task">>] = "pending"
       /\ kind[h] # "cancel" => fut[<<h, "call">>] = "pending"
  /\ fut[<<h, "task">>] = "backoff" =>
       kind[h] = "local" /\ seq[h] # 0 /\ seq[h] \notin scheduled
  /\ at[<<h, "task">>] = "sleeping" => fut[<<h, "task">>] = "backoff"

Unscheduled == \A h \in Handles : Idles(h)

\* What the core has resolved is not pending.
Resolved == \A s \in told \ open : \A h \in Handles : <<s, h>> \notin pending

HandleInv == Types /\ SeqUnique /\ Listed /\ PendingWaits /\ Unscheduled /\ Resolved

\* A cancellation that nothing has answered is pending, or was swallowed.
\* A wait with a cancellation pending has not ended.
HeardInv ==
  /\ mode \in Modes
  /\ at \in [Waiters -> Places]
  /\ creq \subseteq Waiters
  /\ \A w \in creq : at[w] \notin Done
  /\ unheard \subseteq creq \cup lost

-----------------------------------------------------------------------------
\* No wait has been cancelled at the start.
LEMMA HeardInit == Init => HeardInv
  BY DEF Init, HeardInv, Modes, Places

\* Every step keeps HeardInv.
LEMMA HeardStep == HeardInv /\ [Next]_vars => HeardInv'
<1> SUFFICES ASSUME HeardInv, [Next]_vars PROVE HeardInv'
  OBVIOUS
<1> USE DEF HeardInv, instVars, askVars
<1>w. \A h \in Handles : \A x \in {"call", "task"} : <<h, x>> \in Waiters
  BY DEF Waiters
<1>d. Done \subseteq Places /\ {"new", "waiting", "sleeping"} \subseteq Places \ Done
  BY DEF Places, Done
<1>1. CASE UNCHANGED <<mode, at, creq, unheard, lost>>
  BY <1>1
<1>2. ASSUME NEW m \in Modes, Activate(m) PROVE HeardInv'
  BY <1>2 DEF Activate
<1>3. CASE Evict
  BY <1>3 DEF Evict
<1>4. ASSUME NEW h \in Handles, NEW x \in {"call", "task"}, Cancel(h, x) PROVE HeardInv'
  BY <1>4, <1>w, Zenon DEF Cancel
\* a wait that ends cancelled has been heard
<1> DEFINE Cancelled(w) == EndCancelled(w) /\ UNCHANGED mode /\ lost \subseteq lost'
<1>e. ASSUME NEW w \in Waiters, Cancelled(w) PROVE HeardInv'
  <2>1. PICK d \in Done : at' = [at EXCEPT ![w] = d]
    BY <1>e, Zenon DEF EndCancelled, End, Done
  <2>2. creq' = creq \ {w} /\ unheard' = unheard \ {w}
    BY <1>e DEF EndCancelled, End
  <2> QED
    BY <1>e, <2>1, <2>2, <1>d
<1> HIDE DEF Cancelled
<1>5. ASSUME NEW h \in Handles, CancelUnstarted(h) \/ CancelSleeping(h) \/ CancelCancelRequest(h)
      PROVE  HeardInv'
  <2>1. \E x \in {"call", "task"} : Cancelled(<<h, x>>)
    BY <1>5 DEF CancelUnstarted, CancelSleeping, CancelCancelRequest, Cancelled
  <2> QED
    BY <2>1, <1>e, <1>w, Zenon
<1>6. ASSUME NEW h \in Handles, NEW x \in {"call", "task"}, ResultReady(h, x) PROVE HeardInv'
  \* the wait that returns has no cancellation pending
  <2>1. PICK d \in Done : at' = [at EXCEPT ![<<h, x>>] = d]
    BY <1>6, Zenon DEF ResultReady, End, Done
  <2>2. /\ creq' = creq \ {<<h, x>>}
        /\ <<h, x>> \notin creq
        /\ UNCHANGED <<mode, unheard, lost>>
    BY <1>6 DEF ResultReady, End
  <2> QED
    BY <2>1, <2>2, <1>d, <1>w, Zenon
<1>7. ASSUME NEW h \in Handles, NEW x \in {"call", "task"}, CancelWaiting(h, x) PROVE HeardInv'
  <2> DEFINE w == <<h, x>>
  <2>1. mode' = mode /\ lost \subseteq lost'
    BY <1>7 DEF CancelWaiting
  <2>2. CASE EndCancelled(w)
    BY <2>1, <2>2, <1>e, <1>w, Zenon DEF Cancelled
  <2>3. CASE ~EndCancelled(w)
    <3>1. /\ creq' = creq \ {w}
          /\ at' = at
          /\ ~Reraise(h, x)
          /\ unheard' = IF fut[w] = "pending" THEN unheard \ {w} ELSE unheard
      BY <1>7, <2>3 DEF CancelWaiting, AnswerCancel
    \* the mode is one that swallows a cancellation when there is a result
    <3>2. fut[w] # "pending" => w \in lost'
      BY <1>7, <3>1 DEF CancelWaiting, Reraise, Modes
    <3> QED
      BY <2>1, <3>1, <3>2
  <2> QED
    BY <2>2, <2>3
<1>8. CASE UNCHANGED vars
  BY <1>1, <1>8 DEF vars
<1>9. CASE RunOnce \/ SignalsRun \/ Complete \/ CancelWorkflow \/ FailActivation \/ EvictionDone
  BY <1>1, <1>9 DEF RunOnce, SignalsRun, Complete, CancelWorkflow, FailActivation, EvictionDone
<1>10. ASSUME NEW s \in 1..MaxSeq, Resolve(s) PROVE HeardInv'
  BY <1>1, <1>10 DEF Resolve, ResolveBackoff, ResolveStart, FailStart, ResolveActivity,
                    ResolveResult, ResolveExternal
\* the other steps take a wait to a place where it can be cancelled, or fail to
\* reschedule one that is not cancelled
<1>11. ASSUME NEW h \in Handles, ScheduleActivity(h) \/ StartOperation(h) \/ CallExternal(h)
       PROVE  HeardInv'
  BY <1>11, <1>w, <1>d DEF ScheduleActivity, StartOperation, CallExternal
<1>12. ASSUME NEW h \in Handles, FireTimer(h) \/ RunTask(h) \/ BackOff(h) PROVE HeardInv'
  BY <1>12, <1>w, <1>d DEF FireTimer, RunTask, BackOff
<1>13. ASSUME NEW h \in Handles, Reschedule(h) PROVE HeardInv'
  BY <1>13, <1>w, <1>d DEF Reschedule, Done
<1>14. ASSUME NEW s \in 1..MaxSeq, NEW res \in {"value", "error"}, ResolveAgain(s, res)
       PROVE  HeardInv'
  BY <1>1, <1>14 DEF ResolveAgain
<1> QED
  BY <1>2, <1>3, <1>4, <1>5, <1>6, <1>7, <1>8, <1>9, <1>10, <1>11, <1>12, <1>13, <1>14, Zenon
     DEF Next, Advance, TaskStep

\* _await_temporal_operation: a wait that was cancelled does not return a result
\* unless a cancel command was sent while there was none, in any mode but those
\* for older histories.
THEOREM CancellationsHeard == Spec => []CancelHeard
<1>1. HeardInv => CancelHeard
  BY DEF HeardInv, CancelHeard, Done
<1> QED
  BY <1>1, HeardInit, HeardStep, PTL DEF Spec

-----------------------------------------------------------------------------
\* No operation has a number at the start.
LEMMA HandleInit == Init => HandleInv
<1> SUFFICES ASSUME Init PROVE HandleInv
  OBVIOUS
<1>1. Types
  BY HandleAssumption DEF Init, Types, Modes, Places, Results
<1> QED
  BY <1>1 DEF Init, HandleInv, SeqUnique, Listed, PendingWaits, Waits, Unscheduled, Idles, Waiters,
                Resolved

\* A step that leaves the numbers, the futures and the tables alone, and lets a
\* task sleep only on a backoff, preserves the invariant.
Calm ==
  /\ UNCHANGED <<kind, seqVars, fut, pending, scheduled, coreVars>>
  /\ mode' \in Modes
  /\ at' \in [Waiters -> Places]
  /\ \A h \in Handles : at'[<<h, "task">>] = "sleeping" =>
       at[<<h, "task">>] = "sleeping" \/ fut[<<h, "task">>] = "backoff"

\* A step that leaves the operations and their results alone keeps HandleInv.
LEMMA CalmStep == ASSUME HandleInv, Calm PROVE HandleInv'
<1>1. Types'
  BY DEF HandleInv, Types, Calm, seqVars, coreVars
<1>2. SeqUnique' /\ Listed' /\ PendingWaits'
  BY DEF HandleInv, Calm, seqVars, coreVars, SeqUnique, Listed, PendingWaits, Waits
<1>3. Unscheduled' /\ Resolved'
  BY DEF HandleInv, Calm, seqVars, coreVars, Unscheduled, Idles, Resolved
<1> QED
  BY <1>1, <1>2, <1>3 DEF HandleInv

\* The steps that do so.
LEMMA CalmActions ==
  ASSUME Types,
         \/ \E m \in Modes : Activate(m)
         \/ RunOnce \/ SignalsRun \/ CancelWorkflow \/ FailActivation \/ Evict \/ EvictionDone
         \/ UNCHANGED vars
         \/ \E h \in Handles :
              \/ FireTimer(h) \/ RunTask(h) \/ CancelUnstarted(h) \/ BackOff(h) \/ CancelSleeping(h)
              \/ \E x \in {"call", "task"} :
                   Cancel(h, x) \/ ResultReady(h, x) \/ CancelWaiting(h, x)
  PROVE  Calm
<1> USE DEF instVars
<1>t. mode \in Modes /\ at \in [Waiters -> Places] /\ fut \in [Waiters -> Results]
  BY DEF Types
<1>w. \A h \in Handles : \A x \in {"call", "task"} : <<h, x>> \in Waiters
  BY DEF Waiters
<1>p. Done \subseteq Places /\ {"waiting", "sleeping"} \subseteq Places /\ "sleeping" \notin Done
  BY DEF Places, Done
<1>1. CASE at' = at /\ UNCHANGED <<kind, seqVars, fut, pending, scheduled, coreVars>> /\ mode' \in Modes
  BY <1>1, <1>t DEF Calm
<1>2. CASE \E m \in Modes : Activate(m)
  BY <1>1, <1>2, Zenon DEF Activate, cmdVars
<1>3. CASE \/ RunOnce \/ SignalsRun \/ CancelWorkflow \/ FailActivation \/ Evict \/ EvictionDone
           \/ UNCHANGED vars
  BY <1>1, <1>3, <1>t, Zenon DEF RunOnce, SignalsRun, CancelWorkflow, FailActivation, Evict, EvictionDone,
                          vars, cmdVars
<1>4. ASSUME NEW h \in Handles, FireTimer(h) \/ \E x \in {"call", "task"} : Cancel(h, x)
      PROVE  Calm
  BY <1>1, <1>4, <1>t, Zenon DEF FireTimer, Cancel, cmdVars
<1>5. ASSUME NEW w \in Waiters, NEW d \in Places \ {"sleeping"}, at' = [at EXCEPT ![w] = d],
             UNCHANGED <<kind, seqVars, fut, pending, scheduled, coreVars, mode>>
      PROVE  Calm
  BY <1>5, <1>t, <1>w DEF Calm
<1>6. ASSUME NEW w \in Waiters, EndCancelled(w),
             UNCHANGED <<kind, seqVars, fut, pending, scheduled, coreVars, mode>>
      PROVE  Calm
  <2>1. PICK d \in Done : at' = [at EXCEPT ![w] = d]
    BY <1>6, Zenon DEF EndCancelled, End, Done
  <2> QED
    BY <2>1, <1>5, <1>6, <1>p, Zenon
<1>7. ASSUME NEW h \in Handles, RunTask(h) PROVE Calm
  BY <1>7, <1>5, <1>w, <1>p, Zenon DEF RunTask, cmdVars
<1>8. ASSUME NEW h \in Handles, CancelUnstarted(h) \/ CancelSleeping(h) PROVE Calm
  BY <1>8, <1>6, <1>w, Zenon DEF CancelUnstarted, CancelSleeping, cmdVars
<1>9. ASSUME NEW h \in Handles, BackOff(h) PROVE Calm
  BY <1>9, <1>t, <1>w, <1>p, Zenon DEF BackOff, cmdVars, Calm
<1>10. ASSUME NEW h \in Handles, NEW x \in {"call", "task"}, ResultReady(h, x) PROVE Calm
  <2>1. PICK d \in Done : at' = [at EXCEPT ![<<h, x>>] = d]
    BY <1>10, Zenon DEF ResultReady, End, Done
  <2>2. UNCHANGED <<kind, seqVars, fut, pending, scheduled, coreVars, mode>>
    BY <1>10, Zenon DEF ResultReady, cmdVars
  <2> QED
    BY <2>1, <2>2, <1>5, <1>w, <1>p, Zenon
<1>11. ASSUME NEW h \in Handles, NEW x \in {"call", "task"}, CancelWaiting(h, x) PROVE Calm
  <2>1. EndCancelled(<<h, x>>) \/ at' = at
    BY <1>11, Zenon DEF CancelWaiting, AnswerCancel
  <2>2. UNCHANGED <<kind, seqVars, fut, pending, scheduled, coreVars, mode>>
    BY <1>11, Zenon DEF CancelWaiting
  <2> QED
    BY <2>1, <2>2, <1>1, <1>6, <1>t, <1>w, Zenon
<1> QED
  BY <1>2, <1>3, <1>4, <1>7, <1>8, <1>9, <1>10, <1>11, Zenon

\* A pending operation has a number and does not sleep.
LEMMA PendingAwake ==
  ASSUME HandleInv, NEW s \in Nat, NEW h \in Handles, <<s, h>> \in pending
  PROVE  /\ seq[h] = s /\ s # 0 /\ s \in scheduled
         /\ fut[<<h, "task">>] # "backoff"
         /\ at[<<h, "task">>] # "sleeping"
<1>1. seq[h] = s /\ s \in scheduled
  BY Zenon DEF HandleInv, PendingWaits, Waits
<1>2. s # 0
  BY <1>1 DEF HandleInv, Types
<1>3. fut[<<h, "task">>] # "backoff"
  BY <1>1, Zenon DEF HandleInv, Unscheduled, Idles
<1> QED
  BY <1>1, <1>2, <1>3, Zenon DEF HandleInv, Unscheduled, Idles

\* A job that takes operation h from the pending ones sets only futures of h, and
\* may give h a new number with which it backs off.
LEMMA TakeStep ==
  ASSUME HandleInv, NEW s \in Nat, NEW h \in Handles, Take(s, h),
         UNCHANGED <<kind, mode, at, scheduled, told, begun>>,
         fut' \in [Waiters -> Results],
         \A g \in Handles \ {h} : \A x \in {"call", "task"} : fut'[<<g, x>>] = fut[<<g, x>>],
         \/ UNCHANGED seqVars /\ fut'[<<h, "task">>] # "backoff"
         \/ /\ kind[h] = "local"
            /\ nextSeq' = nextSeq + 1
            /\ seq' = [seq EXCEPT ![h] = nextSeq']
  PROVE  HandleInv'
<1>t. /\ nextSeq \in Nat /\ seq \in [Handles -> 0..nextSeq] /\ scheduled \subseteq 1..nextSeq
      /\ begun \subseteq 1..nextSeq /\ pending \subseteq Nat \X Handles
  BY Zenon DEF HandleInv, Types
<1>u. /\ seq[h] = s /\ s # 0 /\ s \in scheduled /\ s \in open
      /\ <<s, h>> \in pending
      /\ pending' = pending \ {<<s, h>>}
      /\ open' = open \ {s}
      /\ at[<<h, "task">>] # "sleeping"
  BY PendingAwake DEF Take
<1>n. /\ nextSeq' \in Nat /\ nextSeq <= nextSeq'
      /\ seq' \in [Handles -> 0..nextSeq']
      /\ \A g \in Handles \ {h} : seq'[g] = seq[g]
      /\ seq'[h] # 0
      /\ seq'[h] = seq[h] \/ seq'[h] > nextSeq
  BY <1>t, <1>u DEF seqVars
<1>1. Types'
  BY <1>t, <1>u, <1>n DEF HandleInv, Types
<1>2. SeqUnique'
  BY <1>t, <1>n DEF HandleInv, SeqUnique
<1>3. Listed'
  \* another number is pending for another operation
  <2> SUFFICES ASSUME NEW z \in open' \cup (scheduled' \ told')
               PROVE  \E g \in Handles : <<z, g>> \in pending'
    BY DEF Listed
  <2>1. z # s /\ z \in open \cup (scheduled \ told)
    BY <1>u DEF HandleInv, Types
  <2> QED
    BY <2>1, <1>u, Zenon DEF HandleInv, Listed
<1>4. PendingWaits'
  <2> SUFFICES ASSUME NEW z \in Nat, NEW g \in Handles, <<z, g>> \in pending'
               PROVE  /\ g # h
                      /\ <<z, g>> \in pending
    BY <1>n DEF PendingWaits, Waits, HandleInv
  <2>1. <<z, g>> \in pending /\ <<z, g>> # <<s, h>>
    BY <1>u
  <2>2. seq[g] = z
    BY <2>1, ZenonT(30) DEF HandleInv, PendingWaits, Waits
  <2> QED
    BY <2>1, <2>2, <1>u
<1>5. Unscheduled'
  <2> SUFFICES ASSUME NEW g \in Handles PROVE Idles(g)'
    BY DEF Unscheduled
  <2>1. CASE g # h
    BY <2>1, <1>n DEF HandleInv, Unscheduled, Idles
  <2>2. CASE g = h
    BY <2>2, <1>n, <1>u, <1>t DEF Idles, seqVars
  <2> QED
    BY <2>1, <2>2
<1>6. Resolved'
  <2> SUFFICES ASSUME NEW z \in told \ open', NEW g \in Handles, <<z, g>> \in pending'
               PROVE  FALSE
    BY DEF Resolved
  <2>1. <<z, g>> \in pending /\ <<z, g>> # <<s, h>> /\ z \in Nat
    BY <1>u, <1>t
  <2>2. seq[g] = z
    BY <2>1, PendingAwake, Zenon
  <2>3. z # s
    BY <2>1, <2>2, <1>u DEF HandleInv, SeqUnique
  <2> QED
    BY <2>1, <2>3, <1>u, Zenon DEF HandleInv, Resolved
<1> QED
  BY <1>1, <1>2, <1>3, <1>4, <1>5, <1>6 DEF HandleInv

\* Each of the jobs that end an operation, or one attempt of it, is such a job.
LEMMA ResolveStep ==
  ASSUME HandleInv, NEW s \in Nat, NEW h \in Handles,
         \/ ResolveBackoff(s, h) \/ ResolveStart(s, h) \/ FailStart(s, h)
         \/ \E res \in {"value", "error"} :
              ResolveActivity(s, h, res) \/ ResolveResult(s, h, res) \/ ResolveExternal(s, h, res)
  PROVE  HandleInv'
<1>t. fut \in [Waiters -> Results] /\ {"value", "error", "backoff", "pending"} \subseteq Results
  BY DEF HandleInv, Types, Results
<1>w. \A g \in Handles : \A x \in {"call", "task"} : <<g, x>> \in Waiters
  BY Zenon DEF Waiters
<1>p. ASSUME Take(s, h) PROVE fut[<<h, "task">>] # "backoff"
  BY <1>p, PendingAwake DEF Take
<1> USE DEF instVars, cmdVars
<1>1. CASE ResolveBackoff(s, h)
  BY <1>1, <1>t, <1>w, TakeStep, Zenon DEF ResolveBackoff
<1>2. CASE FailStart(s, h)
  BY <1>2, <1>t, <1>w, TakeStep DEF FailStart
<1>3. ASSUME NEW res \in {"value", "error"}, ResolveActivity(s, h, res) PROVE HandleInv'
  BY <1>3, <1>t, <1>w, <1>p, TakeStep, Zenon DEF ResolveActivity
<1>4. ASSUME NEW res \in {"value", "error"}, ResolveResult(s, h, res) PROVE HandleInv'
  BY <1>4, <1>t, <1>w, <1>p, TakeStep, Zenon DEF ResolveResult
<1>5. ASSUME NEW res \in {"value", "error"}, ResolveExternal(s, h, res) PROVE HandleInv'
  BY <1>5, <1>t, <1>w, <1>p, TakeStep DEF ResolveExternal
<1>6. CASE ResolveStart(s, h)
  <2>1. /\ UNCHANGED <<kind, mode, seqVars, at, pending, scheduled, told, open>>
        /\ <<s, h>> \in pending /\ kind[h] \in TwoPhase
        /\ begun' = begun \cup {s}
        /\ fut' = [fut EXCEPT ![<<h, "call">>] = "value"]
    BY <1>6 DEF ResolveStart
  <2>2. seq[h] = s /\ s # 0 /\ s \in scheduled /\ at[<<h, "task">>] # "sleeping"
    BY <2>1, PendingAwake
  <2>3. Types'
    <3>1. s \in told
      BY <1>6 DEF ResolveStart, HandleInv, Types
    <3> QED
      BY <3>1, <2>1, <2>2, <1>t, <1>w, SMTT(20) DEF HandleInv, Types, seqVars
  <2>4. SeqUnique' /\ Listed'
    BY <2>1 DEF HandleInv, SeqUnique, Listed, seqVars
  <2>5. \A g \in Handles : /\ fut'[<<g, "task">>] = fut[<<g, "task">>]
                           /\ g # h => fut'[<<g, "call">>] = fut[<<g, "call">>]
    BY <2>1, <1>t, <1>w, Zenon
  <2>6. PendingWaits'
    <3> SUFFICES ASSUME NEW z \in Nat, NEW g \in Handles, <<z, g>> \in pending'
                 PROVE  Waits(z, g)'
      BY DEF PendingWaits
    <3>1. Waits(z, g)
      BY <2>1, SMTT(20) DEF HandleInv, PendingWaits
    <3>2. z = s => g = h
      BY <3>1, <2>2, ZenonT(30) DEF HandleInv, SeqUnique, Waits
    <3> QED
      BY <3>1, <3>2, <2>1, <2>2, <2>5, Zenon DEF Waits, seqVars, TwoPhase
  <2>7. Unscheduled'
    <3> SUFFICES ASSUME NEW g \in Handles PROVE Idles(g)'
      BY Zenon DEF Unscheduled
    <3>1. Idles(g)
      BY Zenon DEF HandleInv, Unscheduled
    <3>2. /\ kind' = kind /\ seq' = seq /\ scheduled' = scheduled /\ at' = at
          /\ fut'[<<g, "task">>] = fut[<<g, "task">>]
      BY <2>1, <2>5, Zenon DEF seqVars
    <3>3. seq[g] = 0 => fut'[<<g, "call">>] = fut[<<g, "call">>]
      BY <2>2, <2>5, ZenonT(30)
    <3> QED
      BY <3>1, <3>2, <3>3 DEF Idles
  <2>8. Resolved'
    BY <2>1 DEF HandleInv, Resolved
  <2> QED
    BY <2>3, <2>4, <2>6, <2>7, <2>8 DEF HandleInv
<1> QED
  BY <1>1, <1>2, <1>3, <1>4, <1>5, <1>6

\* A Nexus operation that is resolved again is not pending, so nothing changes.
LEMMA ResolveAgainStep ==
  ASSUME HandleInv, NEW s \in Nat, NEW res \in {"value", "error"}, ResolveAgain(s, res)
  PROVE  HandleInv'
<1>1. s \in told \ open
  BY DEF ResolveAgain, EndsLater, HandleInv, Types
<1>2. \A h \in Handles : <<s, h>> \notin pending
  BY <1>1 DEF HandleInv, Resolved
<1>3. pending' = pending
  BY <1>2 DEF ResolveAgain, HandleInv, Types
<1>4. fut' = fut
  <2>1. \A w \in Waiters : w[1] \in Handles
    BY DEF Waiters
  <2> QED
    BY <2>1, <1>2 DEF ResolveAgain, HandleInv, Types
<1>5. UNCHANGED <<kind, mode, seqVars, at, scheduled, told, open, begun>>
  BY DEF ResolveAgain, instVars, cmdVars
<1>6. Types' /\ SeqUnique' /\ Listed' /\ Resolved'
  BY <1>3, <1>4, <1>5 DEF HandleInv, Types, SeqUnique, Listed, Resolved, seqVars
<1>7. PendingWaits' /\ Unscheduled'
  BY <1>3, <1>4, <1>5 DEF HandleInv, PendingWaits, Waits, Unscheduled, Idles, seqVars
<1> QED
  BY <1>6, <1>7 DEF HandleInv

\* A new operation has no pending number, and its futures have no result.
LEMMA NumberStep ==
  ASSUME HandleInv, NEW h \in Handles, kind[h] # "none", Number(h),
         Schedule(h) \/ UNCHANGED <<scheduled, pending>>,
         UNCHANGED <<kind, mode, fut, coreVars>>,
         at' \in [Waiters -> Places],
         \A g \in Handles : at'[<<g, "task">>] = "sleeping" => at[<<g, "task">>] = "sleeping"
  PROVE  HandleInv'
<1>t. /\ nextSeq \in Nat /\ seq \in [Handles -> 0..nextSeq] /\ scheduled \subseteq 1..nextSeq
      /\ begun \subseteq 1..nextSeq /\ pending \subseteq Nat \X Handles
  BY DEF HandleInv, Types
<1>n. /\ seq[h] = 0
      /\ nextSeq' = nextSeq + 1
      /\ seq' = [seq EXCEPT ![h] = nextSeq + 1]
  BY DEF Number
<1>f. /\ kind[h] # "cancel" => fut[<<h, "call">>] = "pending"
      /\ fut[<<h, "task">>] = "pending"
      /\ at[<<h, "task">>] # "sleeping"
  BY <1>n DEF HandleInv, Unscheduled, Idles
<1>s. /\ scheduled \subseteq scheduled' /\ scheduled' \subseteq scheduled \cup {nextSeq + 1}
      /\ pending \subseteq pending' /\ pending' \subseteq pending \cup {<<nextSeq + 1, h>>}
      /\ nextSeq + 1 \in scheduled' <=> <<nextSeq + 1, h>> \in pending'
  <2>1. nextSeq + 1 \notin scheduled /\ <<nextSeq + 1, h>> \notin pending
    <3>1. nextSeq + 1 \in Nat /\ nextSeq + 1 \notin scheduled
      BY <1>t
    <3> QED
      BY <3>1, PendingAwake, Zenon
  <2> QED
    BY <2>1, <1>n DEF Schedule
<1>1. Types'
  BY <1>t, <1>n, <1>s DEF HandleInv, Types, coreVars
<1>2. SeqUnique'
  BY <1>t, <1>n DEF HandleInv, SeqUnique
<1>3. Listed'
  BY <1>s DEF HandleInv, Listed, coreVars
<1>4. PendingWaits'
  <2> SUFFICES ASSUME NEW z \in Nat, NEW g \in Handles, <<z, g>> \in pending'
               PROVE  Waits(z, g)'
    BY DEF PendingWaits
  <2>1. CASE <<z, g>> \in pending
    <3>1. g # h
      BY <2>1, <1>n, PendingAwake, Zenon
    <3>2. seq'[g] = seq[g]
      BY <3>1, <1>n, <1>t
    <3> QED
      BY <2>1, <3>2, <1>s DEF HandleInv, PendingWaits, Waits, coreVars
  <2>2. CASE z = nextSeq + 1 /\ g = h
    BY <2>2, <1>n, <1>t, <1>f, <1>s DEF Waits, TwoPhase, coreVars
  <2> QED
    BY <2>1, <2>2, <1>s
<1>5. Unscheduled'
  <2> SUFFICES ASSUME NEW g \in Handles PROVE Idles(g)'
    BY DEF Unscheduled
  <2>1. CASE g # h
    <3>1. seq'[g] = seq[g] /\ seq[g] # nextSeq + 1
      BY <2>1, <1>n, <1>t
    <3> QED
      BY <3>1, <1>s DEF HandleInv, Unscheduled, Idles
  <2>2. CASE g = h
    BY <2>2, <1>n, <1>t, <1>f DEF Idles
  <2> QED
    BY <2>1, <2>2, Zenon
<1>6. Resolved'
  <2>1. nextSeq + 1 \notin told
    BY <1>t DEF HandleInv, Types
  <2> QED
    BY <2>1, <1>s DEF HandleInv, Resolved, coreVars
<1> QED
  BY <1>1, <1>2, <1>3, <1>4, <1>5, <1>6 DEF HandleInv

\* An activity that was backed off is scheduled under a number that is free.
LEMMA RescheduleStep == ASSUME HandleInv, NEW h \in Handles, Reschedule(h) PROVE HandleInv'
<1>t. /\ nextSeq \in Nat /\ seq \in [Handles -> 0..nextSeq] /\ scheduled \subseteq 1..nextSeq
      /\ begun \subseteq 1..nextSeq /\ pending \subseteq Nat \X Handles
      /\ at \in [Waiters -> Places] /\ fut \in [Waiters -> Results] /\ mode \in Modes
  BY DEF HandleInv, Types
<1>w. \A g \in Handles : \A x \in {"call", "task"} : <<g, x>> \in Waiters
  BY DEF Waiters
<1>c. {"waiting", "error"} \subseteq Places /\ "pending" \in Results
  BY DEF Places, Done, Results
<1>r. /\ UNCHANGED <<kind, mode, seqVars, coreVars>>
      /\ at[<<h, "task">>] = "sleeping"
  BY DEF Reschedule, instVars
<1>b. /\ kind[h] = "local" /\ fut[<<h, "task">>] = "backoff"
      /\ seq[h] # 0 /\ seq[h] \notin scheduled
  BY <1>r, Zenon DEF HandleInv, Unscheduled, Idles
<1>1. CASE UNCHANGED <<scheduled, pending, started, fut>>
  <2>1. at' \in [Waiters -> Places] /\ \A g \in Handles : at'[<<g, "task">>] = "sleeping" =>
                                          at[<<g, "task">>] = "sleeping"
    BY <1>t, <1>w, <1>c, Zenon DEF Reschedule
  <2>2. Calm
    BY <2>1, <1>1, <1>r, <1>t DEF Calm
  <2> QED
    BY <2>2, CalmStep
<1>2. CASE ~UNCHANGED <<scheduled, pending, started, fut>>
  <2>1. /\ scheduled' = scheduled \cup {seq[h]}
        /\ pending' = pending \cup {<<seq[h], h>>}
        /\ fut' = [fut EXCEPT ![<<h, "task">>] = "pending"]
        /\ at' = [at EXCEPT ![<<h, "task">>] = "waiting"]
    BY <1>2 DEF Reschedule
  <2>2. \A g \in Handles : /\ fut'[<<g, "call">>] = fut[<<g, "call">>]
                           /\ g # h => fut'[<<g, "task">>] = fut[<<g, "task">>]
                           /\ g # h => at'[<<g, "task">>] = at[<<g, "task">>]
    BY <2>1, <1>t, <1>w
  <2>3. fut'[<<h, "task">>] = "pending" /\ at'[<<h, "task">>] = "waiting"
    BY <2>1, <1>t, <1>w, Zenon
  <2>4. Types'
    <3>1. at' \in [Waiters -> Places] /\ fut' \in [Waiters -> Results]
      BY <2>1, <1>t, <1>w, <1>c, Zenon
    <3>2. seq[h] \in 1..nextSeq
      BY <1>t, <1>b
    <3>3. scheduled' \subseteq 1..nextSeq
      BY <2>1, <1>t, <3>2, Zenon
    <3>4. pending' \subseteq Nat \X Handles
      BY <2>1, <1>t, <3>2
    <3> QED
      BY <3>1, <3>3, <3>4, <2>1, <1>r DEF HandleInv, Types, seqVars, coreVars
  <2>5. SeqUnique' /\ Listed'
    BY <2>1, <1>r DEF HandleInv, SeqUnique, Listed, seqVars, coreVars
  <2>6. PendingWaits'
    <3> SUFFICES ASSUME NEW z \in Nat, NEW g \in Handles, <<z, g>> \in pending'
                 PROVE  Waits(z, g)'
      BY DEF PendingWaits
    <3>1. CASE <<z, g>> \in pending
      <4>1. g # h
        BY <3>1, <1>b, PendingAwake
      <4> QED
        BY <3>1, <4>1, <2>1, <2>2, <1>r DEF HandleInv, PendingWaits, Waits, seqVars, coreVars
    <3>2. CASE z = seq[h] /\ g = h
      BY <3>2, <2>1, <2>3, <1>b, <1>r DEF Waits, TwoPhase, seqVars
    <3> QED
      BY <3>1, <3>2, <2>1
  <2>7. Unscheduled'
    <3> SUFFICES ASSUME NEW g \in Handles PROVE Idles(g)'
      BY Zenon DEF Unscheduled
    <3>1. CASE g # h
      <4>1. seq[g] # seq[h]
        BY <3>1, <1>b, Zenon DEF HandleInv, SeqUnique
      <4> QED
        BY <3>1, <4>1, <2>1, <2>2, <1>r DEF HandleInv, Unscheduled, Idles, seqVars
    <3>2. CASE g = h
      BY <3>2, <2>3, <1>b, <1>r DEF Idles, seqVars
    <3> QED
      BY <3>1, <3>2
  <2>8. Resolved'
    <3>1. seq[h] \notin told
      BY <1>b DEF HandleInv, Types
    <3> QED
      BY <3>1, <2>1, <1>r DEF HandleInv, Resolved, coreVars
  <2> QED
    BY <2>4, <2>5, <2>6, <2>7, <2>8 DEF HandleInv
<1> QED
  BY <1>1, <1>2

\* Only a cancel request has its future cancelled.
LEMMA CancelRequestStep ==
  ASSUME HandleInv, NEW h \in Handles, CancelCancelRequest(h) PROVE HandleInv'
<1>t. /\ at \in [Waiters -> Places] /\ fut \in [Waiters -> Results] /\ mode \in Modes
  BY DEF HandleInv, Types
<1>w. \A g \in Handles : \A x \in {"call", "task"} : <<g, x>> \in Waiters
  BY DEF Waiters
<1>c. Done \subseteq Places /\ "cancelled" \in Results
  BY DEF Places, Results
<1>r. /\ UNCHANGED <<kind, mode, seqVars, pending, scheduled, coreVars>>
      /\ kind[h] = "cancel"
      /\ at[<<h, "call">>] = "waiting"
  BY DEF CancelCancelRequest, instVars, cmdVars
<1>a. /\ at' \in [Waiters -> Places]
      /\ \A g \in Handles : at'[<<g, "task">>] = at[<<g, "task">>]
  <2>1. PICK d \in Done : at' = [at EXCEPT ![<<h, "call">>] = d]
    BY Zenon DEF CancelCancelRequest, EndCancelled, End, Done
  <2> QED
    BY <2>1, <1>t, <1>w, <1>c, Zenon
<1>f. /\ fut' \in [Waiters -> Results]
      /\ \A g \in Handles : /\ fut'[<<g, "task">>] = fut[<<g, "task">>]
                            /\ g # h => fut'[<<g, "call">>] = fut[<<g, "call">>]
  BY <1>t, <1>w, <1>c, Zenon DEF CancelCancelRequest
<1>1. Types'
  BY <1>a, <1>f, <1>r DEF HandleInv, Types, seqVars, coreVars
<1>2. SeqUnique' /\ Listed' /\ Resolved'
  BY <1>r DEF HandleInv, SeqUnique, Listed, Resolved, seqVars, coreVars
<1>3. PendingWaits'
  BY <1>r, <1>f DEF HandleInv, PendingWaits, Waits, seqVars, coreVars, TwoPhase
<1>4. Unscheduled'
  <2> SUFFICES ASSUME NEW g \in Handles PROVE Idles(g)'
    BY Zenon DEF Unscheduled
  <2>1. Idles(g)
    BY Zenon DEF HandleInv, Unscheduled
  <2>2. /\ kind' = kind /\ seq' = seq /\ scheduled' = scheduled
        /\ at'[<<g, "task">>] = at[<<g, "task">>]
        /\ fut'[<<g, "task">>] = fut[<<g, "task">>]
    BY <1>r, <1>f, <1>a, Zenon DEF seqVars
  <2>3. kind[g] # "cancel" => fut'[<<g, "call">>] = fut[<<g, "call">>]
    BY <1>r, <1>f, Zenon
  <2> QED
    BY <2>1, <2>2, <2>3 DEF Idles
<1> QED
  BY <1>1, <1>2, <1>3, <1>4 DEF HandleInv

\* Every step keeps HandleInv.
LEMMA HandleStep == HandleInv /\ [Next]_vars => HandleInv'
<1> SUFFICES ASSUME HandleInv, [Next]_vars PROVE HandleInv'
  OBVIOUS
<1>t. /\ Types
      /\ kind \in [Handles -> Kinds] /\ mode \in Modes /\ at \in [Waiters -> Places]
      /\ open \subseteq told
  BY DEF HandleInv, Types
<1>w. \A h \in Handles : \A x \in {"call", "task"} : <<h, x>> \in Waiters
  BY DEF Waiters
<1>1. CASE Calm
  BY <1>1, CalmStep
<1>2. CASE Complete
  <2>1. /\ UNCHANGED <<kind, mode, seqVars, at, fut, pending, scheduled, begun>>
        /\ told' = scheduled
        /\ open' = open \cup (scheduled \ told)
    BY <1>2 DEF Complete, instVars, cmdVars
  <2>2. open \subseteq scheduled
    <3> SUFFICES ASSUME NEW s \in open PROVE s \in scheduled
      OBVIOUS
    <3>1. PICK h \in Handles : <<s, h>> \in pending
      BY DEF HandleInv, Listed
    <3>2. s \in Nat
      BY <3>1 DEF HandleInv, Types
    <3> QED
      BY <3>1, <3>2, PendingAwake, Zenon
  <2>3. Types'
    BY <2>1, <2>2 DEF HandleInv, Types, seqVars
  <2>4. SeqUnique' /\ PendingWaits' /\ Unscheduled'
    BY <2>1 DEF HandleInv, SeqUnique, PendingWaits, Waits, Unscheduled, Idles, seqVars
  <2>5. Listed' /\ Resolved'
    BY <2>1 DEF HandleInv, Listed, Resolved
  <2> QED
    BY <2>3, <2>4, <2>5 DEF HandleInv
<1>3. ASSUME NEW s \in 1..MaxSeq, Resolve(s) PROVE HandleInv'
  <2>1. s \in Nat
    BY <1>3, HandleAssumption
  <2> QED
    BY <1>3, <2>1, ResolveStep DEF Resolve
<1>4. ASSUME NEW h \in Handles, ScheduleActivity(h) \/ StartOperation(h) \/ CallExternal(h)
      PROVE  HandleInv'
  <2>1. /\ kind[h] # "none" /\ Number(h) /\ (Schedule(h) \/ UNCHANGED <<scheduled, pending>>)
        /\ UNCHANGED <<kind, mode, fut, coreVars>>
    BY <1>4 DEF ScheduleActivity, StartOperation, CallExternal, instVars, Activities, TwoPhase
  <2>2. {"new", "waiting"} \subseteq Places \ {"sleeping"}
    BY DEF Places
  <2>3. /\ at' \in [Waiters -> Places]
        /\ \A g \in Handles : at'[<<g, "task">>] = "sleeping" => at[<<g, "task">>] = "sleeping"
    BY <1>4, <2>2, <1>t, <1>w, Zenon DEF ScheduleActivity, StartOperation, CallExternal
  <2> QED
    BY <2>1, <2>3, NumberStep
<1>5. ASSUME NEW h \in Handles, Reschedule(h) \/ CancelCancelRequest(h) PROVE HandleInv'
  BY <1>5, RescheduleStep, CancelRequestStep
<1>6. ASSUME NEW s \in 1..MaxSeq, NEW res \in {"value", "error"}, ResolveAgain(s, res)
      PROVE  HandleInv'
  <2>1. s \in Nat
    BY <1>6, HandleAssumption
  <2> QED
    BY <1>6, <2>1, ResolveAgainStep
<1> QED
  BY <1>1, <1>2, <1>3, <1>4, <1>5, <1>6, <1>t, CalmActions, Zenon DEF Next, Advance, TaskStep

\* _apply_resolve_activity and the other jobs: "Failed finding ... handle for
\* sequence" is never raised, no result is set on a future that has one, and a
\* Nexus operation that is resolved again is not pending.
THEOREM ResolvesFind == Spec => []ResolvesFindHandle
<1>1. ASSUME HandleInv, NEW s \in open
      PROVE  \E h \in Handles :
               /\ <<s, h>> \in pending
               /\ \A g \in Handles : <<s, g>> \in pending => g = h
               /\ seq[h] = s
               /\ kind[h] # "cancel" => Awaited(h, s) = "pending"
  <2>1. PICK h \in Handles : <<s, h>> \in pending
    BY <1>1 DEF HandleInv, Listed
  <2>2. s \in Nat
    BY <1>1, <2>1 DEF HandleInv, Types
  <2>3. \A g \in Handles : <<s, g>> \in pending => seq[g] = s /\ s # 0
    BY <1>1, <2>2, PendingAwake, Zenon
  <2>4. \A g \in Handles : <<s, g>> \in pending => g = h
    BY <1>1, <2>1, <2>3 DEF HandleInv, SeqUnique
  <2>5. kind[h] \in Kinds
    BY <1>1 DEF HandleInv, Types
  <2>6. /\ kind[h] # "none"
        /\ kind[h] \in Activities => fut[<<h, "task">>] = "pending"
        /\ kind[h] \in TwoPhase =>
             /\ fut[<<h, "task">>] = "pending"
             /\ s \notin begun => fut[<<h, "call">>] = "pending"
        /\ kind[h] = "signal" => s \notin begun /\ fut[<<h, "call">>] = "pending"
    BY <1>1, <2>1, <2>2 DEF HandleInv, PendingWaits, Waits
  <2>7. kind[h] # "cancel" => Awaited(h, s) = "pending"
    BY <2>5, <2>6 DEF Awaited, Kinds, Activities, TwoPhase
  <2> QED
    BY <2>1, <2>3, <2>4, <2>7
<1>2. ASSUME HandleInv, NEW s \in EndsLater, NEW h \in Handles PROVE <<s, h>> \notin pending
  BY <1>2 DEF EndsLater, HandleInv, Types, Resolved
<1>3. HandleInv => ResolvesFindHandle
  BY <1>1, <1>2, Zenon DEF ResolvesFindHandle
<1> QED
  BY <1>3, HandleInit, HandleStep, PTL DEF Spec

====
