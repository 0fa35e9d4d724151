------------------------ MODULE ActivityWorkerProofs ------------------------
(***************************************************************************)
(* Proofs about ActivityWorker, for every set of activities, any number of *)
(* heartbeats and any queue size.                                          *)
(***************************************************************************)
EXTENDS ActivityWorker, TLAPS

\* What Append does to a sequence.
LEMMA AppendSeq ==
  ASSUME NEW S, NEW s \in Seq(S), NEW x \in S
  PROVE  /\ Append(s, x) \in Seq(S)
         /\ Len(Append(s, x)) = Len(s) + 1
         /\ \A i \in 1..Len(s) : Append(s, x)[i] = s[i]
         /\ Append(s, x)[Len(s) + 1] = x
OBVIOUS

\* The completions of the activities after one of them was sent.
LEMMA SentElements ==
  ASSUME sent \in [Tokens -> Seq(Outcomes)], NEW t \in Tokens, NEW c \in Outcomes,
         sent' = [sent EXCEPT ![t] = Append(sent[t], c)]
  PROVE  \A u \in Tokens : \A i \in DOMAIN sent'[u] :
            \/ sent'[u][i] = c /\ u = t
            \/ i \in DOMAIN sent[u] /\ sent'[u][i] = sent[u][i]
<1>1. /\ sent'[t] = Append(sent[t], c) /\ sent[t] \in Seq(Outcomes)
      /\ \A u \in Tokens : u # t => sent'[u] = sent[u]
  OBVIOUS
<1>2. \A i \in DOMAIN sent'[t] : sent'[t][i] = c \/ (i \in DOMAIN sent[t] /\ sent'[t][i] = sent[t][i])
  BY <1>1, AppendSeq
<1> QED
  BY <1>1, <1>2, Zenon

\* What replacing an element does to a sequence.
LEMMA ReplaceSeq ==
  ASSUME NEW S, NEW s \in Seq(S), NEW i \in 1..Len(s), NEW x \in S
  PROVE  /\ [s EXCEPT ![i] = x] \in Seq(S)
         /\ Len([s EXCEPT ![i] = x]) = Len(s)
         /\ \A j \in 1..Len(s) : [s EXCEPT ![i] = x][j] = IF j = i THEN x ELSE s[j]
<1>1. [s EXCEPT ![i] = x] \in Seq(S)
  OBVIOUS
<1>2. Len([s EXCEPT ![i] = x]) = Len(s)
  OBVIOUS
<1>3. DOMAIN s = 1..Len(s)
  OBVIOUS
<1> QED
  BY <1>1, <1>2, <1>3

-----------------------------------------------------------------------------
\* With the queue p, the heartbeat tasks h and what they took v: a heartbeat that
\* a task took is not queued, and no two tasks took the same one.
TakenOnce(p, h, v) ==
  /\ \A i \in DOMAIN p : 1 <= p[i] /\ p[i] <= Len(h)
  /\ \A k \in DOMAIN h : v[k] \in 0..Len(h) /\ (h[k] = "encoding" => v[k] # 0)
  /\ \A k \in DOMAIN h : \A i \in DOMAIN p : v[k] # p[i]
  /\ \A j, k \in DOMAIN h : v[j] = v[k] /\ v[j] # 0 => j = k

\* What was recorded, r, is what tasks took that have ended, each once.
EndedFirst(h, v, r) ==
  /\ \A i \in DOMAIN r : r[i] # 0 /\ \E k \in DOMAIN h : h[k] = "ended" /\ v[k] = r[i]
  /\ \A i, j \in DOMAIN r : r[i] = r[j] => i = j

\* A heartbeat is queued under a number that no task has taken.
LEMMA QueueRecordInv ==
  ASSUME NEW p \in Seq(Nat), NEW h \in Seq(HbTask), NEW v \in Seq(Nat), NEW r,
         Len(v) = Len(h), TakenOnce(p, h, v), EndedFirst(h, v, r),
         NEW q, q = Append(p, Len(h) + 1), NEW g, g = Append(h, "new"), NEW w, w = Append(v, 0)
  PROVE  TakenOnce(q, g, w) /\ EndedFirst(g, w, r)
<1>1. PICK n \in Nat : n = Len(h) /\ DOMAIN h = 1..n /\ n = Len(v)
  OBVIOUS
<1>2. \A i \in DOMAIN q : q[i] = n + 1 \/ (i \in DOMAIN p /\ q[i] = p[i] /\ p[i] \in Nat)
  BY <1>1
<1>3. DOMAIN g = 1..(n + 1) /\ Len(g) = n + 1 /\ g[n + 1] = "new" /\ w[n + 1] = 0
  BY <1>1, AppendSeq DEF HbTask
<1>4. \A k \in 1..n : g[k] = h[k] /\ w[k] = v[k]
  BY <1>1, AppendSeq DEF HbTask
<1>5. TakenOnce(q, g, w)
  <2>1. \A i \in DOMAIN q : 1 <= q[i] /\ q[i] <= Len(g)
    BY <1>1, <1>2, <1>3 DEF TakenOnce
  <2>2. \A k \in DOMAIN g : w[k] \in 0..Len(g) /\ w[k] <= n /\ (g[k] = "encoding" => w[k] # 0)
    BY <1>1, <1>3, <1>4 DEF TakenOnce
  <2>3. \A k \in DOMAIN g : \A i \in DOMAIN q : w[k] # q[i]
    <3>1. \A i \in DOMAIN p : 1 <= p[i] /\ \A k \in 1..n : v[k] # p[i]
      BY <1>1, Zenon DEF TakenOnce
    <3>2. \A k \in DOMAIN g : w[k] # n + 1 /\ (k \in 1..n \/ w[k] = 0)
      BY <1>1, <1>3, <2>2
    <3> QED
      BY <1>2, <1>4, <3>1, <3>2, SMTT(20)
  <2>4. \A j, k \in DOMAIN g : w[j] = w[k] /\ w[j] # 0 => j = k
    BY <1>1, <1>3, <1>4, SMTT(20) DEF TakenOnce
  <2> QED
    BY <2>1, <2>2, <2>3, <2>4, Zenon DEF TakenOnce
<1>6. EndedFirst(g, w, r)
  BY <1>1, <1>3, <1>4 DEF EndedFirst
<1> QED
  BY <1>5, <1>6

\* A task takes a heartbeat that no other task has taken, and empties the queue.
LEMMA DrainRecordInv ==
  ASSUME NEW p \in Seq(Nat), NEW h \in Seq(HbTask), NEW v \in Seq(Nat), NEW r,
         Len(v) = Len(h), TakenOnce(p, h, v), EndedFirst(h, v, r),
         NEW k \in DOMAIN h, h[k] = "new", p # <<>>
  PROVE  /\ TakenOnce(<<>>, [h EXCEPT ![k] = "encoding"], [v EXCEPT ![k] = p[Len(p)]])
         /\ EndedFirst([h EXCEPT ![k] = "encoding"], [v EXCEPT ![k] = p[Len(p)]], r)
<1>g. PICK g : g = [h EXCEPT ![k] = "encoding"]
  BY Zenon
<1>x. PICK x \in Nat : x = p[Len(p)] /\ Len(p) \in DOMAIN p
  <2>1. Len(p) \in DOMAIN p
    OBVIOUS
  <2> QED
    BY <2>1
<1>w. PICK w : w = [v EXCEPT ![k] = x]
  BY Zenon
<1>1. DOMAIN h = 1..Len(h) /\ DOMAIN v = DOMAIN h /\ Len(h) \in Nat
  OBVIOUS
<1>2. /\ DOMAIN g = DOMAIN h /\ Len(g) = Len(h)
      /\ \A j \in DOMAIN h : g[j] = IF j = k THEN "encoding" ELSE h[j]
      /\ \A j \in DOMAIN h : w[j] = IF j = k THEN x ELSE v[j]
  BY <1>g, <1>w, <1>1, ReplaceSeq DEF HbTask
<1>3. 1 <= x /\ x <= Len(h) /\ \A j \in DOMAIN h : v[j] # x
  BY <1>x DEF TakenOnce
<1>4. TakenOnce(<<>>, g, w)
  <2>1. \A j \in DOMAIN h : v[j] \in 0..Len(h) /\ (h[j] = "encoding" => v[j] # 0)
    BY DEF TakenOnce
  <2>2. \A j \in DOMAIN g : w[j] \in 0..Len(g) /\ (g[j] = "encoding" => w[j] # 0)
    <3>1. x \in 0..Len(h) /\ x # 0
      BY <1>1, <1>3
    <3> QED
      BY <1>2, <2>1, <3>1, Zenon
  <2>3. \A i, j \in DOMAIN g : w[i] = w[j] /\ w[i] # 0 => i = j
    BY <1>2, <1>3, Zenon DEF TakenOnce
  <2>4. DOMAIN <<>> = {}
    OBVIOUS
  <2> QED
    BY <2>2, <2>3, <2>4, Zenon DEF TakenOnce
<1>5. EndedFirst(g, w, r)
  <2>1. \A j \in DOMAIN h : h[j] = "ended" => j \in DOMAIN g /\ g[j] = "ended" /\ w[j] = v[j]
    BY <1>2
  <2> QED
    BY <2>1, Zenon DEF EndedFirst
<1> QED
  BY <1>g, <1>x, <1>w, <1>4, <1>5

\* A task that finds the queue empty ends.
LEMMA EndRecordInv ==
  ASSUME NEW h \in Seq(HbTask), NEW v, NEW r, TakenOnce(<<>>, h, v), EndedFirst(h, v, r),
         NEW k \in DOMAIN h
  PROVE  /\ TakenOnce(<<>>, [h EXCEPT ![k] = "ended"], v)
         /\ EndedFirst([h EXCEPT ![k] = "ended"], v, r)
<1>g. PICK g : g = [h EXCEPT ![k] = "ended"]
  BY Zenon
<1>1. /\ DOMAIN g = DOMAIN h /\ Len(g) = Len(h) /\ g[k] = "ended"
      /\ \A j \in DOMAIN h : j # k => g[j] = h[j]
  BY <1>g, ReplaceSeq DEF HbTask
<1>2. TakenOnce(<<>>, g, v) /\ EndedFirst(g, v, r)
  BY <1>1 DEF TakenOnce, EndedFirst
<1> QED
  BY <1>g, <1>2

\* What a task records was recorded by no other.
LEMMA RecordRecordInv ==
  ASSUME NEW p, NEW h \in Seq(HbTask), NEW v \in Seq(Nat), NEW r \in Seq(Nat),
         Len(v) = Len(h), TakenOnce(p, h, v), EndedFirst(h, v, r),
         NEW k \in DOMAIN h, h[k] = "encoding"
  PROVE  /\ TakenOnce(p, [h EXCEPT ![k] = "ended"], v)
         /\ EndedFirst([h EXCEPT ![k] = "ended"], v, r)
         /\ EndedFirst([h EXCEPT ![k] = "ended"], v, Append(r, v[k]))
<1>g. PICK g : g = [h EXCEPT ![k] = "ended"]
  BY Zenon
<1>s. PICK s : s = Append(r, v[k])
  BY Zenon
<1>1. DOMAIN h = 1..Len(h) /\ v[k] \in Nat /\ v[k] # 0
  BY DEF TakenOnce
<1>2. /\ DOMAIN g = DOMAIN h /\ Len(g) = Len(h) /\ g[k] = "ended"
      /\ \A j \in DOMAIN h : j # k => g[j] = h[j]
  BY <1>g, <1>1, ReplaceSeq DEF HbTask
<1>3. TakenOnce(p, g, v) /\ EndedFirst(g, v, r)
  BY <1>2 DEF TakenOnce, EndedFirst
<1>4. \A i \in DOMAIN r : r[i] # v[k]
  <2>1. ASSUME NEW i \in DOMAIN r PROVE r[i] # v[k]
    <3>1. PICK j \in DOMAIN h : h[j] = "ended" /\ v[j] = r[i] /\ r[i] # 0
      BY DEF EndedFirst
    <3>2. j # k
      BY <3>1
    <3> QED
      BY <3>1, <3>2 DEF TakenOnce
  <2> QED
    BY <2>1
<1>5. /\ \A i \in DOMAIN s : i \in DOMAIN r \/ i = Len(r) + 1
      /\ s[Len(r) + 1] = v[k] /\ \A i \in DOMAIN r : s[i] = r[i]
  BY <1>s, <1>1, AppendSeq
<1>6. ASSUME NEW i \in DOMAIN s
      PROVE  s[i] # 0 /\ \E j \in DOMAIN g : g[j] = "ended" /\ v[j] = s[i]
  <2>1. CASE i \in DOMAIN r
    <3>1. r[i] # 0 /\ \E j \in DOMAIN g : g[j] = "ended" /\ v[j] = r[i]
      BY <1>3, <2>1 DEF EndedFirst
    <3> QED
      BY <1>5, <2>1, <3>1
  <2>2. CASE i = Len(r) + 1
    BY <1>1, <1>2, <1>5, <2>2, Zenon
  <2> QED
    BY <1>5, <2>1, <2>2
<1>7. \A i, j \in DOMAIN s : s[i] = s[j] => i = j
  <2>1. \A i, j \in DOMAIN r : r[i] = r[j] => i = j
    BY <1>3 DEF EndedFirst
  <2> QED
    BY <1>4, <1>5, <2>1
<1>8. EndedFirst(g, v, s)
  BY <1>6, <1>7 DEF EndedFirst
<1> QED
  BY <1>g, <1>s, <1>3, <1>8

-----------------------------------------------------------------------------
\* The steps of one activity's task and of the activity function, one
\* alternative per action.
TaskAction(t) ==
  \/ Begin(t) \/ Decode(t) \/ Encode(t) \/ EncodeFailure(t)
  \/ RaiseCancelled(t) \/ Flushed(t) \/ Complete(t)
  \/ Return(t) \/ RaiseCompleteAsync(t)
  \/ \E e \in Errors \ {"none"} : Raise(t, e)

\* A case analysis of Next.
LEMMA NextCases ==
  ASSUME Next
  PROVE  \/ \E t \in Tokens :
              \/ PollStart(t) \/ PollCancel(t) \/ DrainTask(t)
              \/ CallHeartbeat(t) \/ AsyncHeartbeat(t) \/ RunHeartbeatCall(t)
              \/ TaskAction(t)
              \/ \E k \in Nat : DrainHeartbeats(t, k) \/ RecordHeartbeat(t, k)
         \/ WorkerStep
  BY ConstantsAssumption
  DEF Next, TaskStep, UserStep, HeartbeatStep, TaskAction

\* No step of the worker itself touches an activity or its heartbeats.
LEMMA WorkerFrame ==
  ASSUME WorkerStep PROVE UNCHANGED <<taskVars, hbVars, sent, seenSync>>
  BY Zenon DEF WorkerStep, PollError, RaiseFromExceptionQueue, PollShutdown, Shutdown,
     WaitAllCompleted, GatherDone

\* No step of an activity's task touches its heartbeats or the core's orders.
LEMMA TaskFrame ==
  ASSUME NEW t, TaskAction(t) 
  PROVE  UNCHANGED <<run, shutdown, waiting, gathered, hbVars, core>>
  BY Zenon DEF TaskAction, Begin, Decode, Encode, EncodeFailure, RaiseCancelled,
     Flushed, Complete, Return, RaiseCompleteAsync, Raise, workerVars

\* The result the exception handler builds is an outcome.
LEMMA ResultType ==
  ASSUME NEW t, NEW e PROVE ResultFor(t, e) \in Outcomes
  BY DEF ResultFor, Outcomes

-----------------------------------------------------------------------------
\* The worker's own variables keep their types.
LEMMA WorkerTypesStep ==
  ASSUME WorkerTypes, TaskTypes, [Next]_vars PROVE WorkerTypes'
<1> USE DEF WorkerTypes, workerVars
<1>1. CASE UNCHANGED vars
  BY <1>1 DEF vars
<1>2. ASSUME NEW t \in Tokens, TaskAction(t) PROVE WorkerTypes'
  <2>1. CASE Begin(t)
    BY <2>1 DEF Begin
  <2>2. CASE EncodeFailure(t)
    BY <2>2, Zenon DEF EncodeFailure
  <2>3. CASE ~Begin(t) /\ ~EncodeFailure(t)
    <3>1. UNCHANGED <<workerVars, shutEvent, seenSync>>
      BY <1>2, <2>3, Zenon DEF TaskAction, Decode, Encode, RaiseCancelled,
         Flushed, Complete, Return, RaiseCompleteAsync, Raise
    <3> QED
      BY <3>1
  <2> QED
    BY <2>1, <2>2, <2>3
<1>3. ASSUME NEW t \in Tokens,
             PollStart(t) \/ PollCancel(t) \/ DrainTask(t)
      PROVE  WorkerTypes'
  <2>1. CASE PollStart(t)
    BY <2>1 DEF PollStart
  <2>2. CASE PollCancel(t)
    BY <2>2 DEF PollCancel
  <2>3. CASE DrainTask(t)
    BY <2>3 DEF DrainTask
  <2> QED
    BY <1>3, <2>1, <2>2, <2>3
<1>4. ASSUME NEW t \in Tokens,
             \/ CallHeartbeat(t) \/ AsyncHeartbeat(t) \/ RunHeartbeatCall(t)
             \/ \E k \in Nat : DrainHeartbeats(t, k) \/ RecordHeartbeat(t, k)
      PROVE  WorkerTypes'
  <2>1. UNCHANGED <<workerVars, shutEvent, seenSync>>
    BY <1>4, Zenon DEF CallHeartbeat, AsyncHeartbeat, RunHeartbeatCall, DrainHeartbeats,
       RecordHeartbeat
  <2> QED
    BY <2>1
<1>5. CASE WorkerStep
  <2>1. CASE PollError \/ RaiseFromExceptionQueue \/ PollShutdown
    BY <2>1, Zenon DEF PollError, RaiseFromExceptionQueue, PollShutdown
  <2>2. CASE Shutdown
    BY <2>2 DEF Shutdown
  <2>3. CASE WaitAllCompleted
    BY <2>3 DEF WaitAllCompleted, TaskTypes
  <2>4. CASE GatherDone
    BY <2>4 DEF GatherDone
  <2> QED
    BY <1>5, <2>1, <2>2, <2>3, <2>4 DEF WorkerStep
<1> QED
  BY <1>1, <1>2, <1>3, <1>4, <1>5, NextCases

\* The variables of the activities keep their types.
LEMMA TaskTypesStep ==
  ASSUME TaskTypes, [Next]_vars PROVE TaskTypes'
<1> USE DEF TaskTypes, taskVars, cancelVars
<1>1. CASE UNCHANGED vars
  BY <1>1 DEF vars
<1>2. ASSUME NEW t \in Tokens, TaskAction(t) PROVE TaskTypes'
  <2> USE <1>2 DEF Phases, Errors
  <2>1. CASE Begin(t)
    BY <2>1, ResultType, ConstantsAssumption DEF Begin, Handle
  <2>2. CASE Decode(t)
    BY <2>2, ResultType DEF Decode, Handle
  <2>3. CASE Encode(t)
    BY <2>3, ResultType DEF Encode, Handle, Finish, Outcomes
  <2>4. CASE EncodeFailure(t)
    BY <2>4 DEF EncodeFailure, Finish, Outcomes
  <2>5. CASE RaiseCancelled(t)
    BY <2>5, ResultType DEF RaiseCancelled, Handle
  <2>6. CASE Flushed(t) \/ Complete(t) \/ Return(t)
    BY <2>6 DEF Flushed, Complete, Return
  <2>7. CASE RaiseCompleteAsync(t)
    BY <2>7 DEF RaiseCompleteAsync, Finish, Outcomes
  <2>8. ASSUME NEW e \in Errors \ {"none"}, Raise(t, e) PROVE TaskTypes'
    BY <2>8, ResultType DEF Raise, Handle
  <2> QED
    BY <2>1, <2>2, <2>3, <2>4, <2>5, <2>6, <2>7, <2>8 DEF TaskAction
<1>3. ASSUME NEW t \in Tokens, PollStart(t) \/ DrainTask(t) PROVE TaskTypes'
  BY <1>3 DEF PollStart, DrainTask, Phases
<1>4. ASSUME NEW t \in Tokens, PollCancel(t) PROVE TaskTypes'
  BY <1>4, ConstantsAssumption DEF PollCancel, CancelRunning
<1>5. ASSUME NEW t \in Tokens, AsyncHeartbeat(t) PROVE TaskTypes'
  BY <1>5, ResultType DEF AsyncHeartbeat, Handle, Phases, Errors
<1>6. ASSUME NEW t \in Tokens, NEW k \in Nat, RecordHeartbeat(t, k)
      PROVE  TaskTypes'
  BY <1>6 DEF RecordHeartbeat, CancelRunning
<1>7. ASSUME NEW t \in Tokens,
             \/ CallHeartbeat(t) \/ RunHeartbeatCall(t)
             \/ \E k \in Nat : DrainHeartbeats(t, k)
      PROVE  TaskTypes'
  BY <1>7 DEF CallHeartbeat, RunHeartbeatCall, DrainHeartbeats
<1>8. CASE WorkerStep
  BY <1>8, WorkerFrame
<1> QED
  BY <1>1, <1>2, <1>3, <1>4, <1>5, <1>6, <1>7, <1>8, NextCases

\* Queueing a heartbeat keeps the types.
LEMMA QueueHeartbeatTypes ==
  ASSUME HeartbeatTypes, NEW t \in Tokens, Len(pending[t]) < QueueSize,
         QueueHeartbeat(t)
  PROVE  /\ pending' \in [Tokens -> Seq(Nat)]
         /\ \A u \in Tokens : Len(pending'[u]) <= QueueSize
         /\ hb' \in [Tokens -> Seq(HbTask)]
         /\ taken' \in [Tokens -> Seq(Nat)]
         /\ \A u \in Tokens : Len(taken'[u]) = Len(hb'[u])
<1> DEFINE p == Append(pending[t], Len(hb[t]) + 1)
           h == Append(hb[t], "new")
           v == Append(taken[t], 0)
<1>1. /\ pending[t] \in Seq(Nat) /\ hb[t] \in Seq(HbTask) /\ taken[t] \in Seq(Nat)
      /\ Len(hb[t]) \in Nat /\ "new" \in HbTask
  BY DEF HeartbeatTypes, HbTask
<1>2. /\ p \in Seq(Nat) /\ Len(p) = Len(pending[t]) + 1
      /\ h \in Seq(HbTask) /\ Len(h) = Len(hb[t]) + 1
      /\ v \in Seq(Nat) /\ Len(v) = Len(taken[t]) + 1
  BY <1>1, AppendSeq
<1>3. /\ pending' = [pending EXCEPT ![t] = p]
      /\ hb' = [hb EXCEPT ![t] = h]
      /\ taken' = [taken EXCEPT ![t] = v]
  BY DEF QueueHeartbeat
<1>4. Len(p) <= QueueSize /\ Len(v) = Len(h)
  BY <1>1, <1>2, ConstantsAssumption, SMTT(20) DEF HeartbeatTypes
<1> HIDE DEF p, h, v
<1> QED
  BY <1>2, <1>3, <1>4, SMTT(20) DEF HeartbeatTypes

\* The heartbeat variables keep their types: in particular the queue of an
\* activity never exceeds its capacity.
LEMMA HeartbeatTypesStep ==
  ASSUME HeartbeatTypes, [Next]_vars PROVE HeartbeatTypes'
<1> USE ConstantsAssumption DEF HeartbeatTypes, hbVars
<1>1. CASE UNCHANGED vars
  BY <1>1 DEF vars
<1>2. ASSUME NEW t \in Tokens, TaskAction(t) PROVE HeartbeatTypes'
  BY <1>2, TaskFrame
<1>3. ASSUME NEW t \in Tokens, PollStart(t) \/ PollCancel(t) \/ DrainTask(t)
      PROVE  HeartbeatTypes'
  BY <1>3, Zenon DEF PollStart, PollCancel, DrainTask
<1>4. ASSUME NEW t \in Tokens, CallHeartbeat(t) PROVE HeartbeatTypes'
  BY <1>4 DEF CallHeartbeat
<1>5. ASSUME NEW t \in Tokens, AsyncHeartbeat(t) PROVE HeartbeatTypes'
  BY <1>5, QueueHeartbeatTypes, Zenon DEF AsyncHeartbeat, Heartbeat
<1>6. ASSUME NEW t \in Tokens, RunHeartbeatCall(t) PROVE HeartbeatTypes'
  <2>1. calls' \in [Tokens -> Nat] /\ recorded' = recorded
    BY <1>6 DEF RunHeartbeatCall
  <2>2. CASE UNCHANGED <<pending, hb, taken>>
    BY <2>1, <2>2
  <2>3. CASE Len(pending[t]) < QueueSize /\ QueueHeartbeat(t)
    BY <2>1, <2>3, QueueHeartbeatTypes, Zenon
  <2> QED
    BY <1>6, <2>2, <2>3, Zenon DEF RunHeartbeatCall, Heartbeat
<1>7. ASSUME NEW t \in Tokens, NEW k \in Nat, DrainHeartbeats(t, k)
      PROVE  HeartbeatTypes'
  <2> DEFINE last == pending[t][Len(pending[t])]
  <2>0. hb[t] \in Seq(HbTask) /\ taken[t] \in Seq(Nat) /\ Len(taken[t]) = Len(hb[t])
    OBVIOUS
  <2>1. k \in 1..Len(hb[t]) /\ k \in 1..Len(taken[t])
    BY <1>7, <2>0 DEF DrainHeartbeats
  <2>2. \A s \in HbTask : /\ [hb[t] EXCEPT ![k] = s] \in Seq(HbTask)
                          /\ Len([hb[t] EXCEPT ![k] = s]) = Len(hb[t])
    BY <2>0, <2>1, ReplaceSeq
  <2>3. \A n \in Nat : /\ [taken[t] EXCEPT ![k] = n] \in Seq(Nat)
                       /\ Len([taken[t] EXCEPT ![k] = n]) = Len(taken[t])
    BY <2>0, <2>1, ReplaceSeq
  <2>4. pending[t] # <<>> => last \in Nat
    BY DEF HeartbeatTypes
  <2>5. /\ pending' \in [Tokens -> Seq(Nat)]
        /\ \A u \in Tokens : Len(pending'[u]) <= QueueSize
        /\ UNCHANGED <<calls, recorded>>
    <3>1. pending' = [pending EXCEPT ![t] = <<>>] /\ UNCHANGED <<calls, recorded>>
      BY <1>7 DEF DrainHeartbeats
    <3>2. <<>> \in Seq(Nat) /\ Len(<<>>) = 0
      OBVIOUS
    <3> QED
      BY <3>1, <3>2
  <2>6. CASE pending[t] = <<>>
    <3>1. UNCHANGED taken /\ hb' = [hb EXCEPT ![t] = [hb[t] EXCEPT ![k] = "ended"]]
      BY <1>7, <2>6, Zenon DEF DrainHeartbeats
    <3> QED
      BY <2>2, <2>5, <3>1 DEF HbTask
  <2>7. CASE pending[t] # <<>>
    <3>1. /\ hb' = [hb EXCEPT ![t] = [hb[t] EXCEPT ![k] = "encoding"]]
          /\ taken' = [taken EXCEPT ![t] = [taken[t] EXCEPT ![k] = last]]
      BY <1>7, <2>7 DEF DrainHeartbeats
    <3> HIDE DEF last
    <3> QED
      BY <2>2, <2>3, <2>4, <2>5, <2>7, <3>1, Zenon DEF HbTask
  <2> QED
    BY <2>6, <2>7, Zenon
<1>8. ASSUME NEW t \in Tokens, NEW k \in Nat, RecordHeartbeat(t, k)
      PROVE  HeartbeatTypes'
  <2>1. hb[t] \in Seq(HbTask) /\ taken[t] \in Seq(Nat) /\ k \in 1..Len(hb[t])
    BY <1>8 DEF RecordHeartbeat
  <2>2. /\ [hb[t] EXCEPT ![k] = "ended"] \in Seq(HbTask)
        /\ Len([hb[t] EXCEPT ![k] = "ended"]) = Len(hb[t])
    BY <2>1, ReplaceSeq DEF HbTask
  <2>3. taken[t][k] \in Nat /\ recorded[t] \in Seq(Nat)
    BY <2>1
  <2>4. Append(recorded[t], taken[t][k]) \in Seq(Nat)
    BY <2>3, AppendSeq
  <2> QED
    BY <1>8, <2>2, <2>4, Zenon DEF RecordHeartbeat
<1>9. CASE WorkerStep
  BY <1>9, WorkerFrame
<1> QED
  BY <1>1, <1>2, <1>3, <1>4, <1>5, <1>6, <1>7, <1>8, <1>9, NextCases, Zenon

\* The core's side keeps its types.
LEMMA CoreTypesStep ==
  ASSUME CoreTypes, TaskTypes, [Next]_vars PROVE CoreTypes'
<1> USE DEF CoreTypes
<1>1. CASE UNCHANGED vars
  BY <1>1 DEF vars
<1>2. ASSUME NEW t \in Tokens, TaskAction(t) PROVE CoreTypes'
  <2>1. CASE Complete(t)
    <3>1. Append(sent[t], outcome[t]) \in Seq(Outcomes)
      BY AppendSeq DEF TaskTypes
    <3> QED
      BY <2>1, <3>1, Zenon DEF Complete
  <2>2. CASE ~Complete(t)
    <3>1. UNCHANGED <<core, sent>>
      BY <1>2, <2>2, Zenon DEF TaskAction, Begin, Decode, Encode, EncodeFailure,
         RaiseCancelled, Flushed, Return, RaiseCompleteAsync, Raise
    <3> QED
      BY <3>1
  <2> QED
    BY <2>1, <2>2
<1>3. ASSUME NEW t \in Tokens, PollStart(t) \/ PollCancel(t) PROVE CoreTypes'
  BY <1>3, Zenon DEF PollStart, PollCancel, IssueCancel
<1>4. ASSUME NEW t \in Tokens, DrainTask(t) PROVE CoreTypes'
  <2>1. Append(sent[t], "failed") \in Seq(Outcomes)
    BY AppendSeq DEF Outcomes
  <2> QED
    BY <1>4, <2>1, Zenon DEF DrainTask, IssueCancel
<1>5. ASSUME NEW t \in Tokens,
             \/ CallHeartbeat(t) \/ AsyncHeartbeat(t) \/ RunHeartbeatCall(t)
             \/ \E k \in Nat : DrainHeartbeats(t, k) \/ RecordHeartbeat(t, k)
      PROVE  CoreTypes'
  BY <1>5, Zenon DEF CallHeartbeat, AsyncHeartbeat, RunHeartbeatCall, DrainHeartbeats,
     RecordHeartbeat
<1>6. CASE WorkerStep
  BY <1>6 DEF WorkerStep, PollError, RaiseFromExceptionQueue, PollShutdown,
     Shutdown, WaitAllCompleted, GatherDone
<1> QED
  BY <1>1, <1>2, <1>3, <1>4, <1>5, <1>6, NextCases

\* The types of the variables are kept, and with them the bound on the queue of
\* pending heartbeats: put_nowait never queues more than its capacity.
THEOREM TypeInvariant == Spec => []TypeOK
<1>1. Init => TypeOK
  <2> SUFFICES ASSUME Init PROVE TypeOK
    OBVIOUS
  <2> USE DEF Init
  <2>1. WorkerTypes
    BY Zenon DEF WorkerTypes
  <2>2. TaskTypes
    BY DEF TaskTypes, Phases, Errors, Outcomes
  <2>3. HeartbeatTypes
    BY ConstantsAssumption DEF HeartbeatTypes
  <2>4. CoreTypes
    BY DEF CoreTypes
  <2> QED
    BY <2>1, <2>2, <2>3, <2>4 DEF TypeOK
<1>2. TypeOK /\ [Next]_vars => TypeOK'
  BY WorkerTypesStep, TaskTypesStep, HeartbeatTypesStep, CoreTypesStep DEF TypeOK
<1> QED
  BY <1>1, <1>2, PTL DEF Spec

-----------------------------------------------------------------------------
\* What a step of an activity's task does to where tasks are: it moves its own
\* task only, which had started or was created, and removes the activity from
\* _running_activities only when the task ends.
LEMMA TaskMoves ==
  ASSUME TaskTypes, NEW t \in Tokens, TaskAction(t)
  PROVE  /\ task[t] \notin {"none", "ended", "dead"}
         /\ task' = [task EXCEPT ![t] = task'[t]]
         /\ task'[t] \notin {"none", "created"}
         /\ \/ running' = running
            \/ running' = running \ {t} /\ task'[t] = "ended"
<1> USE DEF TaskTypes, Handle, Finish
<1>1. CASE Begin(t)
  BY <1>1 DEF Begin
<1>2. CASE Decode(t)
  BY <1>2 DEF Decode
<1>3. CASE Encode(t)
  BY <1>3 DEF Encode
<1>4. CASE EncodeFailure(t)
  BY <1>4 DEF EncodeFailure
<1>5. CASE RaiseCancelled(t)
  BY <1>5 DEF RaiseCancelled, Alive
<1>6. CASE Flushed(t) \/ Complete(t) \/ Return(t)
  BY <1>6 DEF Flushed, Complete, Return
<1>7. CASE RaiseCompleteAsync(t)
  BY <1>7 DEF RaiseCompleteAsync
<1>8. ASSUME NEW e \in Errors \ {"none"}, Raise(t, e)
      PROVE  /\ task[t] = "running" /\ task' = [task EXCEPT ![t] = "handling"]
             /\ running' = running
  BY <1>8 DEF Raise
<1> QED
  BY <1>1, <1>2, <1>3, <1>4, <1>5, <1>6, <1>7, <1>8 DEF TaskAction

\* A task that has been created and has not ended.
Unfinished(t) == task[t] \notin {"none", "ended", "dead"}

\* Why wait_all_completed() waits for every activity: unfinished activities
\* are in _running_activities, and once it has gathered them the poll loop has
\* ended and starts no other.
WaitInv ==
  /\ \A t \in Tokens : Unfinished(t) => t \in running
  /\ waiting # "no" =>
       /\ shutdown = TRUE
       /\ run \in {"returned", "raised"}
       /\ \A t \in Tokens : Unfinished(t) => t \in gathered
  /\ waiting = "returned" => \A t \in gathered : task[t] = "ended"

\* No step makes wait_all_completed() miss an activity.
LEMMA WaitInvStep ==
  ASSUME TypeOK, WaitInv, [Next]_vars PROVE WaitInv'
<1> USE DEF TypeOK, WorkerTypes, TaskTypes, WaitInv, Unfinished, workerVars, taskVars
<1>1. CASE UNCHANGED vars
  BY <1>1 DEF vars
<1>2. ASSUME NEW t \in Tokens, TaskAction(t) PROVE WaitInv'
  <2>1. UNCHANGED <<run, shutdown, waiting, gathered>>
    BY <1>2, TaskFrame
  <2>2. /\ Unfinished(t)
        /\ \A u \in Tokens \ {t} : task'[u] = task[u]
        /\ \/ running' = running
           \/ running' = running \ {t} /\ task'[t] = "ended"
    BY <1>2, TaskMoves
  <2>3. waiting # "returned"
    BY <2>2
  <2> QED
    BY <2>1, <2>2, <2>3
<1>3. ASSUME NEW t \in Tokens, PollStart(t) PROVE WaitInv'
  BY <1>3 DEF PollStart
<1>4. ASSUME NEW t \in Tokens, PollCancel(t) PROVE WaitInv'
  BY <1>4 DEF PollCancel
<1>5. ASSUME NEW t \in Tokens, DrainTask(t) PROVE WaitInv'
  BY <1>5 DEF DrainTask
<1>6. ASSUME NEW t \in Tokens, AsyncHeartbeat(t) PROVE WaitInv'
  BY <1>6 DEF AsyncHeartbeat, Handle
<1>7. ASSUME NEW t \in Tokens,
             \/ CallHeartbeat(t) \/ RunHeartbeatCall(t)
             \/ \E k \in Nat : DrainHeartbeats(t, k) \/ RecordHeartbeat(t, k)
      PROVE  WaitInv'
  <2>1. UNCHANGED <<workerVars, running, task>>
    BY <1>7, Zenon DEF CallHeartbeat, RunHeartbeatCall, DrainHeartbeats, RecordHeartbeat
  <2> QED
    BY <2>1
<1>8. CASE WorkerStep
  <2>1. UNCHANGED <<running, task>>
    BY <1>8, WorkerFrame
  <2>2. CASE PollError \/ PollShutdown \/ RaiseFromExceptionQueue
    BY <2>1, <2>2 DEF PollError, PollShutdown, RaiseFromExceptionQueue
  <2>3. CASE Shutdown
    BY <2>1, <2>3 DEF Shutdown
  <2>4. CASE WaitAllCompleted
    BY <2>1, <2>4 DEF WaitAllCompleted
  <2>5. CASE GatherDone
    BY <2>1, <2>5 DEF GatherDone
  <2> QED
    BY <1>8, <2>2, <2>3, <2>4, <2>5, Zenon DEF WorkerStep
<1> QED
  BY <1>1, <1>2, <1>3, <1>4, <1>5, <1>6, <1>7, <1>8, NextCases, Zenon

\* wait_all_completed() returns only when no activity is running any more,
\* whatever polls, drains and cancellations went on before.
THEOREM WaitsForAll == Spec => []WaitedForAll
<1>1. Init => WaitInv
  BY DEF Init, WaitInv, Unfinished
<1>2. WaitInv => WaitedForAll
  BY DEF WaitInv, Unfinished, WaitedForAll, Alive
<1> QED
  BY <1>1, <1>2, WaitInvStep, TypeInvariant, PTL DEF Spec

-----------------------------------------------------------------------------
\* Why the last heartbeat stays flushed: an activity whose task is past the
\* result has done set, so _heartbeat adds no task to the one awaited.
FlushInv ==
  \A t \in Tokens :
    /\ task[t] \in {"flushing", "completing", "ended"} => t \in done
    /\ task[t] \in {"completing", "ended"} => LastHeartbeatEnded(t)

\* How a step of an activity's task reaches the phases after the result.
LEMMA TaskFinishes ==
  ASSUME TaskTypes, NEW t \in Tokens, TaskAction(t)
  PROVE  /\ done \subseteq done'
         /\ task'[t] = "flushing" => t \in done'
         /\ task'[t] = "completing" => task[t] = "flushing" /\ LastHeartbeatEnded(t)
         /\ task'[t] = "ended" => task[t] = "completing"
<1> USE DEF TaskTypes, Handle, Finish
<1>1. CASE Begin(t)
  BY <1>1 DEF Begin
<1>2. CASE Decode(t)
  BY <1>2 DEF Decode
<1>3. CASE Encode(t)
  BY <1>3 DEF Encode
<1>4. CASE EncodeFailure(t)
  BY <1>4 DEF EncodeFailure
<1>5. CASE RaiseCancelled(t)
  BY <1>5 DEF RaiseCancelled, Alive
<1>6. CASE Flushed(t) \/ Complete(t) \/ Return(t)
  BY <1>6 DEF Flushed, Complete, Return
<1>7. CASE RaiseCompleteAsync(t)
  BY <1>7 DEF RaiseCompleteAsync
<1>8. ASSUME NEW e \in Errors \ {"none"}, Raise(t, e)
      PROVE  task' = [task EXCEPT ![t] = "handling"] /\ done' = done
  BY <1>8, Zenon DEF Raise
<1> QED
  BY <1>1, <1>2, <1>3, <1>4, <1>5, <1>6, <1>7, <1>8 DEF TaskAction

\* No step creates a heartbeat task once the activity is marked done, so the
\* last one stays ended.
LEMMA FlushInvStep ==
  ASSUME TypeOK, FlushInv, [Next]_vars PROVE FlushInv'
<1>0. task \in [Tokens -> Phases] /\ hb \in [Tokens -> Seq(HbTask)] /\ TaskTypes
  BY DEF TypeOK, TaskTypes, HeartbeatTypes
<1> USE DEF FlushInv
<1>1. CASE UNCHANGED vars
  BY <1>1, Zenon DEF vars, taskVars, hbVars, LastHeartbeatEnded
<1>2. ASSUME NEW t \in Tokens, TaskAction(t) PROVE FlushInv'
  <2>1. \A u \in Tokens : LastHeartbeatEnded(u)' <=> LastHeartbeatEnded(u)
    BY <1>2, TaskFrame, Zenon DEF hbVars, LastHeartbeatEnded
  <2>2. \A u \in Tokens \ {t} : task'[u] = task[u]
    BY <1>0, <1>2, TaskMoves, Zenon
  <2> QED
    BY <1>0, <1>2, <2>1, <2>2, TaskFinishes
<1>3. ASSUME NEW t \in Tokens, PollStart(t) PROVE FlushInv'
  BY <1>0, <1>3 DEF PollStart, hbVars, LastHeartbeatEnded
<1>4. ASSUME NEW t \in Tokens, PollCancel(t) \/ DrainTask(t) \/ CallHeartbeat(t)
      PROVE  FlushInv'
  <2>1. UNCHANGED <<task, done, hb>>
    BY <1>4, Zenon DEF PollCancel, DrainTask, CallHeartbeat, taskVars, hbVars
  <2> QED
    BY <2>1, Zenon DEF LastHeartbeatEnded
<1>5. ASSUME NEW t \in Tokens, AsyncHeartbeat(t) \/ RunHeartbeatCall(t)
      PROVE  FlushInv'
  <2>1. /\ done' = done
        /\ \/ task' = task
           \/ task[t] = "running" /\ task' = [task EXCEPT ![t] = "handling"]
        /\ \/ hb' = hb
           \/ t \notin done /\ hb' = [hb EXCEPT ![t] = Append(hb[t], "new")]
    BY <1>5, Zenon DEF AsyncHeartbeat, RunHeartbeatCall, Heartbeat, QueueHeartbeat, Handle,
       taskVars, hbVars
  <2>2. \A u \in Tokens : u \in done => hb'[u] = hb[u]
    BY <1>0, <2>1
  <2>3. \A u \in Tokens : u \in done /\ LastHeartbeatEnded(u) => LastHeartbeatEnded(u)'
    BY <2>2, Zenon DEF LastHeartbeatEnded
  <2>4. \A u \in Tokens : task'[u] = task[u] \/ task'[u] = "handling"
    BY <1>0, <2>1
  <2> QED
    BY <2>1, <2>3, <2>4, Zenon
<1>6. ASSUME NEW t \in Tokens, NEW k \in Nat,
             DrainHeartbeats(t, k) \/ RecordHeartbeat(t, k)
      PROVE  FlushInv'
  <2>1. /\ UNCHANGED <<task, done>>
        /\ k \in DOMAIN hb[t] /\ hb[t][k] # "ended"
        /\ \E x \in HbTask : hb' = [hb EXCEPT ![t] = [hb[t] EXCEPT ![k] = x]]
    BY <1>6, Zenon DEF DrainHeartbeats, RecordHeartbeat, HbTask, taskVars
  <2>2. \A u \in Tokens : LastHeartbeatEnded(u) => LastHeartbeatEnded(u)'
    <3> SUFFICES ASSUME NEW u \in Tokens, LastHeartbeatEnded(u)
                 PROVE  LastHeartbeatEnded(u)'
      OBVIOUS
    <3>1. CASE u # t
      BY <1>0, <2>1, <3>1 DEF LastHeartbeatEnded
    <3>2. CASE u = t
      <4>1. PICK x \in HbTask : hb' = [hb EXCEPT ![t] = [hb[t] EXCEPT ![k] = x]]
        BY <2>1, Zenon
      <4>2. hb[t] \in Seq(HbTask) /\ k \in 1..Len(hb[t]) /\ k # Len(hb[t])
        BY <1>0, <2>1, <3>2 DEF LastHeartbeatEnded
      <4>3. /\ hb'[t] = [hb[t] EXCEPT ![k] = x]
            /\ hb'[t] \in Seq(HbTask) /\ Len(hb'[t]) = Len(hb[t])
        BY <1>0, <4>1, <4>2, ReplaceSeq
      <4> QED
        BY <3>2, <4>2, <4>3, Zenon DEF LastHeartbeatEnded
    <3> QED
      BY <3>1, <3>2
  <2> QED
    BY <2>1, <2>2
<1>7. CASE WorkerStep
  BY <1>7, WorkerFrame, Zenon DEF taskVars, hbVars, LastHeartbeatEnded
<1> QED
  BY <1>1, <1>2, <1>3, <1>4, <1>5, <1>6, <1>7, NextCases, Zenon

\* When the completion of an activity is sent, its last heartbeat task has
\* ended, however late a heartbeat() call of its thread reaches the loop.
THEOREM FlushesLastHeartbeat == Spec => []LastHeartbeatFlushed
<1>1. Init => FlushInv
  BY DEF Init, FlushInv
<1>2. FlushInv => LastHeartbeatFlushed
  BY DEF FlushInv, LastHeartbeatFlushed
<1> QED
  BY <1>1, <1>2, FlushInvStep, TypeInvariant, PTL DEF Spec

-----------------------------------------------------------------------------
\* The core asked to cancel the attempt, on request or for a shutdown, and
\* neither to pause nor to reset it.
Requested(t) ==
  /\ core[t] = "cancelled"
  /\ details[t] \cap {"cancelled", "shutdown"} # {}
  /\ details[t] \cap {"paused", "reset"} = {}

\* Why only a request is reported as a cancellation: cancelled_by_request is
\* set with the details it was derived from, which change once.
CancelInv ==
  \A t \in Tokens :
    /\ t \in byRequest =>
         core[t] = "cancelled" /\ details[t] \cap {"cancelled", "shutdown"} # {}
    /\ outcome[t] = "cancelled" => Requested(t)
    /\ \A i \in DOMAIN sent[t] : sent[t][i] = "cancelled" => Requested(t)

\* The outcomes and completions a step of an activity's task can produce.
LEMMA TaskOutcome ==
  ASSUME TaskTypes, NEW t \in Tokens, TaskAction(t)
  PROVE  /\ UNCHANGED <<byRequest, details, core>>
         /\ \A u \in Tokens \ {t} : outcome'[u] = outcome[u]
         /\ outcome'[t] = "cancelled" =>
              \/ outcome[t] = "cancelled"
              \/ t \in byRequest /\ details[t] \cap {"paused", "reset"} = {}
         /\ \/ sent' = sent
            \/ sent' = [sent EXCEPT ![t] = Append(sent[t], outcome[t])]
<1> DEFINE Effect ==
      /\ UNCHANGED <<byRequest, details, core>>
      /\ \/ outcome' = outcome
         \/ \E e : outcome' = [outcome EXCEPT ![t] = ResultFor(t, e)]
         \/ \E o \in Outcomes \ {"cancelled"} : outcome' = [outcome EXCEPT ![t] = o]
      /\ \/ sent' = sent
         \/ sent' = [sent EXCEPT ![t] = Append(sent[t], outcome[t])]
<1> USE DEF cancelVars, Handle, Finish
<1>1. ASSUME Begin(t) PROVE Effect
  BY <1>1, Zenon DEF Begin
<1>2. ASSUME Decode(t) PROVE Effect
  BY <1>2, Zenon DEF Decode
<1>3. ASSUME Encode(t) PROVE Effect
  BY <1>3 DEF Encode, Outcomes
<1>4. ASSUME EncodeFailure(t) PROVE Effect
  BY <1>4 DEF EncodeFailure, Outcomes, TaskTypes
<1>5. ASSUME RaiseCancelled(t) PROVE Effect
  BY <1>5, Zenon DEF RaiseCancelled
<1>6. ASSUME Flushed(t) \/ Complete(t) \/ Return(t) PROVE Effect
  BY <1>6, Zenon DEF Flushed, Complete, Return
<1>7. ASSUME RaiseCompleteAsync(t) PROVE Effect
  BY <1>7, Zenon DEF RaiseCompleteAsync, Outcomes
<1>8. ASSUME NEW e \in Errors \ {"none"}, Raise(t, e) PROVE Effect
  BY <1>8, Zenon DEF Raise
<1>9. Effect
  BY <1>1, <1>2, <1>3, <1>4, <1>5, <1>6, <1>7, <1>8 DEF TaskAction
<1>10. \A e : ResultFor(t, e) = "cancelled" =>
         t \in byRequest /\ details[t] \cap {"paused", "reset"} = {}
  BY DEF ResultFor
<1> QED
  BY <1>9, <1>10 DEF TaskTypes

\* No step records a requested cancellation without the core's request.
LEMMA CancelInvStep ==
  ASSUME TypeOK, CancelInv, [Next]_vars PROVE CancelInv'
<1>0. /\ core \in [Tokens -> {"none", "started", "cancelled"}] /\ byRequest \subseteq Tokens
      /\ details \in [Tokens -> SUBSET Flags] /\ outcome \in [Tokens -> Outcomes]
      /\ sent \in [Tokens -> Seq(Outcomes)] /\ TaskTypes
  BY DEF TypeOK, TaskTypes, CoreTypes
<1>1. CASE UNCHANGED vars
  BY <1>1, Zenon DEF vars, taskVars, cancelVars, CancelInv, Requested
<1>2. ASSUME NEW t \in Tokens, TaskAction(t) PROVE CancelInv'
  <2>1. UNCHANGED <<byRequest, details, core>>
    BY <1>0, <1>2, TaskOutcome, Zenon
  <2>2. \A u \in Tokens : outcome'[u] = "cancelled" => Requested(u)
    BY <1>0, <1>2, TaskOutcome DEF CancelInv, Requested
  <2>3. \A u \in Tokens : \A i \in DOMAIN sent'[u] :
           sent'[u][i] = "cancelled" => Requested(u)
    <3>1. CASE sent' = sent
      BY <3>1, Zenon DEF CancelInv
    <3>2. CASE sent' = [sent EXCEPT ![t] = Append(sent[t], outcome[t])]
      <4>1. sent \in [Tokens -> Seq(Outcomes)] /\ outcome[t] \in Outcomes
        BY <1>0, SMTT(20)
      <4>2. \A u \in Tokens : \A i \in DOMAIN sent'[u] :
              \/ sent'[u][i] = outcome[t] /\ u = t
              \/ i \in DOMAIN sent[u] /\ sent'[u][i] = sent[u][i]
        BY <3>2, <4>1, SentElements, Zenon
      <4> QED
        BY <4>2, Zenon DEF CancelInv
    <3> QED
      BY <1>0, <1>2, <3>1, <3>2, TaskOutcome, Zenon
  <2> QED
    BY <2>1, <2>2, <2>3, Zenon DEF CancelInv, Requested
<1>3. ASSUME NEW t \in Tokens, PollStart(t) PROVE CancelInv'
  <2>1. /\ core[t] = "none" /\ core' = [core EXCEPT ![t] = "started"]
        /\ UNCHANGED <<byRequest, details, outcome, sent>>
    BY <1>3, Zenon DEF PollStart, cancelVars
  <2> QED
    BY <1>0, <2>1 DEF CancelInv, Requested
<1>4. ASSUME NEW t \in Tokens, PollCancel(t) PROVE CancelInv'
  <2>1. /\ core[t] = "started" /\ core' = [core EXCEPT ![t] = "cancelled"]
        /\ UNCHANGED <<outcome, sent>>
    BY <1>4, Zenon DEF PollCancel, IssueCancel
  <2>2. CASE t \notin running
    <3>1. UNCHANGED <<byRequest, details>>
      BY <1>4, <2>2, Zenon DEF PollCancel, cancelVars
    <3> QED
      BY <1>0, <2>1, <3>1 DEF CancelInv, Requested
  <2>3. CASE t \in running
    <3>1. PICK d \in CancelDetails :
             /\ details' = [details EXCEPT ![t] = d]
             /\ byRequest' = (IF d \cap {"cancelled", "shutdown"} # {}
                              THEN byRequest \cup {t} ELSE byRequest \ {t})
      BY <1>4, <2>3, Zenon DEF PollCancel, CancelRunning
    <3> QED
      BY <1>0, <2>1, <3>1 DEF CancelInv, Requested
  <2> QED
    BY <2>2, <2>3, Zenon
<1>5. ASSUME NEW t \in Tokens, DrainTask(t) PROVE CancelInv'
  <2>1. /\ UNCHANGED <<outcome, byRequest, details>>
        /\ core[t] # "cancelled"
        /\ \E c \in {"started", "cancelled"} : core' = [core EXCEPT ![t] = c]
    BY <1>5, Zenon DEF DrainTask, IssueCancel, taskVars, cancelVars
  <2>2. sent' = sent \/ sent' = [sent EXCEPT ![t] = Append(sent[t], "failed")]
    BY <1>5 DEF DrainTask
  <2>3. \A u \in Tokens : \A i \in DOMAIN sent'[u] :
           sent'[u][i] = "cancelled" => Requested(u)
    <3>1. "failed" \in Outcomes /\ "failed" # "cancelled"
      BY DEF Outcomes
    <3>2. CASE sent' = [sent EXCEPT ![t] = Append(sent[t], "failed")]
      <4>1. \A u \in Tokens : \A i \in DOMAIN sent'[u] :
              \/ sent'[u][i] = "failed" /\ u = t
              \/ i \in DOMAIN sent[u] /\ sent'[u][i] = sent[u][i]
        BY <1>0, <3>1, <3>2, SentElements
      <4> QED
        BY <3>1, <4>1, Zenon DEF CancelInv
    <3> QED
      BY <2>2, <3>2, Zenon DEF CancelInv
  <2> QED
    BY <1>0, <2>1, <2>3, SMTT(20) DEF CancelInv, Requested
<1>6. ASSUME NEW t \in Tokens, AsyncHeartbeat(t) PROVE CancelInv'
  <2>1. /\ UNCHANGED <<byRequest, details, core, sent>>
        /\ \/ outcome' = outcome
           \/ outcome' = [outcome EXCEPT ![t] = "failed"]
    BY <1>6 DEF AsyncHeartbeat, Handle, ResultFor, cancelVars
  <2> QED
    BY <1>0, <2>1 DEF CancelInv, Requested
<1>7. ASSUME NEW t \in Tokens,
             \/ CallHeartbeat(t) \/ RunHeartbeatCall(t)
             \/ \E k \in Nat : DrainHeartbeats(t, k)
      PROVE  CancelInv'
  <2>1. UNCHANGED <<byRequest, details, core, sent, outcome>>
    BY <1>7, Zenon DEF CallHeartbeat, RunHeartbeatCall, DrainHeartbeats, taskVars, cancelVars
  <2> QED
    BY <2>1, Zenon DEF CancelInv, Requested
<1>8. ASSUME NEW t \in Tokens, NEW k \in Nat, RecordHeartbeat(t, k)
      PROVE  CancelInv'
  <2>1. /\ UNCHANGED <<details, core, sent, outcome>>
        /\ \/ byRequest' = byRequest
           \/ byRequest' = byRequest \ {t}
    BY <1>8 DEF RecordHeartbeat, CancelRunning, taskVars, cancelVars
  <2> QED
    BY <1>0, <2>1 DEF CancelInv, Requested
<1>9. CASE WorkerStep
  <2>1. UNCHANGED <<byRequest, details, outcome, sent>>
    BY <1>9, WorkerFrame, Zenon DEF taskVars, cancelVars
  <2>2. \A u \in Tokens : core[u] = "cancelled" => core'[u] = "cancelled"
    BY <1>0, <1>9 DEF WorkerStep, PollError, RaiseFromExceptionQueue, PollShutdown,
       Shutdown, WaitAllCompleted, GatherDone
  <2> QED
    BY <2>1, <2>2 DEF CancelInv, Requested
<1> QED
  BY <1>1, <1>2, <1>3, <1>4, <1>5, <1>6, <1>7, <1>8, <1>9, NextCases, Zenon

\* An attempt is completed as cancelled only when the core asked for that,
\* whatever cancellations heartbeat failures cause in between.
THEOREM CancelsOnlyOnRequest == Spec => []CancelledOnlyOnRequest
<1>1. Init => CancelInv
  <2>1. Init => byRequest = {} /\ \A t \in Tokens : outcome[t] = "none" /\ sent[t] = <<>>
    BY DEF Init
  <2> QED
    BY <2>1 DEF CancelInv
<1>2. CancelInv => CancelledOnlyOnRequest
  BY DEF CancelInv, Requested, CancelledOnlyOnRequest
<1> QED
  BY <1>1, <1>2, CancelInvStep, TypeInvariant, PTL DEF Spec

-----------------------------------------------------------------------------
\* Why no heartbeat is recorded twice: each is in one place only, the queue, a
\* task that records it or the core.
RecordInv ==
  \A t \in Tokens : TakenOnce(pending[t], hb[t], taken[t]) /\ EndedFirst(hb[t], taken[t], recorded[t])

\* No step queues or takes a heartbeat that was taken before.
LEMMA RecordInvStep ==
  ASSUME TypeOK, RecordInv, [Next]_vars PROVE RecordInv'
<1> USE DEF hbVars
<1>0. \A t \in Tokens : /\ pending[t] \in Seq(Nat) /\ hb[t] \in Seq(HbTask) /\ taken[t] \in Seq(Nat)
                         /\ recorded[t] \in Seq(Nat) /\ Len(taken[t]) = Len(hb[t])
  BY DEF TypeOK, HeartbeatTypes
<1>1. CASE UNCHANGED <<pending, hb, taken, recorded>>
  BY <1>1, Zenon DEF RecordInv
<1>2. ASSUME NEW t \in Tokens, QueueHeartbeat(t), UNCHANGED recorded PROVE RecordInv'
  <2>1. \A u \in Tokens : u # t => pending'[u] = pending[u] /\ hb'[u] = hb[u] /\ taken'[u] = taken[u]
    BY <1>2 DEF QueueHeartbeat, TypeOK, HeartbeatTypes
  <2>2. /\ pending'[t] = Append(pending[t], Len(hb[t]) + 1)
        /\ hb'[t] = Append(hb[t], "new") /\ taken'[t] = Append(taken[t], 0)
    BY <1>2 DEF QueueHeartbeat, TypeOK, HeartbeatTypes
  <2>3. TakenOnce(pending'[t], hb'[t], taken'[t]) /\ EndedFirst(hb'[t], taken'[t], recorded[t])
    BY <1>0, <2>2, QueueRecordInv, Zenon DEF RecordInv
  <2> QED
    BY <1>2, <2>1, <2>3, Zenon DEF RecordInv
<1>3. ASSUME NEW t \in Tokens, NEW k \in Nat, DrainHeartbeats(t, k) PROVE RecordInv'
  <2>1. /\ k \in DOMAIN hb[t] /\ hb[t][k] = "new" /\ UNCHANGED recorded
        /\ pending' = [pending EXCEPT ![t] = <<>>]
    BY <1>3, Zenon DEF DrainHeartbeats
  <2>2. TakenOnce(pending[t], hb[t], taken[t]) /\ EndedFirst(hb[t], taken[t], recorded[t])
    BY DEF RecordInv
  <2>3. CASE pending[t] = <<>>
    <3>1. hb' = [hb EXCEPT ![t] = [hb[t] EXCEPT ![k] = "ended"]] /\ taken' = taken
      BY <1>3, <2>3, Zenon DEF DrainHeartbeats
    <3>2. /\ hb'[t] = [hb[t] EXCEPT ![k] = "ended"] /\ pending'[t] = <<>>
          /\ \A u \in Tokens : u # t => pending'[u] = pending[u] /\ hb'[u] = hb[u]
      BY <2>1, <3>1 DEF TypeOK, HeartbeatTypes
    <3>3. TakenOnce(<<>>, hb'[t], taken[t]) /\ EndedFirst(hb'[t], taken[t], recorded[t])
      BY <1>0, <2>1, <2>2, <2>3, <3>2, EndRecordInv
    <3> QED
      BY <2>1, <3>1, <3>2, <3>3, Zenon DEF RecordInv
  <2>4. CASE pending[t] # <<>>
    <3>1. /\ hb' = [hb EXCEPT ![t] = [hb[t] EXCEPT ![k] = "encoding"]]
          /\ taken' = [taken EXCEPT ![t] = [taken[t] EXCEPT ![k] = pending[t][Len(pending[t])]]]
      BY <1>3, <2>4, Zenon DEF DrainHeartbeats
    <3>2. /\ hb'[t] = [hb[t] EXCEPT ![k] = "encoding"] /\ pending'[t] = <<>>
          /\ taken'[t] = [taken[t] EXCEPT ![k] = pending[t][Len(pending[t])]]
          /\ \A u \in Tokens : u # t => pending'[u] = pending[u] /\ hb'[u] = hb[u] /\ taken'[u] = taken[u]
      BY <2>1, <3>1 DEF TypeOK, HeartbeatTypes
    <3>3. TakenOnce(<<>>, hb'[t], taken'[t]) /\ EndedFirst(hb'[t], taken'[t], recorded[t])
      <4>1. /\ pending[t] \in Seq(Nat) /\ hb[t] \in Seq(HbTask) /\ taken[t] \in Seq(Nat)
            /\ Len(taken[t]) = Len(hb[t])
        BY <1>0
      <4>2. /\ TakenOnce(<<>>, [hb[t] EXCEPT ![k] = "encoding"],
                         [taken[t] EXCEPT ![k] = pending[t][Len(pending[t])]])
            /\ EndedFirst([hb[t] EXCEPT ![k] = "encoding"],
                          [taken[t] EXCEPT ![k] = pending[t][Len(pending[t])]], recorded[t])
        BY <2>1, <2>2, <2>4, <4>1, DrainRecordInv, Zenon
      <4> QED
        BY <3>2, <4>2, Zenon
    <3> QED
      BY <2>1, <3>2, <3>3, Zenon DEF RecordInv
  <2> QED
    BY <2>3, <2>4
<1>4. ASSUME NEW t \in Tokens, NEW k \in Nat, RecordHeartbeat(t, k) PROVE RecordInv'
  <2>1. /\ k \in DOMAIN hb[t] /\ hb[t][k] = "encoding" /\ UNCHANGED <<pending, taken>>
        /\ hb' = [hb EXCEPT ![t] = [hb[t] EXCEPT ![k] = "ended"]]
        /\ recorded' = recorded \/ recorded' = [recorded EXCEPT ![t] = Append(recorded[t], taken[t][k])]
    BY <1>4, Zenon DEF RecordHeartbeat
  <2>2. \A u \in Tokens : u # t => hb'[u] = hb[u] /\ recorded'[u] = recorded[u]
    BY <2>1 DEF TypeOK, HeartbeatTypes
  <2>3. /\ hb'[t] = [hb[t] EXCEPT ![k] = "ended"]
        /\ recorded'[t] = recorded[t] \/ recorded'[t] = Append(recorded[t], taken[t][k])
    BY <2>1 DEF TypeOK, HeartbeatTypes
  <2>4. TakenOnce(pending[t], hb'[t], taken[t]) /\ EndedFirst(hb'[t], taken[t], recorded'[t])
    <3>1. TakenOnce(pending[t], hb[t], taken[t]) /\ EndedFirst(hb[t], taken[t], recorded[t])
      BY DEF RecordInv
    <3> QED
      <4>1. /\ hb[t] \in Seq(HbTask) /\ taken[t] \in Seq(Nat) /\ recorded[t] \in Seq(Nat)
            /\ Len(taken[t]) = Len(hb[t])
        BY <1>0
      <4>2. /\ TakenOnce(pending[t], [hb[t] EXCEPT ![k] = "ended"], taken[t])
            /\ EndedFirst([hb[t] EXCEPT ![k] = "ended"], taken[t], recorded[t])
            /\ EndedFirst([hb[t] EXCEPT ![k] = "ended"], taken[t], Append(recorded[t], taken[t][k]))
        BY <2>1, <3>1, <4>1, RecordRecordInv, Zenon
      <4> QED
        BY <2>3, <4>2, Zenon
  <2> QED
    BY <2>1, <2>2, <2>4, Zenon DEF RecordInv
<1>5. ASSUME NEW t \in Tokens, AsyncHeartbeat(t) \/ RunHeartbeatCall(t) PROVE RecordInv'
  <2>1. UNCHANGED recorded /\ (QueueHeartbeat(t) \/ UNCHANGED <<pending, hb, taken>>)
    BY <1>5, Zenon DEF AsyncHeartbeat, RunHeartbeatCall, Heartbeat
  <2> QED
    BY <1>1, <1>2, <2>1
<1>6. ASSUME NEW t \in Tokens,
             PollStart(t) \/ PollCancel(t) \/ DrainTask(t) \/ CallHeartbeat(t) \/ TaskAction(t)
      PROVE  UNCHANGED <<pending, hb, taken, recorded>>
  BY <1>6, TaskFrame, Zenon DEF PollStart, PollCancel, DrainTask, CallHeartbeat
<1>7. CASE WorkerStep \/ UNCHANGED vars
  BY <1>1, <1>7, WorkerFrame, Zenon DEF vars
<1> QED
  BY <1>1, <1>3, <1>4, <1>5, <1>6, <1>7, NextCases, Zenon

\* No heartbeat() call is recorded with the core twice, although several tasks may
\* record at once and a task takes whatever is queued when it starts.
THEOREM RecordsOnce == Spec => []RecordedOnce
<1>1. Init => RecordInv
  BY DEF Init, RecordInv, TakenOnce, EndedFirst
<1>2. RecordInv => RecordedOnce
  BY DEF RecordInv, EndedFirst, RecordedOnce
<1> QED
  BY <1>1, <1>2, RecordInvStep, TypeInvariant, PTL DEF Spec
=============================================================================
