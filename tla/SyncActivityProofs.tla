-------------------------- MODULE SyncActivityProofs -------------------------
(***************************************************************************)
(* Proofs about what the worker keeps for a synchronous activity: the      *)
(* raiser of exceptions in its thread, and the manager through which its   *)
(* heartbeats leave another process.  For any number of activities,        *)
(* cancellations, nested shield blocks and heartbeats.                     *)
(***************************************************************************)
EXTENDS ThreadExceptionRaiser, Sequences, TLAPS

\* Where the exception can be: a raiser knows its thread only while its
\* activity is on it, the depth counts at least the blocks the code is in, and
\* a thread is marked only when that count is zero.
RaiserInv ==
  /\ \A a \in Activities :
       /\ pc[a] \in {"starting", "running", "left"} => cur = a
       /\ a \in threadSet => pc[a] = "running"
       /\ blocks[a] <= depth[a]
       /\ pc[a] # "running" => blocks[a] = 0
  /\ exc # NoActivity => /\ cur = exc
                         /\ pc[exc] \in {"running", "left"}
                         /\ blocks[exc] = 0

Inv == TypeOK /\ RaiserInv

\* No activity is on the thread at the start.
LEMMA InvInit == Init => Inv
  BY RaiserAssumption DEF Init, Inv, TypeOK, RaiserInv

\* Every step of the thread and of the event loop keeps Inv.
LEMMA InvStep == Inv /\ [Next]_vars => Inv'
<1> SUFFICES ASSUME Inv, [Next]_vars PROVE Inv'
  OBVIOUS
<1> USE RaiserAssumption DEF Inv, TypeOK, RaiserInv, raiserVars
<1>1. CASE UNCHANGED vars
  BY <1>1 DEF vars
<1>2. ASSUME NEW a \in Activities, Start(a) PROVE Inv'
  BY <1>2 DEF Start
<1>3. ASSUME NEW a \in Activities, SetThreadId(a) PROVE Inv'
  BY <1>3 DEF SetThreadId
<1>4. ASSUME NEW a \in Activities, RaiseInThread(a) PROVE Inv'
  BY <1>4 DEF RaiseInThread, RaiseIfPending
<1>5. ASSUME NEW a \in Activities, RaiseMarked(a) PROVE Inv'
  BY <1>5 DEF RaiseMarked
<1>6. ASSUME NEW a \in Activities, EnterShield(a) PROVE Inv'
  BY <1>6 DEF EnterShield
<1>7. ASSUME NEW a \in Activities, ExitShield(a) PROVE Inv'
  BY <1>7 DEF ExitShield, RaiseIfPending
<1>8. ASSUME NEW a \in Activities, Leave(a) PROVE Inv'
  BY <1>8 DEF Leave
<1>9. ASSUME NEW a \in Activities, Finish(a) PROVE Inv'
  BY <1>9 DEF Finish
<1> QED
  BY <1>1, <1>2, <1>3, <1>4, <1>5, <1>6, <1>7, <1>8, <1>9 DEF Next

\* Inv holds in every reachable state.
LEMMA Invariance == Spec => []Inv
  BY InvInit, InvStep, PTL DEF Spec

\* A cancellation is never raised in an activity it was not meant for, however
\* it races with the end of the one it was meant for.
THEOREM NeverStray == Spec => []RaisedInOwnActivity
<1>1. Inv => RaisedInOwnActivity
  BY DEF Inv, RaiserInv, RaisedInOwnActivity
<1> QED
  BY <1>1, Invariance, PTL

\* No exception is raised in code that a shield block protects.
THEOREM ShieldsProtect == Spec => NotRaisedInShield
<1>1. Inv /\ [Next]_vars =>
        [\A a \in Activities :
           raised'[a] # raised[a] => blocks[a] = 0 /\ blocks'[a] = 0]_vars
  <2> SUFFICES ASSUME Inv, Next, NEW b \in Activities, raised'[b] # raised[b]
               PROVE  blocks[b] = 0 /\ blocks'[b] = 0
    OBVIOUS
  <2> USE DEF Inv, TypeOK, RaiserInv
  <2>1. ASSUME NEW a \in Activities, RaiseMarked(a)
        PROVE  blocks[b] = 0 /\ blocks'[b] = 0
    BY <2>1 DEF RaiseMarked
  <2>2. ASSUME NEW a \in Activities, EnterShield(a)
        PROVE  blocks[b] = 0 /\ blocks'[b] = 0
    BY <2>2 DEF EnterShield
  <2>3. ASSUME NEW a \in Activities,
               \/ Start(a) \/ SetThreadId(a) \/ RaiseInThread(a)
               \/ ExitShield(a) \/ Leave(a) \/ Finish(a)
        PROVE  FALSE
    BY <2>3, Zenon DEF Start, SetThreadId, RaiseInThread, ExitShield, Leave, Finish
  <2> QED
    BY <2>1, <2>2, <2>3 DEF Next
<1> QED
  BY <1>1, Invariance, PTL DEF Spec, NotRaisedInShield

-----------------------------------------------------------------------------
\* The shared state manager, _MultiprocessingSharedStateManager, and its users.
CONSTANTS Tokens, Loops, LoopOf, QueueSize, MaxHeartbeats
VARIABLES act, registered, completions, signalled, queue, sent, submitted, proc, call,
          inflight, handed, died

Shared == INSTANCE SharedHeartbeats

\* No item of activity t is on the queue or in the processor's hands.
Gone(t) ==
  /\ \A i \in 1..Len(queue) : queue[i][1] # t
  /\ call = <<>> \/ call[1] # t

SharedTypes ==
  /\ act \in [Tokens -> {"none", "adding", "running", "putting", "waiting", "ended", "failed"}]
  /\ queue \in Seq(Tokens \X Nat)
  /\ sent \in [Tokens -> Nat]
  /\ submitted \in Nat
  /\ inflight \subseteq Tokens \X Nat
  /\ handed \in [Tokens -> Seq(Nat)]

\* Behind the marker of an activity, which is number 0, comes nothing of that
\* activity; it waits until its marker is taken.
MarkersLast ==
  \A i \in 1..Len(queue) : queue[i][2] = 0 =>
    /\ act[queue[i][1]] = "waiting"
    /\ queue[i][1] \notin signalled
    /\ \A j \in 1..Len(queue) : i < j => queue[j][1] # queue[i][1]

\* Once its marker was taken there is nothing left of an activity.
SignalledGone ==
  \A t \in Tokens :
    /\ t \in signalled => act[t] \in {"waiting", "ended"} /\ Gone(t)
    /\ act[t] = "ended" => t \in signalled

FlushInv ==
  /\ SharedTypes
  /\ proc # "calling" => call = <<>>
  /\ MarkersLast
  /\ SignalledGone

\* The heartbeats of activity t that were handed over, the one the processor
\* holds and those on the queue are in the order they were sent in.
InOrder(t) ==
  /\ \A i, j \in 1..Len(handed[t]) : i < j => handed[t][i] < handed[t][j]
  /\ \A i, j \in 1..Len(queue) :
       i < j /\ queue[i][1] = t /\ queue[j][1] = t /\ queue[j][2] # 0 => queue[i][2] < queue[j][2]
  /\ \A i \in 1..Len(handed[t]) :
       /\ handed[t][i] <= sent[t]
       /\ \A j \in 1..Len(queue) :
            queue[j][1] = t /\ queue[j][2] # 0 => handed[t][i] < queue[j][2]
  /\ \A j \in 1..Len(queue) : queue[j][1] = t => queue[j][2] <= sent[t]
  /\ proc = "calling" /\ call[1] = t =>
       /\ call[2] <= sent[t]
       /\ \A i \in 1..Len(handed[t]) : handed[t][i] < call[2]
       /\ \A j \in 1..Len(queue) :
            queue[j][1] = t /\ queue[j][2] # 0 => call[2] < queue[j][2]

\* A processor that has not failed makes one call at a time.
OrderInv ==
  ~died => /\ \A t \in Tokens : InOrder(t)
           /\ inflight = IF proc = "calling" THEN {call} ELSE {}
           /\ proc = "calling" => call \in Tokens \X Nat

\* A processor runs, or was submitted, for the activities that are registered and
\* past their registration.
RunsInv ==
  /\ registered \subseteq Tokens
  /\ \A t \in Tokens : act[t] = "adding" => t \in registered
  /\ \A s, t \in Tokens : act[s] = "adding" /\ act[t] = "adding" => s = t
  /\ ~died /\ (\E t \in registered : act[t] # "adding") => proc # "none" \/ submitted > 0

-----------------------------------------------------------------------------
\* A put leaves the items of a queue where they are.
LEMMA PutItem ==
  ASSUME NEW S, NEW q \in Seq(S), NEW x \in S
  PROVE  /\ Append(q, x) \in Seq(S)
         /\ Len(Append(q, x)) = Len(q) + 1
         /\ \A i \in 1..Len(q) : Append(q, x)[i] = q[i]
         /\ Append(q, x)[Len(q) + 1] = x
OBVIOUS

\* The head of a queue goes, and the items behind it move up.
LEMMA TakeItem ==
  ASSUME NEW S, NEW q \in Seq(S), q # <<>>
  PROVE  /\ Tail(q) \in Seq(S)
         /\ Len(q) \in Nat \ {0}
         /\ Len(Tail(q)) = Len(q) - 1
         /\ Head(q) = q[1]
         /\ q[1] \in S
         /\ \A i \in 1..Len(Tail(q)) : i + 1 \in 2..Len(q) /\ Tail(q)[i] = q[i + 1]
OBVIOUS

\* No activity is registered and nothing is queued at the start.
LEMMA SharedInit == Shared!Init => FlushInv /\ OrderInv /\ RunsInv
<1> SUFFICES ASSUME Shared!Init PROVE FlushInv /\ OrderInv /\ RunsInv
  OBVIOUS
<1>1. SharedTypes
  BY DEF Shared!Init, SharedTypes
<1>2. Len(queue) = 0 /\ \A t \in Tokens : handed[t] = <<>>
  BY DEF Shared!Init
<1>3. \A t \in Tokens : InOrder(t)
  BY <1>2 DEF Shared!Init, InOrder
<1> QED
  BY <1>1, <1>2, <1>3 DEF Shared!Init, FlushInv, MarkersLast, SignalledGone, OrderInv, RunsInv

\* What happens to the queue, in terms of its items.
Puts(t, n) ==
  /\ Len(queue') = Len(queue) + 1
  /\ \A i \in 1..Len(queue) : queue'[i] = queue[i]
  /\ queue'[Len(queue) + 1] = <<t, n>>

\* A put adds an item at the end.
LEMMA PutStep ==
  ASSUME SharedTypes, NEW t \in Tokens, NEW n \in Nat, queue' = Append(queue, <<t, n>>)
  PROVE  Puts(t, n) /\ queue' \in Seq(Tokens \X Nat)
<1>1. <<t, n>> \in Tokens \X Nat /\ queue \in Seq(Tokens \X Nat)
  BY DEF SharedTypes
<1> QED
  BY <1>1, PutItem DEF Puts

\* Every step keeps the types.
LEMMA TypesStep == ASSUME SharedTypes, [Shared!Next]_(Shared!vars) PROVE SharedTypes'
<1> USE DEF SharedTypes, Shared!actVars, Shared!procVars
<1>1. CASE UNCHANGED Shared!vars
  BY <1>1 DEF Shared!vars
<1>2. ASSUME NEW t \in Tokens, Shared!AddHeartbeater(t) \/ Shared!StartProcessor(t) PROVE SharedTypes'
  <2>1. submitted' \in Nat /\ UNCHANGED <<queue, sent, inflight, handed>>
    BY <1>2 DEF Shared!AddHeartbeater, Shared!StartProcessor
  <2>2. \E p \in {"adding", "running"} : act' = [act EXCEPT ![t] = p]
    BY <1>2 DEF Shared!AddHeartbeater, Shared!StartProcessor
  <2> QED
    BY <2>1, <2>2
<1>3. ASSUME NEW t \in Tokens, Shared!SendHeartbeat(t) PROVE SharedTypes'
  BY <1>3, PutItem DEF Shared!SendHeartbeat, Shared!Item
<1>4. ASSUME NEW t \in Tokens, Shared!Unregister(t) \/ Shared!PutMarker(t) PROVE SharedTypes'
  <2>1. /\ UNCHANGED <<sent, submitted, inflight, handed>>
        /\ queue' = queue \/ queue' = Append(queue, <<t, 0>>)
        /\ \E p \in {"waiting", "putting", "failed"} : act' = [act EXCEPT ![t] = p]
    BY <1>4 DEF Shared!Unregister, Shared!PutMarker, Shared!Item, Shared!Marker
  <2>2. CASE queue' = queue
    BY <2>1, <2>2
  <2>3. CASE queue' = Append(queue, <<t, 0>>)
    <3>1. queue' \in Seq(Tokens \X Nat)
      BY <2>3, PutStep
    <3> QED
      BY <2>1, <3>1
  <2> QED
    BY <2>1, <2>2, <2>3, Zenon
<1>5. ASSUME NEW t \in Tokens, Shared!UnregisterReturns(t) PROVE SharedTypes'
  BY <1>5 DEF Shared!UnregisterReturns
<1>6. ASSUME NEW c \in inflight, Shared!RunCall(c) PROVE SharedTypes'
  <2>1. c[1] \in Tokens /\ c[2] \in Nat
    OBVIOUS
  <2>2. handed' \in [Tokens -> Seq(Nat)]
    <3>1. handed' = handed \/ handed' = [handed EXCEPT ![c[1]] = Append(@, c[2])]
      BY <1>6 DEF Shared!RunCall
    <3>2. Append(handed[c[1]], c[2]) \in Seq(Nat)
      BY <2>1
    <3> QED
      BY <3>1, <3>2, <2>1, Zenon
  <2>3. inflight' \subseteq inflight /\ UNCHANGED <<act, queue, sent, submitted>>
    BY <1>6 DEF Shared!RunCall
  <2> QED
    BY <2>2, <2>3
<1>7. CASE Shared!ProcessorStarts \/ Shared!CheckRegistered \/ Shared!GetTimeout \/ Shared!CallTimeout
  BY <1>7 DEF Shared!ProcessorStarts, Shared!CheckRegistered, Shared!GetTimeout, Shared!CallTimeout
<1>8. CASE Shared!GetItem
  <2>1. Head(queue) = <<Head(queue)[1], Head(queue)[2]>> /\ Head(queue) \in Tokens \X Nat
    BY <1>8, TakeItem DEF Shared!GetItem
  <2>2. queue' \in Seq(Tokens \X Nat) /\ UNCHANGED <<act, sent, submitted, handed>>
    BY <1>8, TakeItem DEF Shared!GetItem
  <2>3. inflight' \subseteq inflight \cup {Head(queue)}
    BY <1>8, <2>1, Zenon DEF Shared!GetItem, Shared!Item
  <2> QED
    BY <2>1, <2>2, <2>3, Zenon
<1> QED
  BY <1>1, <1>2, <1>3, <1>4, <1>5, <1>6, <1>7, <1>8, Zenon
     DEF Shared!Next, Shared!LoopStep, Shared!ProcessorStep

Gets(t, n) ==
  /\ Len(queue) \in Nat \ {0}
  /\ queue[1] = <<t, n>>
  /\ Len(queue') = Len(queue) - 1
  /\ \A i \in 1..Len(queue') : i + 1 \in 2..Len(queue) /\ queue'[i] = queue[i + 1]
  /\ proc = "getting"
  /\ \/ /\ n = 0
        /\ registered' = registered \ {t}
        /\ signalled \subseteq signalled' /\ signalled' \subseteq signalled \cup {t}
        /\ proc' = "checking" /\ UNCHANGED <<call, inflight>>
     \/ /\ n # 0
        /\ UNCHANGED <<registered, signalled>>
        /\ proc' = "calling"
        /\ call' = <<t, n>>
        /\ inflight' = inflight \cup {<<t, n>>}
     \/ /\ n # 0
        /\ UNCHANGED <<registered, signalled>>
        /\ proc' = "checking" /\ UNCHANGED <<call, inflight>>
  /\ UNCHANGED <<act, sent, submitted, handed, died>>

\* A get takes the item at the head: the marker of an activity completes it, a
\* heartbeat is passed on or dropped.
LEMMA GetStep ==
  ASSUME SharedTypes, Shared!GetItem
  PROVE  \E t \in Tokens, n \in Nat : Gets(t, n)
<1>1. queue \in Seq(Tokens \X Nat) /\ queue # <<>> /\ queue' = Tail(queue)
  BY DEF SharedTypes, Shared!GetItem
<1>2. Head(queue) \in Tokens \X Nat /\ Head(queue) = queue[1]
  BY <1>1, TakeItem
<1>3. PICK t \in Tokens, n \in Nat : Head(queue) = <<t, n>>
  BY <1>2
<1>4. Head(queue)[1] = t /\ Head(queue)[2] = n
  BY <1>3
<1>5. /\ Len(queue) \in Nat \ {0} /\ Len(queue') = Len(queue) - 1
      /\ \A i \in 1..Len(queue') : i + 1 \in 2..Len(queue) /\ queue'[i] = queue[i + 1]
  BY <1>1, TakeItem
<1>6. queue[1] = <<t, n>>
  BY <1>2, <1>3
<1> QED
  BY <1>4, <1>5, <1>6 DEF Gets, Shared!GetItem, Shared!Item, Shared!Marker

\* Every step keeps a marker behind the heartbeats of its activity.
LEMMA FlushStep ==
  ASSUME FlushInv, [Shared!Next]_(Shared!vars) PROVE FlushInv'
<1>t. /\ SharedTypes /\ SharedTypes' /\ (proc # "calling" => call = <<>>)
      /\ MarkersLast /\ SignalledGone
  BY TypesStep DEF FlushInv
<1>u. /\ act \in [Tokens -> {"none", "adding", "running", "putting", "waiting", "ended", "failed"}]
      /\ queue \in Seq(Tokens \X Nat)
      /\ Len(queue) \in Nat
      /\ \A i \in 1..Len(queue) : queue[i][1] \in Tokens
  <2> SharedTypes
    BY <1>t
  <2> QED
    BY DEF SharedTypes
<1> USE DEF Shared!actVars, Shared!procVars
\* the queue, and what the processor holds, do not grow, and an activity waits
\* until it is signalled
<1>q. ASSUME UNCHANGED <<queue, signalled>>, call' = call \/ call' = <<>>,
             proc' # "calling" => call' = <<>>,
             \A t \in Tokens :
               /\ act[t] = "waiting" => act'[t] = "waiting" \/ (act'[t] = "ended" /\ t \in signalled)
               /\ act[t] = "ended" <=> (act'[t] = "ended" /\ ~(act[t] = "waiting" /\ t \in signalled))
      PROVE  FlushInv'
  <2>1. MarkersLast'
    BY <1>q, <1>t, <1>u DEF MarkersLast
  <2>2. \A t \in Tokens : Gone(t) => Gone(t)'
    BY <1>q DEF Gone
  <2>3. SignalledGone'
    BY <1>q, <1>t, <2>2 DEF SignalledGone
  <2> QED
    BY <1>q, <1>t, <2>1, <2>3 DEF FlushInv
\* an activity that is not signalled puts a heartbeat, or its marker
<1>p. ASSUME NEW t \in Tokens, NEW n \in Nat, Puts(t, n), UNCHANGED <<signalled, call, proc>>,
             act[t] \in {"running", "putting"},
             \/ n # 0 /\ act' = act
             \/ n = 0 /\ act' = [act EXCEPT ![t] = "waiting"]
      PROVE  FlushInv'
  <2>1. t \notin signalled
    BY <1>p, <1>t DEF SignalledGone
  <2>2. \A i \in 1..Len(queue) : queue[i][2] = 0 => queue[i][1] # t
    BY <1>p, <1>t DEF MarkersLast
  <2>3. /\ \A u \in Tokens \ {t} : act'[u] = act[u]
        /\ n = 0 => act'[t] = "waiting"
        /\ act'[t] # "ended"
    BY <1>p, <1>u
  <2>4. \A i \in 1..Len(queue') : \/ i \in 1..Len(queue) /\ queue'[i] = queue[i]
                                  \/ i = Len(queue) + 1 /\ queue'[i] = <<t, n>>
    BY <1>p, <1>u DEF Puts
  <2>5. MarkersLast'
    <3> SUFFICES ASSUME NEW i \in 1..Len(queue'), queue'[i][2] = 0
                 PROVE  /\ act'[queue'[i][1]] = "waiting"
                        /\ queue'[i][1] \notin signalled
                        /\ \A j \in 1..Len(queue') : i < j => queue'[j][1] # queue'[i][1]
      BY <1>p DEF MarkersLast
    <3>1. CASE i \in 1..Len(queue) /\ queue'[i] = queue[i]
      <4>1. /\ queue[i][1] \in Tokens \ {t} /\ act[queue[i][1]] = "waiting" /\ queue[i][1] \notin signalled
            /\ \A j \in 1..Len(queue) : i < j => queue[j][1] # queue[i][1]
        BY <3>1, <2>2, <1>t, <1>u DEF MarkersLast
      <4> QED
        BY <3>1, <4>1, <2>3, <2>4
    <3>2. CASE i = Len(queue) + 1 /\ queue'[i] = <<t, n>>
      BY <3>2, <2>1, <2>3, <1>p, <1>u DEF Puts
    <3> QED
      BY <3>1, <3>2, <2>4
  <2>6. SignalledGone'
    <3>1. \A u \in Tokens : u # t /\ Gone(u) => Gone(u)'
      BY <1>p, <2>4 DEF Gone
    <3> QED
      BY <3>1, <1>p, <2>1, <2>3, <1>t DEF SignalledGone
  <2> QED
    BY <1>p, <1>t, <2>5, <2>6 DEF FlushInv
<1>1. CASE UNCHANGED Shared!vars
  BY <1>1, <1>q, <1>t DEF Shared!vars
<1>2. ASSUME NEW t \in Tokens, Shared!AddHeartbeater(t) \/ Shared!StartProcessor(t) PROVE FlushInv'
  <2>1. /\ UNCHANGED <<queue, signalled, call, proc>>
        /\ act[t] \in {"none", "adding"}
        /\ act' \in {[act EXCEPT ![t] = "adding"], [act EXCEPT ![t] = "running"]}
    BY <1>2 DEF Shared!AddHeartbeater, Shared!StartProcessor
  <2> QED
    BY <2>1, <1>q, <1>t, <1>u
<1>3. ASSUME NEW t \in Tokens, Shared!SendHeartbeat(t) PROVE FlushInv'
  <2>1. sent[t] + 1 \in Nat \ {0}
    BY <1>t DEF SharedTypes
  <2>2. /\ queue' = Append(queue, <<t, sent[t] + 1>>)
        /\ UNCHANGED <<act, signalled, call, proc>> /\ act[t] = "running"
    BY <1>3 DEF Shared!SendHeartbeat, Shared!Item
  <2> QED
    BY <2>1, <2>2, <1>p, <1>t, PutStep
<1>4. ASSUME NEW t \in Tokens, Shared!Unregister(t) \/ Shared!PutMarker(t) PROVE FlushInv'
  <2>1. UNCHANGED <<signalled, call, proc>> /\ act[t] \in {"running", "putting"}
    BY <1>4 DEF Shared!Unregister, Shared!PutMarker
  <2>2. \/ /\ queue' = queue
           /\ act' \in {[act EXCEPT ![t] = "putting"], [act EXCEPT ![t] = "failed"]}
        \/ /\ queue' = Append(queue, <<t, 0>>)
           /\ act' = [act EXCEPT ![t] = "waiting"]
    BY <1>4 DEF Shared!Unregister, Shared!PutMarker, Shared!Item, Shared!Marker
  <2>3. CASE queue' = queue /\ act' \in {[act EXCEPT ![t] = "putting"], [act EXCEPT ![t] = "failed"]}
    BY <2>1, <2>3, <1>q, <1>t, <1>u
  <2>4. CASE queue' = Append(queue, <<t, 0>>) /\ act' = [act EXCEPT ![t] = "waiting"]
    BY <2>1, <2>4, <1>p, <1>t, PutStep, Zenon
  <2> QED
    BY <2>2, <2>3, <2>4
<1>5. ASSUME NEW t \in Tokens, Shared!UnregisterReturns(t) PROVE FlushInv'
  BY <1>5, <1>q, <1>t, <1>u DEF Shared!UnregisterReturns
<1>6. ASSUME NEW c \in inflight, Shared!RunCall(c) PROVE FlushInv'
  BY <1>6, <1>q, <1>t, <1>u DEF Shared!RunCall
<1>7. CASE Shared!ProcessorStarts \/ Shared!CheckRegistered \/ Shared!GetTimeout \/ Shared!CallTimeout
  BY <1>7, <1>q, <1>t, <1>u DEF Shared!ProcessorStarts, Shared!CheckRegistered,
                                Shared!GetTimeout, Shared!CallTimeout
<1>8. CASE Shared!GetItem
  <2>p. PICK t \in Tokens, n \in Nat : Gets(t, n)
    BY <1>8, <1>t, GetStep
  <2>1. /\ t = queue[1][1] /\ n = queue[1][2]
        /\ Len(queue) \in Nat \ {0} /\ Len(queue') = Len(queue) - 1
        /\ \A i \in 1..Len(queue') : i + 1 \in 2..Len(queue) /\ queue'[i] = queue[i + 1]
        /\ call = <<>> /\ act' = act
    BY <1>t, <2>p DEF Gets
  <2>2. /\ signalled \subseteq signalled'
        /\ \A u \in signalled' \ signalled : u = t /\ n = 0
        /\ call' = <<>> \/ call' = <<t, n>>
        /\ n = 0 => call' = <<>>
    BY <2>p, <2>1 DEF Gets
  <2>m. n = 0 => act[t] = "waiting" /\ \A i \in 2..Len(queue) : queue[i][1] # t
    <3>1. 1 \in 1..Len(queue)
      BY <2>1
    <3>2. queue[1][2] = 0 => /\ act[queue[1][1]] = "waiting"
                             /\ \A j \in 1..Len(queue) : 1 < j => queue[j][1] # queue[1][1]
      BY <3>1, <1>t, Zenon DEF MarkersLast
    <3> QED
      BY <3>2, <2>1
  <2>3. MarkersLast'
    <3> SUFFICES ASSUME NEW i \in 1..Len(queue'), queue'[i][2] = 0
                 PROVE  /\ act[queue'[i][1]] = "waiting"
                        /\ queue'[i][1] \notin signalled'
                        /\ \A j \in 1..Len(queue') : i < j => queue'[j][1] # queue'[i][1]
      BY <2>1, Zenon DEF MarkersLast
    <3>1. i + 1 \in 2..Len(queue) /\ queue'[i] = queue[i + 1]
      BY <2>1
    <3>2. /\ act[queue[i + 1][1]] = "waiting"
          /\ queue[i + 1][1] \notin signalled
          /\ \A j \in 1..Len(queue) : i + 1 < j => queue[j][1] # queue[i + 1][1]
      BY <3>1, <1>t DEF MarkersLast
    <3>3. queue[i + 1][1] \notin signalled'
      BY <3>1, <3>2, <2>2, <2>m
    <3> QED
      BY <3>1, <3>2, <3>3, <2>1
  <2>5. SignalledGone'
    <3>g. ASSUME NEW u \in Tokens, \A i \in 2..Len(queue) : queue[i][1] # u,
                 call' = <<>> \/ u # t
          PROVE  Gone(u)'
      <4>1. \A i \in 1..Len(queue') : queue'[i][1] # u
        BY <3>g, <2>1
      <4>2. call' = <<>> \/ call'[1] # u
        BY <3>g, <2>2
      <4> QED
        BY <4>1, <4>2 DEF Gone
    <3>1. \A u \in Tokens : u \in signalled => u # t /\ Gone(u)'
      <4> SUFFICES ASSUME NEW u \in Tokens, u \in signalled PROVE u # t /\ Gone(u)'
        OBVIOUS
      <4>1. \A i \in 1..Len(queue) : queue[i][1] # u
        BY <1>t DEF SignalledGone, Gone
      <4>2. u # t /\ \A i \in 2..Len(queue) : queue[i][1] # u
        BY <4>1, <2>1
      <4> QED
        BY <4>2, <3>g
    <3>2. n = 0 => Gone(t)'
      BY <2>1, <2>2, <2>m, <3>g
    <3> QED
      BY <3>1, <3>2, <2>1, <2>2, <2>m, <1>t DEF SignalledGone
  <2>4. proc' # "calling" => call' = <<>>
    BY <1>8, <2>1 DEF Shared!GetItem
  <2> QED
    BY <1>t, <2>3, <2>4, <2>5 DEF FlushInv
<1> QED
  BY <1>1, <1>2, <1>3, <1>4, <1>5, <1>6, <1>7, <1>8, Zenon
     DEF Shared!Next, Shared!LoopStep, Shared!ProcessorStep

-----------------------------------------------------------------------------
\* A processor that stopped on an exception stays known to have done so.
LEMMA DiedStays == [Shared!Next]_(Shared!vars) /\ died => died'
  BY Zenon DEF Shared!Next, Shared!vars, Shared!actVars, Shared!procVars, Shared!LoopStep,
         Shared!ProcessorStep, Shared!AddHeartbeater, Shared!StartProcessor,
         Shared!SendHeartbeat, Shared!Unregister, Shared!PutMarker,
         Shared!UnregisterReturns, Shared!RunCall, Shared!ProcessorStarts,
         Shared!CheckRegistered, Shared!GetItem, Shared!GetTimeout, Shared!CallTimeout

\* What OrderInv and the types say while no call has failed.
OrderFacts ==
  /\ SharedTypes
  /\ \A t \in Tokens : InOrder(t)
  /\ inflight = IF proc = "calling" THEN {call} ELSE {}
  /\ proc = "calling" => call \in Tokens \X Nat
  /\ Len(queue) \in Nat
  /\ \A i \in 1..Len(queue) : queue[i][1] \in Tokens /\ queue[i][2] \in Nat
  /\ \A t \in Tokens :
       Len(handed[t]) \in Nat /\ \A i \in 1..Len(handed[t]) : handed[t][i] \in Nat

\* Of two positions, the lower one is not the last.
LEMMA Below == ASSUME NEW k \in Nat, NEW i \in 1..(k + 1), NEW j \in 1..(k + 1), i < j
               PROVE  i \in 1..k
OBVIOUS

\* A put keeps the order: the item is newer than all the others of its activity,
\* or a marker.
LEMMA PutInOrder ==
  ASSUME OrderFacts, NEW t \in Tokens, NEW n \in Nat, Puts(t, n),
         UNCHANGED <<handed, call, inflight, proc>>,
         n # 0 => n = sent[t] + 1,
         sent' = IF n = 0 THEN sent ELSE [sent EXCEPT ![t] = @ + 1]
  PROVE  OrderInv'
<1>t. /\ SharedTypes
      /\ \A v \in Tokens : InOrder(v)
      /\ inflight = IF proc = "calling" THEN {call} ELSE {}
      /\ proc = "calling" => call \in Tokens \X Nat
  BY DEF OrderFacts
<1>u. /\ sent \in [Tokens -> Nat]
      /\ handed \in [Tokens -> Seq(Nat)]
      /\ Len(queue) \in Nat
      /\ \A i \in 1..Len(queue) : queue[i][1] \in Tokens /\ queue[i][2] \in Nat
      /\ \A v \in Tokens :
           Len(handed[v]) \in Nat /\ \A i \in 1..Len(handed[v]) : handed[v][i] \in Nat
  BY Zenon DEF OrderFacts, SharedTypes
<1>1. \A i \in 1..Len(queue') : \/ i \in 1..Len(queue) /\ queue'[i] = queue[i]
                                \/ i = Len(queue) + 1 /\ queue'[i] = <<t, n>>
  BY <1>u, SMTT(20) DEF Puts
<1>2. /\ \A u \in Tokens : sent'[u] \in Nat /\ sent[u] \in Nat /\ sent[u] <= sent'[u]
      /\ n <= sent'[t]
      /\ n # 0 => sent[t] < n
  BY <1>u
<1>3. ASSUME NEW u \in Tokens PROVE InOrder(u)'
  <2>0. InOrder(u)
    BY <1>t
  <2>1. \A i, j \in 1..Len(handed'[u]) : i < j => handed'[u][i] < handed'[u][j]
    BY <2>0 DEF InOrder
  <2>2. ASSUME NEW j \in 1..Len(queue'), queue'[j][1] = u
        PROVE  queue'[j][2] <= sent'[u]
    <3>1. CASE j \in 1..Len(queue) /\ queue'[j] = queue[j]
      <4>1. queue[j][2] <= sent[u] /\ queue[j][2] \in Nat
        BY <3>1, <2>2, <2>0, <1>u DEF InOrder
      <4> QED
        BY <4>1, <3>1, <1>2
    <3>2. CASE queue'[j] = <<t, n>>
      BY <3>2, <2>2, <1>2
    <3> QED
      BY <3>1, <3>2, <1>1
  \* whatever is at most what was sent is less than a new heartbeat
  <2>3. ASSUME NEW j \in 1..Len(queue'), queue'[j][1] = u, queue'[j][2] # 0,
               j \notin 1..Len(queue)
        PROVE  queue'[j][2] = n /\ n # 0 /\ u = t /\ sent[u] < queue'[j][2]
    BY <2>3, <1>1, <1>2
  <2>4. ASSUME NEW i \in 1..Len(queue'), NEW j \in 1..Len(queue'),
               i < j, queue'[i][1] = u, queue'[j][1] = u, queue'[j][2] # 0
        PROVE  queue'[i][2] < queue'[j][2]
    <3>1. i \in 1..Len(queue) /\ queue'[i] = queue[i]
      <4>1. Len(queue') = Len(queue) + 1 /\ \A k \in 1..Len(queue) : queue'[k] = queue[k]
        BY DEF Puts
      <4> QED
        BY <2>4, <4>1, <1>u, Below, Zenon
    <3>2. CASE j \in 1..Len(queue) /\ queue'[j] = queue[j]
      BY <3>1, <3>2, <2>0, <2>4, Zenon DEF InOrder
    <3>3. CASE j \notin 1..Len(queue)
      <4>1. queue[i][2] <= sent[u] /\ queue[i][2] \in Nat
        BY <3>1, <2>4, <2>0, <1>u, Zenon DEF InOrder
      <4> QED
        BY <4>1, <3>1, <3>3, <2>3, <2>4, <1>2
    <3> QED
      BY <3>2, <3>3, <1>1
  <2>5. ASSUME NEW i \in 1..Len(handed[u]) PROVE handed[u][i] <= sent'[u]
    <3>1. handed[u][i] <= sent[u] /\ handed[u][i] \in Nat
      BY <2>0, <1>u, Zenon DEF InOrder
    <3> QED
      BY <3>1, <1>2
  <2>6. ASSUME NEW i \in 1..Len(handed[u]), NEW j \in 1..Len(queue'),
               queue'[j][1] = u, queue'[j][2] # 0
        PROVE  handed[u][i] < queue'[j][2]
    <3>1. handed[u][i] <= sent[u] /\ handed[u][i] \in Nat
      BY <2>0, <1>u, Zenon DEF InOrder
    <3>2. CASE j \in 1..Len(queue) /\ queue'[j] = queue[j]
      BY <3>2, <2>0, <2>6 DEF InOrder
    <3>3. CASE j \notin 1..Len(queue)
      BY <3>1, <3>3, <2>3, <2>6, <1>2
    <3> QED
      BY <3>2, <3>3, <1>1
  <2>7. ASSUME proc = "calling", call[1] = u
        PROVE  /\ call[2] <= sent'[u]
               /\ \A i \in 1..Len(handed[u]) : handed[u][i] < call[2]
               /\ \A j \in 1..Len(queue') :
                    queue'[j][1] = u /\ queue'[j][2] # 0 => call[2] < queue'[j][2]
    <3>1. /\ call[2] <= sent[u] /\ call[2] \in Nat
          /\ \A i \in 1..Len(handed[u]) : handed[u][i] < call[2]
      BY <2>0, <2>7, <1>t, Zenon DEF InOrder
    <3>2. ASSUME NEW j \in 1..Len(queue'), queue'[j][1] = u, queue'[j][2] # 0
          PROVE  call[2] < queue'[j][2]
      <4>1. CASE j \in 1..Len(queue) /\ queue'[j] = queue[j]
        BY <4>1, <2>0, <2>7, <3>2 DEF InOrder
      <4>2. CASE j \notin 1..Len(queue)
        BY <3>1, <4>2, <2>3, <3>2, <1>2
      <4> QED
        BY <4>1, <4>2, <1>1
    <3> QED
      BY <3>1, <3>2, <1>2
  <2> QED
    BY <2>1, <2>2, <2>4, <2>5, <2>6, <2>7 DEF InOrder
<1> QED
  BY <1>t, <1>3 DEF OrderInv

\* A call that succeeds hands over a heartbeat that is newer than those before it.
LEMMA HandInOrder ==
  ASSUME OrderFacts, NEW c \in inflight, Shared!RunCall(c), ~died' PROVE OrderInv'
<1>t. /\ SharedTypes
      /\ \A t \in Tokens : InOrder(t)
      /\ inflight = IF proc = "calling" THEN {call} ELSE {}
      /\ proc = "calling" => call \in Tokens \X Nat
  BY DEF OrderFacts
<1>u. /\ sent \in [Tokens -> Nat]
      /\ handed \in [Tokens -> Seq(Nat)]
      /\ Len(queue) \in Nat
      /\ \A i \in 1..Len(queue) : queue[i][1] \in Tokens /\ queue[i][2] \in Nat
      /\ \A t \in Tokens :
           Len(handed[t]) \in Nat /\ \A i \in 1..Len(handed[t]) : handed[t][i] \in Nat
  BY Zenon DEF OrderFacts, SharedTypes
<1>1. proc = "calling" /\ c = call /\ inflight = {call} /\ call \in Tokens \X Nat
  BY <1>t
<1>2. /\ handed' = [handed EXCEPT ![call[1]] = Append(@, call[2])]
      /\ proc' = "checking" /\ inflight' = {} /\ UNCHANGED <<queue, sent>>
  BY <1>1, Zenon DEF Shared!RunCall, Shared!actVars, Shared!procVars
<1>3. PICK t \in Tokens, n \in Nat : call = <<t, n>>
  BY <1>1
<1>4. /\ Len(handed[t]) \in Nat
      /\ Len(handed'[t]) = Len(handed[t]) + 1
      /\ \A i \in 1..Len(handed[t]) : handed'[t][i] = handed[t][i]
      /\ handed'[t][Len(handed[t]) + 1] = n
      /\ \A u \in Tokens \ {t} : handed'[u] = handed[u]
  <2>1. handed'[t] = Append(handed[t], n)
    BY <1>2, <1>3, <1>u
  <2>2. handed[t] \in Seq(Nat)
    BY <1>u
  <2>3. \A u \in Tokens \ {t} : handed'[u] = handed[u]
    BY <1>2, <1>3, <1>u, Zenon
  <2> QED
    BY <2>1, <2>2, <2>3, PutItem
<1>5. ASSUME NEW u \in Tokens \ {t} PROVE InOrder(u)'
  <2>1. InOrder(u) /\ handed'[u] = handed[u]
    BY <1>t, <1>4
  <2> QED
    BY <2>1, <1>2 DEF InOrder
<1>6. InOrder(t)'
  <2>0. InOrder(t)
    BY <1>t
  <2>1. /\ n <= sent[t]
        /\ \A i \in 1..Len(handed[t]) : handed[t][i] < n
        /\ \A j \in 1..Len(queue) : queue[j][1] = t /\ queue[j][2] # 0 => n < queue[j][2]
    BY <2>0, <1>1, <1>3, Zenon DEF InOrder
  <2>2. \A i \in 1..Len(handed'[t]) : \/ i \in 1..Len(handed[t]) /\ handed'[t][i] = handed[t][i]
                                      \/ i = Len(handed[t]) + 1 /\ handed'[t][i] = n
    BY <1>4, SMTT(20)
  <2>3. ASSUME NEW i \in 1..Len(handed'[t]), NEW j \in 1..Len(handed'[t]), i < j
        PROVE  handed'[t][i] < handed'[t][j]
    <3>1. i \in 1..Len(handed[t])
      BY <2>3, <1>4, Below, Zenon
    <3>2. handed'[t][i] = handed[t][i]
      BY <3>1, <1>4, Zenon
    <3> QED
      BY <3>1, <3>2, <2>0, <2>1, <2>2, <2>3, SMTT(20) DEF InOrder
  <2>4. ASSUME NEW i \in 1..Len(handed'[t])
        PROVE  /\ handed'[t][i] <= sent[t]
               /\ \A j \in 1..Len(queue) :
                    queue[j][1] = t /\ queue[j][2] # 0 => handed'[t][i] < queue[j][2]
    BY <2>0, <2>1, <2>2 DEF InOrder
  <2>5. /\ \A i, j \in 1..Len(queue) :
             i < j /\ queue[i][1] = t /\ queue[j][1] = t /\ queue[j][2] # 0 =>
               queue[i][2] < queue[j][2]
        /\ \A j \in 1..Len(queue) : queue[j][1] = t => queue[j][2] <= sent[t]
    BY <2>0, Zenon DEF InOrder
  <2> QED
    BY <2>3, <2>4, <2>5, <1>2, Zenon DEF InOrder
<1> QED
  BY <1>2, <1>5, <1>6 DEF OrderInv

\* The processor takes the oldest heartbeat that is queued.
LEMMA TakeInOrder == ASSUME OrderFacts, Shared!GetItem PROVE OrderInv'
<1>t. /\ SharedTypes
      /\ \A t \in Tokens : InOrder(t)
      /\ inflight = IF proc = "calling" THEN {call} ELSE {}
      /\ proc = "calling" => call \in Tokens \X Nat
  BY DEF OrderFacts
<1>u. /\ sent \in [Tokens -> Nat]
      /\ handed \in [Tokens -> Seq(Nat)]
      /\ Len(queue) \in Nat
      /\ \A i \in 1..Len(queue) : queue[i][1] \in Tokens /\ queue[i][2] \in Nat
      /\ \A t \in Tokens :
           Len(handed[t]) \in Nat /\ \A i \in 1..Len(handed[t]) : handed[t][i] \in Nat
  BY Zenon DEF OrderFacts, SharedTypes
<1>1. PICK t \in Tokens, n \in Nat : Gets(t, n)
  BY <1>t, GetStep, Zenon
<1>2. /\ Len(queue) \in Nat \ {0} /\ 1 \in 1..Len(queue) /\ queue[1] = <<t, n>>
      /\ Len(queue') = Len(queue) - 1
      /\ \A i \in 1..Len(queue') : i + 1 \in 2..Len(queue) /\ queue'[i] = queue[i + 1]
      /\ UNCHANGED <<sent, handed>>
  BY <1>1 DEF Gets
<1>3. \/ proc' = "checking" /\ inflight' = {}
      \/ proc' = "calling" /\ call' = <<t, n>> /\ inflight' = {<<t, n>>} /\ n # 0
  BY <1>1, <1>t, Zenon DEF Gets
<1>4. ASSUME NEW u \in Tokens PROVE InOrder(u)'
  <2>0. InOrder(u)
    BY <1>t, Zenon
  <2>1. ASSUME NEW i \in 1..Len(queue'), NEW j \in 1..Len(queue'),
               i < j, queue'[i][1] = u, queue'[j][1] = u, queue'[j][2] # 0
        PROVE  queue'[i][2] < queue'[j][2]
    <3>1. /\ i + 1 \in 1..Len(queue) /\ j + 1 \in 1..Len(queue) /\ i + 1 < j + 1
          /\ queue'[i] = queue[i + 1] /\ queue'[j] = queue[j + 1]
      BY <2>1, <1>2
    <3> QED
      BY <3>1, <2>0, <2>1, Zenon DEF InOrder
  <2>2. ASSUME NEW j \in 1..Len(queue'), queue'[j][1] = u
        PROVE  /\ queue'[j][2] <= sent[u]
               /\ queue'[j][2] # 0 =>
                    \A i \in 1..Len(handed[u]) : handed[u][i] < queue'[j][2]
    <3>1. j + 1 \in 1..Len(queue) /\ queue'[j] = queue[j + 1]
      BY <2>2, <1>2
    <3> QED
      BY <3>1, <2>0, <2>2 DEF InOrder
  <2>3. ASSUME proc' = "calling", call'[1] = u
        PROVE  /\ call'[2] <= sent[u]
               /\ \A i \in 1..Len(handed[u]) : handed[u][i] < call'[2]
               /\ \A j \in 1..Len(queue') :
                    queue'[j][1] = u /\ queue'[j][2] # 0 => call'[2] < queue'[j][2]
    <3>1. u = t /\ call'[2] = n /\ n # 0 /\ queue[1][1] = u /\ queue[1][2] = n
      BY <2>3, <1>2, <1>3
    <3>2. n <= sent[u] /\ \A i \in 1..Len(handed[u]) : handed[u][i] < n
      BY <3>1, <1>2, <2>0, Zenon DEF InOrder
    <3>3. ASSUME NEW j \in 1..Len(queue'), queue'[j][1] = u, queue'[j][2] # 0
          PROVE  n < queue'[j][2]
      <4>1. j + 1 \in 1..Len(queue) /\ 1 < j + 1 /\ queue'[j] = queue[j + 1]
        BY <1>2
      <4> QED
        BY <4>1, <3>1, <3>3, <1>2, <2>0 DEF InOrder
    <3> QED
      BY <3>1, <3>2, <3>3
  <2> QED
    BY <2>0, <2>1, <2>2, <2>3, <1>2 DEF InOrder
<1> QED
  BY <1>3, <1>4 DEF OrderInv

\* Every step keeps the heartbeats of an activity in order, from the queue
\* through the processor to the loop.
LEMMA OrderStep ==
  ASSUME FlushInv, OrderInv, [Shared!Next]_(Shared!vars) PROVE OrderInv'
<1> SUFFICES ASSUME ~died' PROVE OrderInv'
  BY DEF OrderInv
<1> USE DEF Shared!actVars, Shared!procVars
<1>d. ~died
  BY DiedStays
<1>f. OrderFacts
  <2>1. SharedTypes /\ OrderInv
    BY DEF FlushInv
  <2>2. /\ queue \in Seq(Tokens \X Nat)
        /\ \A t \in Tokens : handed[t] \in Seq(Nat)
    BY <2>1 DEF SharedTypes
  <2> QED
    BY <1>d, <2>1, <2>2 DEF OrderFacts, OrderInv
<1>t. /\ SharedTypes
      /\ \A t \in Tokens : InOrder(t)
      /\ inflight = IF proc = "calling" THEN {call} ELSE {}
      /\ proc = "calling" => call \in Tokens \X Nat
  BY <1>f DEF OrderFacts
<1>u. /\ sent \in [Tokens -> Nat]
      /\ handed \in [Tokens -> Seq(Nat)]
      /\ Len(queue) \in Nat
      /\ \A i \in 1..Len(queue) : queue[i][1] \in Tokens /\ queue[i][2] \in Nat
      /\ \A t \in Tokens :
           Len(handed[t]) \in Nat /\ \A i \in 1..Len(handed[t]) : handed[t][i] \in Nat
  BY <1>f DEF OrderFacts, SharedTypes
<1>q. ASSUME UNCHANGED <<queue, sent, handed, call, inflight>>,
             proc' = "calling" <=> proc = "calling"
      PROVE  OrderInv'
  <2>1. \A t \in Tokens : InOrder(t)'
    BY <1>q, <1>t, Zenon DEF InOrder
  <2> QED
    BY <1>q, <1>t, <2>1, Zenon DEF OrderInv
<1>1. CASE UNCHANGED Shared!vars
  BY <1>1, <1>q DEF Shared!vars
<1>2. ASSUME NEW t \in Tokens, \/ Shared!AddHeartbeater(t) \/ Shared!StartProcessor(t)
                               \/ Shared!UnregisterReturns(t)
      PROVE  OrderInv'
  BY <1>2, <1>q DEF Shared!AddHeartbeater, Shared!StartProcessor, Shared!UnregisterReturns
<1>3. ASSUME NEW t \in Tokens, Shared!SendHeartbeat(t) PROVE OrderInv'
  <2>1. sent[t] + 1 \in Nat \ {0}
    BY <1>u
  <2>2. /\ queue' = Append(queue, <<t, sent[t] + 1>>)
        /\ sent' = [sent EXCEPT ![t] = @ + 1]
        /\ UNCHANGED <<handed, call, inflight, proc>>
    BY <1>3 DEF Shared!SendHeartbeat, Shared!Item
  <2>3. Puts(t, sent[t] + 1)
    BY <2>1, <2>2, <1>t, PutStep, Zenon
  <2> QED
    BY <2>1, <2>2, <2>3, <1>f, PutInOrder, Zenon
<1>4. ASSUME NEW t \in Tokens, Shared!Unregister(t) \/ Shared!PutMarker(t) PROVE OrderInv'
  <2>1. /\ queue' = queue \/ queue' = Append(queue, <<t, 0>>)
        /\ UNCHANGED <<sent, handed, call, inflight, proc>>
    BY <1>4 DEF Shared!Unregister, Shared!PutMarker, Shared!Item, Shared!Marker
  <2> QED
    BY <2>1, <1>f, <1>q, <1>t, PutStep, PutInOrder
<1>5. ASSUME NEW c \in inflight, Shared!RunCall(c) PROVE OrderInv'
  BY <1>5, <1>f, HandInOrder
<1>6. CASE Shared!ProcessorStarts \/ Shared!CheckRegistered \/ Shared!GetTimeout
  BY <1>6, <1>q DEF Shared!ProcessorStarts, Shared!CheckRegistered, Shared!GetTimeout
<1>7. CASE Shared!CallTimeout
  BY <1>7 DEF Shared!CallTimeout
<1>8. CASE Shared!GetItem
  BY <1>8, <1>f, TakeInOrder
<1> QED
  BY <1>1, <1>2, <1>3, <1>4, <1>5, <1>6, <1>7, <1>8, Zenon
     DEF Shared!Next, Shared!LoopStep, Shared!ProcessorStep

\* unregister_heartbeater flushes: once it has returned, no heartbeat of the
\* activity is on the queue or in the processor's hands; and until a call fails
\* the heartbeats reach the activity's loop in the order they were sent in.
THEOREM Flushes == Shared!Spec => []Shared!FlushedOnUnregister
<1>1. FlushInv /\ OrderInv => Shared!FlushedOnUnregister
  <2> SUFFICES ASSUME FlushInv, OrderInv, NEW t \in Tokens
               PROVE  /\ act[t] = "ended" => /\ \A i \in DOMAIN queue : queue[i][1] # t
                                             /\ call = <<>> \/ call[1] # t
                      /\ ~died => \A i, j \in DOMAIN handed[t] : i < j => handed[t][i] < handed[t][j]
    BY DEF Shared!FlushedOnUnregister
  <2>1. DOMAIN queue = 1..Len(queue) /\ DOMAIN handed[t] = 1..Len(handed[t])
    BY DEF FlushInv, SharedTypes
  <2>2. act[t] = "ended" => Gone(t)
    BY DEF FlushInv, SignalledGone
  <2>3. ~died => InOrder(t)
    BY DEF OrderInv
  <2> QED
    BY <2>1, <2>2, <2>3 DEF Gone, InOrder
<1>2. FlushInv /\ OrderInv /\ [Shared!Next]_(Shared!vars) => (FlushInv /\ OrderInv)'
  BY FlushStep, OrderStep
<1>3. Shared!Init => FlushInv /\ OrderInv
  BY SharedInit
<1> QED
  BY <1>1, <1>2, <1>3, PTL DEF Shared!Spec

-----------------------------------------------------------------------------
\* The workers that share the manager run on one event loop.
OneLoop == \A s, t \in Tokens : LoopOf[s] = LoopOf[t]

\* Every step keeps a processor for the registered activities: on one loop, an
\* activity is added and its processor submitted before another is added.
LEMMA RunsStep ==
  ASSUME OneLoop, FlushInv, RunsInv, [Shared!Next]_(Shared!vars) PROVE RunsInv'
<1>t. /\ SharedTypes
      /\ act \in [Tokens -> {"none", "adding", "running", "putting", "waiting", "ended", "failed"}]
      /\ submitted \in Nat
  BY DEF FlushInv, SharedTypes
<1> USE DEF Shared!actVars, Shared!procVars
<1>1. CASE UNCHANGED Shared!vars
  BY <1>1 DEF Shared!vars, RunsInv
<1>2. ASSUME NEW t \in Tokens, Shared!AddHeartbeater(t) PROVE RunsInv'
  BY <1>2, <1>t DEF OneLoop, Shared!AddHeartbeater, Shared!LoopFree, RunsInv
<1>3. ASSUME NEW t \in Tokens, Shared!StartProcessor(t) PROVE RunsInv'
  \* any other activity that is registered was there before: the loop was busy
  <2>1. /\ act[t] = "adding" /\ act' = [act EXCEPT ![t] = "running"]
        /\ UNCHANGED <<registered, proc, died>>
        /\ submitted' = IF registered = {t} THEN submitted + 1 ELSE submitted
    BY <1>3 DEF Shared!StartProcessor
  <2>2. registered # {t} => \E u \in registered : act[u] # "adding"
    BY <2>1 DEF RunsInv
  <2> QED
    BY <2>1, <2>2, <1>t DEF RunsInv
<1>4. ASSUME NEW t \in Tokens, Shared!SendHeartbeat(t) PROVE RunsInv'
  BY <1>4 DEF Shared!SendHeartbeat, RunsInv
<1>5. ASSUME NEW t \in Tokens, Shared!Unregister(t) \/ Shared!PutMarker(t) \/ Shared!UnregisterReturns(t)
      PROVE  RunsInv'
  <2>1. /\ \E p \in {"waiting", "putting", "failed", "ended"} : act' = [act EXCEPT ![t] = p]
        /\ act[t] # "adding"
        /\ UNCHANGED <<registered, proc, submitted, died>>
    BY <1>5 DEF Shared!Unregister, Shared!PutMarker, Shared!UnregisterReturns
  <2> QED
    BY <2>1, <1>t DEF RunsInv
<1>6. ASSUME NEW c \in inflight, Shared!RunCall(c) PROVE RunsInv'
  <2>1. \/ died' = died /\ proc' = IF call = c THEN "checking" ELSE proc
        \/ (died' <=> (died \/ call = c)) /\ proc' = IF call = c THEN "none" ELSE proc
    BY <1>6, Zenon DEF Shared!RunCall
  <2>2. ~died' => ~died /\ (proc # "none" => proc' # "none")
    BY <2>1
  <2>3. UNCHANGED <<act, registered, submitted>>
    BY <1>6 DEF Shared!RunCall
  <2> QED
    BY <2>2, <2>3 DEF RunsInv
<1>7. CASE Shared!ProcessorStarts \/ Shared!CheckRegistered \/ Shared!GetTimeout \/ Shared!CallTimeout
  BY <1>7, <1>t DEF Shared!ProcessorStarts, Shared!CheckRegistered, Shared!GetTimeout,
                    Shared!CallTimeout, RunsInv
<1>8. CASE Shared!GetItem
  <2>1. PICK t \in Tokens, n \in Nat : Gets(t, n)
    BY <1>8, <1>t, GetStep, Zenon
  <2>2. 1 \in 1..Len(queue) /\ queue[1][1] = t /\ queue[1][2] = n
    BY <2>1 DEF Gets
  \* an activity whose marker is taken is not being added
  <2>3. n = 0 => act[t] # "adding"
    BY <2>2 DEF FlushInv, MarkersLast
  <2>4. /\ registered' = registered \/ (n = 0 /\ registered' = registered \ {t})
        /\ proc' # "none"
        /\ act' = act
    BY <2>1 DEF Gets
  <2> QED
    BY <2>3, <2>4 DEF RunsInv
<1> QED
  BY <1>1, <1>2, <1>3, <1>4, <1>5, <1>6, <1>7, <1>8, Zenon
     DEF Shared!Next, Shared!LoopStep, Shared!ProcessorStep

\* register_heartbeater loses no start: while an activity is registered and no
\* call has failed, a processor is running or about to, provided that the workers
\* that share the manager run on one event loop.
THEOREM ProcessorKeepsRunning == OneLoop => (Shared!Spec => []Shared!ProcessorRuns)
<1> SUFFICES ASSUME OneLoop PROVE Shared!Spec => []Shared!ProcessorRuns
  OBVIOUS
<1>1. RunsInv => Shared!ProcessorRuns
  BY DEF RunsInv, Shared!ProcessorRuns
<1>2. FlushInv /\ RunsInv /\ [Shared!Next]_(Shared!vars) => (FlushInv /\ RunsInv)'
  BY FlushStep, RunsStep
<1>3. Shared!Init => FlushInv /\ RunsInv
  BY SharedInit
<1> QED
  BY <1>1, <1>2, <1>3, PTL DEF Shared!Spec

=============================================================================
