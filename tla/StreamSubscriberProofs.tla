----------------------- MODULE StreamSubscriberProofs -----------------------
(***************************************************************************)
(* What a subscription yields (YieldsLog), and when it ends                *)
(* (EndsOnlyWithStream), for any number of subscriptions, topics, items    *)
(* and runs.                                                               *)
(***************************************************************************)
EXTENDS StreamSubscriber, TLAPS

Labels == {"polling", "starting", "waiting", "yielding", "cooling", "follow", "missing",
           "terminal", "ended", "raised", "cancelled"}

Items == Topics \X Nat
Outcomes == [kind : {"none", "items", "truncated", "draining", "completed"},
             items : SUBSET (Nat \X Items), next : Nat, more : BOOLEAN]

\* The log is what is left of all that was appended.
LogInv ==
  /\ base_offset \in Nat
  /\ log \in Seq(Items)
  /\ appended \in Seq(Items)
  /\ Len(appended) = base_offset + Len(log)
  /\ \A i \in 1..Len(log) : log[i] = appended[base_offset + i]

ReadTypes ==
  /\ pc \in [Subs -> Labels]
  /\ from \in [Subs -> Nat]
  /\ offset \in [Subs -> Nat]
  /\ outcome \in [Subs -> Outcomes]
  /\ yielded \in [Subs -> Seq(Nat \X Items)]

\* Where a poll of the subscription starts to read.
Start(s) == IF offset[s] = 0 THEN base_offset ELSE offset[s]

\* The offset o needs no reading any more.
Settled(s, o) == o \in Offsets(s) \/ ~Matches(s, appended[o + 1]) \/ o < base_offset

\* What was yielded was appended where it says, and the offsets ascend.
Ordered(s) ==
  \A i \in DOMAIN yielded[s] :
    /\ yielded[s][i][1] < Len(appended)
    /\ yielded[s][i][2] = appended[yielded[s][i][1] + 1]
    /\ Matches(s, yielded[s][i][2])
    /\ \A j \in DOMAIN yielded[s] : i < j => yielded[s][i][1] < yielded[s][j][1]

\* The next poll starts above all that was yielded, unless a page is half yielded.
Behind(s) ==
  outcome[s].kind # "items" \/ pc[s] \in {"starting", "waiting"} =>
    \A i \in DOMAIN yielded[s] : yielded[s][i][1] < Start(s)

\* Nothing below the offset is left to read.
Covered(s) ==
  /\ \A o \in from[s] .. Len(appended) - 1 : o < offset[s] => Settled(s, o)
  /\ offset[s] <= from[s] \/ offset[s] <= Len(appended)

\* What is left of a page is above all that was yielded, and nothing below the
\* offset it names is left to read but its own items.
Paged(s) ==
  outcome[s].kind = "items" =>
    /\ pc[s] \in {"starting", "waiting", "yielding", "cancelled"}
    /\ outcome[s].next <= Len(appended)
    /\ \A x \in outcome[s].items :
         /\ x[1] < outcome[s].next
         /\ x[2] = appended[x[1] + 1]
         /\ Matches(s, x[2])
         /\ \A i \in DOMAIN yielded[s] : yielded[s][i][1] < x[1]
    /\ \A i \in DOMAIN yielded[s] : yielded[s][i][1] < outcome[s].next
    /\ \A o \in from[s] .. Len(appended) - 1 :
         o < outcome[s].next => Settled(s, o) \/ \E x \in outcome[s].items : x[1] = o

\* A poll is told of a truncation only when its offset is gone for good.
Truncated(s) ==
  outcome[s].kind = "truncated" => offset[s] # 0 /\ offset[s] < base_offset

ReadInv(s) == Ordered(s) /\ Behind(s) /\ Covered(s) /\ Paged(s) /\ Truncated(s)

YieldInv == LogInv /\ ReadTypes /\ \A s \in Subs : ReadInv(s)

-----------------------------------------------------------------------------
\* What _on_poll answers: items of the log at or after the position asked for, each
\* with its offset, and no item of the topics asked for lies before the offset it
\* names but those it sends.
Answer(r, f, topics) ==
  LET start == IF f = 0 THEN base_offset ELSE f
  IN  /\ r.next <= base_offset + Len(log)
      /\ r.next >= start \/ r.next = base_offset + Len(log)
      /\ \A x \in r.items :
           /\ start <= x[1] /\ x[1] < r.next
           /\ x[1] < base_offset + Len(log)
           /\ x[2] = log[x[1] - base_offset + 1]
           /\ topics = {} \/ x[2][1] \in topics
      /\ \A o \in Nat :
           start <= o /\ o < r.next =>
             \/ \E x \in r.items : x[1] = o
             \/ ~(topics = {} \/ log[o - base_offset + 1][1] \in topics)

\* PollResult is truncated exactly below the log, and an Answer otherwise.
LEMMA PollAnswers ==
  ASSUME LogInv, NEW f \in Nat, NEW topics, NEW stop \in Stops(f, topics)
  PROVE  /\ PollResult(f, topics, stop) \in Outcomes
         /\ PollResult(f, topics, stop).kind =
              IF f # 0 /\ f < base_offset THEN "truncated" ELSE "items"
         /\ PollResult(f, topics, stop).kind = "items" =>
              Answer(PollResult(f, topics, stop), f, topics)
<1> DEFINE M == Matching(f, topics)
           end == base_offset + Len(log)
           start == IF f = 0 THEN base_offset ELSE f
           page == {q \in M : q < stop}
           items == {<<o, log[o - base_offset + 1]>> : o \in page}
           more == stop # end
<1>1. /\ start \in Nat /\ end \in Nat /\ base_offset \in Nat /\ Len(log) \in Nat
  BY DEF LogInv
<1>2. CASE f < base_offset /\ f # 0
  <2>1. PollResult(f, topics, stop) =
          [kind |-> "truncated", items |-> {}, next |-> 0, more |-> FALSE]
    BY <1>2 DEF PollResult
  <2> QED BY <1>2, <2>1 DEF Outcomes
<1>3. CASE ~(f < base_offset /\ f # 0)
  <2> DEFINE r == [kind |-> "items", items |-> items, next |-> stop, more |-> more]
  <2>1. PollResult(f, topics, stop) = r
    BY <1>3, Zenon DEF PollResult
  <2>2. (IF f < base_offset THEN base_offset ELSE f) = start /\ start >= base_offset
    BY <1>1, <1>3
  <2>3. \A o : o \in M <=>
          /\ o \in start .. base_offset + Len(log) - 1
          /\ topics = {} \/ log[o - base_offset + 1][1] \in topics
    <3> HIDE DEF start
    <3> QED BY <2>2, Zenon DEF Matching
  <2> HIDE DEF M
  <2>4. stop = end \/ stop \in M
    BY Zenon DEF Stops, M
  <2> HIDE DEF start, end
  <2>5. \A o \in M : /\ o \in Nat /\ start <= o /\ o < end
                     /\ topics = {} \/ log[o - base_offset + 1][1] \in topics
    BY <1>1, <2>3 DEF end
  <2>6. \A o \in Nat : start <= o /\ o < end =>
           o \in M \/ ~(topics = {} \/ log[o - base_offset + 1][1] \in topics)
    BY <1>1, <2>3 DEF end
  <2>7. stop \in Nat /\ stop <= end /\ (stop >= start \/ stop = end)
    BY <1>1, <2>4, <2>5
  <2>8. more \in BOOLEAN
    OBVIOUS
  <2> HIDE DEF more
  <2>9. \A o : o \in page <=> o \in M /\ o < stop
    BY Zenon
  <2> HIDE DEF page
  <2>10. \A o \in page : o \in Nat /\ log[o - base_offset + 1] \in Items
    <3> SUFFICES ASSUME NEW o \in page PROVE o \in Nat /\ log[o - base_offset + 1] \in Items
      OBVIOUS
    <3>1. o \in Nat /\ start <= o /\ o < end
      BY <2>5, <2>9
    <3>2. o - base_offset + 1 \in 1..Len(log)
      BY <1>1, <2>2, <3>1 DEF end
    <3> QED BY <3>1, <3>2 DEF LogInv
  <2>11. items \in SUBSET (Nat \X Items)
    BY <2>10
  <2>12. \A x \in items : x[1] \in page /\ x[2] = log[x[1] - base_offset + 1]
    OBVIOUS
  <2>13. \A o \in page : \E x \in items : x[1] = o
    <3> SUFFICES ASSUME NEW o \in page PROVE \E x \in items : x[1] = o
      OBVIOUS
    <3>1. <<o, log[o - base_offset + 1]>> \in items
      OBVIOUS
    <3> QED BY <3>1
  <2> HIDE DEF items
  <2>14. r.items = items /\ r.next = stop /\ r.kind = "items" /\ r \in Outcomes
    BY <2>7, <2>8, <2>11 DEF Outcomes
  <2> HIDE DEF r
  <2>15. Answer(r, f, topics)
    <3>1. /\ stop <= base_offset + Len(log)
          /\ stop >= start \/ stop = base_offset + Len(log)
      BY <1>1, <2>7 DEF end
    <3>2. \A x \in items : /\ start <= x[1] /\ x[1] < stop
                           /\ x[1] < base_offset + Len(log)
                           /\ x[2] = log[x[1] - base_offset + 1]
                           /\ topics = {} \/ x[2][1] \in topics
      BY <2>5, <2>9, <2>12 DEF end
    <3>3. \A o \in Nat :
            start <= o /\ o < stop =>
              \/ \E x \in items : x[1] = o
              \/ ~(topics = {} \/ log[o - base_offset + 1][1] \in topics)
      BY <1>1, <2>6, <2>7, <2>9, <2>13
    <3> QED BY <2>14, <3>1, <3>2, <3>3, Zenon DEF Answer, start
  <2> QED BY <1>3, <2>1, <2>14, <2>15
<1> QED BY <1>2, <1>3

-----------------------------------------------------------------------------
\* What the workflow does to its log: it appends, and drops from the front.
Extends ==
  /\ base_offset <= base_offset'
  /\ Len(appended) <= Len(appended')
  /\ \A i \in 1..Len(appended) : appended'[i] = appended[i]

\* A subscription is quiet in a step that neither reads nor yields for it.
Quiet(s) ==
  /\ Extends
  /\ from'[s] = from[s] /\ offset'[s] = offset[s] /\ yielded'[s] = yielded[s]
  /\ outcome'[s] = outcome[s] \/ outcome'[s].kind \notin {"items", "truncated"}
  /\ \/ outcome[s].kind # "items"
     \/ pc[s] \in {"starting", "waiting"}
     \/ outcome'[s] = outcome[s] /\ pc'[s] \in {"yielding", "cancelled"}
  /\ outcome'[s].kind = "items" => pc'[s] \in {"starting", "waiting", "yielding", "cancelled"}

\* Initially nothing is appended, read or yielded.
LEMMA YieldInit == Init => YieldInv
<1> SUFFICES ASSUME Init PROVE YieldInv
  OBVIOUS
<1>1. LogInv
  BY DEF Init, StreamInit, LogInv
<1>2. NoOutcome \in Outcomes /\ NoOutcome.kind = "none"
  BY DEF NoOutcome, Outcome, Outcomes
<1>3. ReadTypes
  <2>1. from \in [Subs -> Nat] /\ offset \in [Subs -> Nat]
    BY SubscriberAssumption, Zenon DEF Init
  <2>2. outcome \in [Subs -> Outcomes]
    BY <1>2 DEF Init
  <2>3. yielded \in [Subs -> Seq(Nat \X Items)]
    <3> DEFINE R == Nat \X Items
    <3>1. <<>> \in Seq(R)
      OBVIOUS
    <3> HIDE DEF R
    <3>2. yielded \in [Subs -> Seq(R)]
      BY <3>1 DEF Init
    <3> QED BY <3>2 DEF R
  <2>4. pc \in [Subs -> Labels]
    BY DEF Init, Labels
  <2> QED BY <2>1, <2>2, <2>3, <2>4 DEF ReadTypes
<1>4. ASSUME NEW s \in Subs PROVE ReadInv(s)
  <2>1. /\ yielded[s] = <<>> /\ outcome[s].kind = "none" /\ offset[s] = from[s]
        /\ from[s] \in Nat /\ appended = <<>>
    BY <1>2, <1>3 DEF Init, StreamInit, ReadTypes
  <2> QED BY <2>1 DEF ReadInv, Ordered, Behind, Covered, Paged, Truncated
<1> QED BY <1>1, <1>3, <1>4 DEF YieldInv

\* The log only grows at its end and shrinks at its front, in every step.
LEMMA LogStep ==
  ASSUME LogInv, [Next]_vars
  PROVE  LogInv' /\ Extends
<1>1. CASE UNCHANGED <<log, base_offset, appended>>
  BY <1>1 DEF LogInv, Extends
<1>2. ASSUME NEW t \in Topics, WorkflowPublish(t)
      PROVE  LogInv' /\ Extends
  <2> DEFINE x == <<t, Len(appended)>>
  <2>1. x \in Items
    BY DEF Items, LogInv
  <2>2. log' = log \o <<x>> /\ appended' = appended \o <<x>> /\ base_offset' = base_offset
    BY <1>2 DEF WorkflowPublish, PublishToTopic, Grow
  <2> HIDE DEF x
  <2>3. /\ log' \in Seq(Items) /\ appended' \in Seq(Items)
        /\ Len(log') = Len(log) + 1 /\ Len(appended') = Len(appended) + 1
        /\ \A i \in 1..Len(log) : log'[i] = log[i]
        /\ \A i \in 1..Len(appended) : appended'[i] = appended[i]
        /\ log'[Len(log) + 1] = x /\ appended'[Len(appended) + 1] = x
    BY <2>1, <2>2 DEF LogInv
  <2> QED BY <2>2, <2>3 DEF LogInv, Extends
<1>3. ASSUME WorkflowTruncate
      PROVE  LogInv' /\ Extends
  <2>1. PICK u \in 1..MaxItems : Truncate(u)
    BY <1>3 DEF WorkflowTruncate
  <2>2. /\ u \in Int /\ u > base_offset /\ u <= base_offset + Len(log)
        /\ log' = SubSeq(log, u - base_offset + 1, Len(log))
        /\ base_offset' = u /\ appended' = appended
    BY <2>1 DEF Truncate
  <2> DEFINE k == u - base_offset
  <2>3. k \in Nat /\ k >= 1 /\ k <= Len(log) /\ base_offset' = base_offset + k
    BY <2>2 DEF LogInv
  <2>4. log' = SubSeq(log, k + 1, Len(log))
    BY <2>2
  <2> HIDE DEF k
  <2>5. /\ log' \in Seq(Items) /\ Len(log') = Len(log) - k
        /\ \A i \in 1..(Len(log) - k) : log'[i] = log[k + i]
    BY <2>3, <2>4 DEF LogInv
  <2>6. \A i \in 1..Len(log') : log'[i] = appended[base_offset + k + i]
    <3> SUFFICES ASSUME NEW i \in 1..Len(log') PROVE log'[i] = appended[base_offset + k + i]
      OBVIOUS
    <3>1. log'[i] = log[k + i] /\ k + i \in 1..Len(log)
      BY <2>3, <2>5 DEF LogInv
    <3>2. log[k + i] = appended[base_offset + (k + i)]
      BY <3>1 DEF LogInv
    <3> QED BY <2>3, <3>1, <3>2 DEF LogInv
  <2>7. base_offset' \in Nat /\ Len(appended') = base_offset' + Len(log')
    <3>1. Len(appended') = base_offset + Len(log) /\ base_offset \in Nat /\ Len(log) \in Nat
      BY <2>2 DEF LogInv
    <3>2. Len(log') = Len(log) - k
      BY <2>5
    <3> QED BY <2>3, <3>1, <3>2
  <2>8. LogInv'
    BY <2>2, <2>3, <2>5, <2>6, <2>7, Zenon DEF LogInv
  <2>9. Extends
    BY <2>2, <2>3 DEF LogInv, Extends
  <2> QED BY <2>8, <2>9
<1>4. CASE Next
  <2>1. CASE \E t \in Topics : WorkflowPublish(t)
    BY <1>2, <2>1
  <2>2. CASE WorkflowTruncate
    BY <1>3, <2>2
  <2>3. CASE WorkflowDetach \/ WorkflowContinue \/ WorkflowClose
    BY <1>1, <2>3 DEF WorkflowDetach, DetachPollers, WorkflowContinue, NextRun, WorkflowClose, streamVars
  <2>4. ASSUME NEW s \in Subs,
               OnPoll(s) \/ SubStep(s) \/ TimedOutOrCancelled(s) \/ CallRaises(s)
              \/ Cancelled(s) \/ DescribeFails(s)
        PROVE  UNCHANGED <<log, base_offset, appended>>
    BY <2>4 DEF OnPoll, SubStep, StartUpdate, StartUpdateNotFound, Started, YieldItem, EndPage,
                UpdateFailed, Cooled, Follow, InTerminalState, TimedOutOrCancelled, CallRaises, Cancelled,
                DescribeFails, streamVars
  <2> QED BY <1>1, <1>4, <2>1, <2>2, <2>3, <2>4 DEF Next
<1> QED BY <1>1, <1>4 DEF vars, streamVars

\* What the types say of one subscription.
LEMMA Typed ==
  ASSUME YieldInv, NEW s \in Subs
  PROVE  /\ base_offset \in Nat /\ Len(appended) \in Nat
         /\ from[s] \in Nat /\ offset[s] \in Nat /\ Start(s) \in Nat
         /\ \A i \in DOMAIN yielded[s] : yielded[s][i][1] \in Nat
         /\ outcome[s].next \in Nat
         /\ \A x \in outcome[s].items : x[1] \in Nat
<1>1. base_offset \in Nat /\ Len(appended) \in Nat
  BY DEF YieldInv, LogInv
<1>2. from[s] \in Nat /\ offset[s] \in Nat /\ Start(s) \in Nat
  BY <1>1 DEF YieldInv, ReadTypes, Start
<1>3. yielded[s] \in Seq(Nat \X Items) /\ outcome[s] \in Outcomes
  BY DEF YieldInv, ReadTypes
<1>4. \A i \in DOMAIN yielded[s] : yielded[s][i] \in Nat \X Items
  BY <1>3
<1>5. outcome[s].next \in Nat /\ outcome[s].items \in SUBSET (Nat \X Items)
  BY <1>3 DEF Outcomes
<1> QED BY <1>1, <1>2, <1>4, <1>5

\* An offset that needs no reading never needs it again.
LEMMA SettledStays ==
  ASSUME Extends, NEW s, yielded'[s] = yielded[s],
         base_offset \in Nat, base_offset' \in Nat, Len(appended) \in Nat,
         NEW o \in Nat, o < Len(appended), Settled(s, o)
  PROVE  Settled(s, o)'
<1>1. o + 1 \in 1..Len(appended)
  OBVIOUS
<1>2. appended'[o + 1] = appended[o + 1] /\ base_offset <= base_offset'
  BY <1>1 DEF Extends
<1>3. Offsets(s)' = Offsets(s)
  BY DEF Offsets
<1>4. o < base_offset => o < base_offset'
  BY <1>2
<1> QED BY <1>2, <1>3, <1>4, Zenon DEF Settled, Matches

\* A step in which a subscription is quiet keeps what is known of its reading.
LEMMA QuietStep ==
  ASSUME YieldInv, LogInv', NEW s \in Subs, Quiet(s)
  PROVE  ReadInv(s)'
<1>1. /\ base_offset \in Nat /\ Len(appended) \in Nat
      /\ from[s] \in Nat /\ offset[s] \in Nat /\ Start(s) \in Nat
      /\ \A i \in DOMAIN yielded[s] : yielded[s][i][1] \in Nat
      /\ outcome[s].next \in Nat
      /\ \A x \in outcome[s].items : x[1] \in Nat
  BY Typed
<1>2. base_offset' \in Nat /\ Len(appended') \in Nat
  BY DEF LogInv
<1>3. /\ from'[s] = from[s] /\ offset'[s] = offset[s] /\ yielded'[s] = yielded[s]
      /\ base_offset <= base_offset' /\ Len(appended) <= Len(appended')
      /\ \A i \in 1..Len(appended) : appended'[i] = appended[i]
  BY DEF Quiet, Extends
<1>4. /\ Ordered(s) /\ Behind(s) /\ Covered(s) /\ Paged(s) /\ Truncated(s)
  BY DEF YieldInv, ReadInv
<1>5. ASSUME NEW o \in Nat, o < Len(appended) PROVE appended'[o + 1] = appended[o + 1]
  <2>1. o + 1 \in 1..Len(appended)
    BY <1>1, <1>5
  <2> QED BY <1>3, <2>1
<1>6. \A o \in Nat : o < Len(appended) /\ Settled(s, o) => Settled(s, o)'
  BY <1>1, <1>2, <1>3, SettledStays DEF Quiet
<1>7. Ordered(s)'
  <2>1. \A i \in DOMAIN yielded[s] :
          /\ yielded[s][i][1] < Len(appended')
          /\ yielded[s][i][2] = appended'[yielded[s][i][1] + 1]
    BY <1>1, <1>2, <1>3, <1>4, <1>5 DEF Ordered
  <2> QED BY <1>3, <1>4, <2>1 DEF Ordered, Matches
<1>8. Behind(s)'
  <2>1. Start(s) <= Start(s)'
    BY <1>1, <1>2, <1>3 DEF Start
  <2>2. Start(s)' \in Nat
    BY <1>1, <1>2, <1>3 DEF Start
  <2>3. (outcome[s].kind # "items" \/ pc[s] \in {"starting", "waiting"}) =>
          \A i \in DOMAIN yielded[s] : yielded[s][i][1] < Start(s)'
    BY <1>1, <1>4, <2>1, <2>2 DEF Behind
  <2>4. outcome'[s].kind # "items" \/ pc'[s] \in {"starting", "waiting"} =>
          outcome[s].kind # "items" \/ pc[s] \in {"starting", "waiting"}
    BY DEF Quiet
  <2> QED BY <1>3, <2>3, <2>4 DEF Behind
<1>9. Covered(s)'
  <2>1. ASSUME NEW o \in from[s] .. Len(appended') - 1, o < offset[s]
        PROVE  Settled(s, o)'
    <3>1. o \in Nat /\ from[s] <= o
      BY <1>1, <1>2
    <3>2. o < Len(appended)
      BY <1>1, <1>4, <2>1, <3>1 DEF Covered
    <3>3. o \in from[s] .. Len(appended) - 1
      BY <1>1, <3>1, <3>2
    <3> QED BY <1>4, <1>6, <2>1, <3>1, <3>2, <3>3 DEF Covered
  <2>2. offset[s] <= from[s] \/ offset[s] <= Len(appended')
    BY <1>1, <1>2, <1>3, <1>4 DEF Covered
  <2> QED BY <1>3, <2>1, <2>2 DEF Covered
<1>10. Paged(s)'
  <2> SUFFICES ASSUME outcome'[s].kind = "items" PROVE Paged(s)'
    BY DEF Paged
  <2>1. outcome'[s] = outcome[s] /\ outcome[s].kind = "items"
    BY DEF Quiet
  <2>2. pc'[s] \in {"starting", "waiting", "yielding", "cancelled"}
    BY DEF Quiet
  <2>3. \A x \in outcome[s].items : x[2] = appended'[x[1] + 1]
    BY <1>1, <1>4, <1>5, <2>1, SMTT(20) DEF Paged
  <2>4. ASSUME NEW o \in from[s] .. Len(appended') - 1, o < outcome[s].next
        PROVE  Settled(s, o)' \/ \E x \in outcome[s].items : x[1] = o
    <3>1. o \in Nat /\ from[s] <= o
      BY <1>1, <1>2
    <3>2. o < Len(appended)
      BY <1>1, <1>4, <2>1, <2>4, <3>1 DEF Paged
    <3>3. o \in from[s] .. Len(appended) - 1
      BY <1>1, <3>1, <3>2
    <3> QED BY <1>4, <1>6, <2>1, <2>4, <3>1, <3>2, <3>3 DEF Paged
  <2>5. outcome[s].next <= Len(appended')
    BY <1>1, <1>2, <1>3, <1>4, <2>1 DEF Paged
  <2>6. /\ \A x \in outcome[s].items :
             /\ x[1] < outcome[s].next
             /\ Matches(s, x[2])
             /\ \A i \in DOMAIN yielded[s] : yielded[s][i][1] < x[1]
        /\ \A i \in DOMAIN yielded[s] : yielded[s][i][1] < outcome[s].next
    BY <1>4, <2>1, Zenon DEF Paged
  <2> QED BY <1>3, <2>1, <2>2, <2>3, <2>4, <2>5, <2>6 DEF Paged, Matches
<1>11. Truncated(s)'
  <2> SUFFICES ASSUME outcome'[s].kind = "truncated" PROVE Truncated(s)'
    BY DEF Truncated
  <2>1. outcome'[s] = outcome[s]
    BY DEF Quiet
  <2> QED BY <1>1, <1>2, <1>3, <1>4, <2>1 DEF Truncated
<1> QED BY <1>7, <1>8, <1>9, <1>10, <1>11 DEF ReadInv

\* A poll that is answered: the page starts above all that was yielded, and leaves
\* nothing out.
LEMMA AnswerStep ==
  ASSUME YieldInv, NEW s \in Subs, OnPoll(s)
  PROVE  ReadInv(s)' /\ outcome' \in [Subs -> Outcomes]
<1>0. PICK stop \in Stops(offset[s], TopicFilter[s]) :
        outcome' = [outcome EXCEPT ![s] = PollResult(offset[s], TopicFilter[s], stop)]
  BY Zenon DEF OnPoll
<1> DEFINE r == PollResult(offset[s], TopicFilter[s], stop)
<1>1. /\ base_offset \in Nat /\ Len(appended) \in Nat
      /\ from[s] \in Nat /\ offset[s] \in Nat /\ Start(s) \in Nat
      /\ \A i \in DOMAIN yielded[s] : yielded[s][i][1] \in Nat
  BY Typed
<1>2. LogInv
  BY DEF YieldInv
<1>3. /\ r \in Outcomes
      /\ r.kind = IF offset[s] # 0 /\ offset[s] < base_offset THEN "truncated" ELSE "items"
      /\ r.kind = "items" => Answer(r, offset[s], TopicFilter[s])
  BY <1>1, <1>2, PollAnswers
<1>4. /\ outcome' = [outcome EXCEPT ![s] = r]
      /\ pc' = pc /\ from' = from /\ offset' = offset /\ yielded' = yielded
      /\ base_offset' = base_offset /\ appended' = appended
  BY <1>0, Zenon DEF OnPoll, streamVars
<1> HIDE DEF r
<1>5. outcome' \in [Subs -> Outcomes] /\ outcome'[s] = r
  BY <1>3, <1>4 DEF YieldInv, ReadTypes
<1>6. pc[s] \in {"starting", "waiting"}
  BY DEF OnPoll, Open
<1>7. Ordered(s) /\ Behind(s) /\ Covered(s)
  BY DEF YieldInv, ReadInv
<1>8. \A i \in DOMAIN yielded[s] : yielded[s][i][1] < Start(s)
  BY <1>6, <1>7 DEF Behind
<1>9. Ordered(s)' /\ Behind(s)' /\ Covered(s)'
  BY <1>4, <1>7, <1>8 DEF Ordered, Behind, Covered, Settled, Offsets, Start, Matches
<1>10. Truncated(s)'
  BY <1>3, <1>4, <1>5 DEF Truncated
<1>11. ASSUME r.kind = "items"
       PROVE  Paged(s)'
  <2>1. Start(s) = IF offset[s] = 0 THEN base_offset ELSE offset[s]
    BY DEF Start
  <2>2. Answer(r, offset[s], TopicFilter[s])
    BY <1>3, <1>11
  <2>3. Len(appended) = base_offset + Len(log) /\ Len(log) \in Nat
    BY <1>2 DEF LogInv
  <2>4. /\ r.next <= Len(appended)
        /\ r.next >= Start(s) \/ r.next = Len(appended)
        /\ \A x \in r.items :
             /\ Start(s) <= x[1] /\ x[1] < r.next
             /\ x[1] < Len(appended)
             /\ x[2] = log[x[1] - base_offset + 1]
             /\ Matches(s, x[2])
        /\ \A o \in Nat :
             Start(s) <= o /\ o < r.next =>
               (\E x \in r.items : x[1] = o) \/ ~Matches(s, log[o - base_offset + 1])
    BY <2>1, <2>2, <2>3, Zenon DEF Answer, Matches
  <2>5. r.next \in Nat /\ \A x \in r.items : x[1] \in Nat
    <3>1. r.items \in SUBSET (Nat \X Items) /\ r.next \in Nat
      BY <1>3 DEF Outcomes
    <3> QED BY <3>1
  <2>6. Start(s) >= base_offset
    <3>1. ~(offset[s] < base_offset /\ offset[s] # 0)
      BY <1>3, <1>11
    <3> QED BY <1>1, <2>1, <3>1
  <2>7. \A o \in Nat : Start(s) <= o /\ o < Len(appended) =>
                          log[o - base_offset + 1] = appended[o + 1]
    <3> SUFFICES ASSUME NEW o \in Nat, Start(s) <= o, o < Len(appended)
                 PROVE  log[o - base_offset + 1] = appended[o + 1]
      OBVIOUS
    <3> DEFINE k == o - base_offset + 1
    <3>1. k \in 1..Len(log) /\ base_offset + k = o + 1
      BY <1>1, <2>3, <2>6
    <3> HIDE DEF k
    <3>2. log[k] = appended[base_offset + k]
      BY <1>2, <3>1 DEF LogInv
    <3> QED BY <3>1, <3>2 DEF k
  <2>8. \A x \in r.items : x[2] = appended[x[1] + 1]
    BY <2>4, <2>5, <2>7
  <2>9. \A x \in r.items : \A i \in DOMAIN yielded[s] : yielded[s][i][1] < x[1]
    BY <1>1, <1>8, <2>4, <2>5
  <2>10. \A i \in DOMAIN yielded[s] : yielded[s][i][1] < r.next
    BY <1>1, <1>7, <1>8, <2>4, <2>5 DEF Ordered
  <2>11. ASSUME NEW o \in from[s] .. Len(appended) - 1, o < r.next
         PROVE  Settled(s, o) \/ \E x \in r.items : x[1] = o
    <3>1. o \in Nat /\ o < Len(appended)
      BY <1>1
    <3>2. CASE Start(s) <= o
      <4>1. (\E x \in r.items : x[1] = o) \/ ~Matches(s, log[o - base_offset + 1])
        BY <2>4, <2>11, <3>1, <3>2
      <4>2. log[o - base_offset + 1] = appended[o + 1]
        BY <2>7, <3>1, <3>2
      <4> QED BY <4>1, <4>2 DEF Settled
    <3>3. CASE o < Start(s)
      <4>1. offset[s] = 0 => o < base_offset
        BY <2>1, <3>3
      <4>2. offset[s] # 0 => o < offset[s]
        BY <2>1, <3>3
      <4>3. offset[s] # 0 => Settled(s, o)
        BY <1>7, <4>2 DEF Covered
      <4> QED BY <4>1, <4>3 DEF Settled
    <3> QED BY <1>1, <3>1, <3>2, <3>3
  <2>12. \A o : Settled(s, o)' <=> Settled(s, o)
    BY <1>4, Zenon DEF Settled, Offsets, Matches
  <2> QED BY <1>4, <1>5, <1>6, <2>4, <2>8, <2>9, <2>10, <2>11, <2>12, Zenon DEF Paged, Matches
<1>12. r.kind = "truncated" => Paged(s)'
  BY <1>5 DEF Paged
<1> QED BY <1>3, <1>5, <1>9, <1>10, <1>11, <1>12 DEF ReadInv

\* The least item left of a page is yielded: it goes from the page to the end of
\* what was yielded.
LEMMA YieldStep ==
  ASSUME YieldInv, NEW s \in Subs, YieldItem(s)
  PROVE  /\ ReadInv(s)'
         /\ outcome' \in [Subs -> Outcomes]
         /\ yielded' \in [Subs -> Seq(Nat \X Items)]
<1>1. /\ base_offset \in Nat /\ Len(appended) \in Nat
      /\ from[s] \in Nat /\ offset[s] \in Nat
      /\ \A i \in DOMAIN yielded[s] : yielded[s][i][1] \in Nat
      /\ outcome[s].next \in Nat
      /\ \A x \in outcome[s].items : x[1] \in Nat
  BY Typed
<1>2. PICK x \in outcome[s].items :
        /\ \A y \in outcome[s].items : x[1] <= y[1]
        /\ yielded' = [yielded EXCEPT ![s] = Append(@, x)]
        /\ outcome' = [outcome EXCEPT ![s].items = @ \ {x}]
  BY Zenon DEF YieldItem
<1>3. /\ outcome[s].kind = "items" /\ pc'[s] = "yielding"
      /\ from' = from /\ offset' = offset
      /\ base_offset' = base_offset /\ appended' = appended
  BY DEF YieldItem, Goto, YieldInv, ReadTypes, streamVars
<1>4. outcome[s] \in Outcomes /\ yielded[s] \in Seq(Nat \X Items)
  BY DEF YieldInv, ReadTypes
<1>5. /\ outcome'[s] = [outcome[s] EXCEPT !.items = @ \ {x}]
      /\ yielded'[s] = Append(yielded[s], x)
  BY <1>2 DEF YieldInv, ReadTypes
<1>6. /\ outcome'[s].kind = "items" /\ outcome'[s].next = outcome[s].next
      /\ outcome'[s].items = outcome[s].items \ {x} /\ outcome'[s] \in Outcomes
  BY <1>3, <1>4, <1>5, Zenon DEF Outcomes
<1>7. x \in Nat \X Items
  BY <1>4 DEF Outcomes
<1> DEFINE n == Len(yielded[s])
<1>8. /\ yielded'[s] \in Seq(Nat \X Items)
      /\ n \in Nat /\ DOMAIN yielded[s] = 1..n /\ DOMAIN yielded'[s] = 1..(n + 1)
      /\ yielded'[s][n + 1] = x
      /\ \A i \in 1..n : yielded'[s][i] = yielded[s][i]
  BY <1>4, <1>5, <1>7
<1> HIDE DEF n
<1>9. /\ outcome' \in [Subs -> Outcomes]
      /\ yielded' \in [Subs -> Seq(Nat \X Items)]
  <2> DEFINE R == Nat \X Items
  <2>1. yielded'[s] \in Seq(R) /\ yielded \in [Subs -> Seq(R)]
    BY <1>8 DEF YieldInv, ReadTypes
  <2> HIDE DEF R
  <2>2. yielded' = [yielded EXCEPT ![s] = yielded'[s]]
    BY <1>2, <2>1
  <2>3. yielded' \in [Subs -> Seq(R)]
    BY <2>1, <2>2
  <2>4. outcome' = [outcome EXCEPT ![s] = outcome'[s]] /\ outcome \in [Subs -> Outcomes]
    BY <1>2 DEF YieldInv, ReadTypes
  <2>5. outcome' \in [Subs -> Outcomes]
    BY <1>6, <2>4
  <2> QED BY <2>3, <2>5 DEF R
<1>10. Ordered(s) /\ Covered(s) /\ Paged(s)
  BY DEF YieldInv, ReadInv
<1>11. /\ outcome[s].next <= Len(appended)
       /\ x[1] < outcome[s].next
       /\ x[2] = appended[x[1] + 1]
       /\ Matches(s, x[2])
       /\ \A i \in DOMAIN yielded[s] : yielded[s][i][1] < x[1]
       /\ x[1] \in Nat
  BY <1>1, <1>3, <1>10 DEF Paged
<1>12. \A q : q \in Offsets(s)' <=> q \in Offsets(s) \/ q = x[1]
  <2>1. \A q : q \in Offsets(s) <=> \E i \in 1..n : q = yielded[s][i][1]
    BY <1>8, Zenon DEF Offsets
  <2>2. \A q : q \in Offsets(s)' <=> \E i \in 1..(n + 1) : q = yielded'[s][i][1]
    BY <1>8, Zenon DEF Offsets
  <2>3. \A i \in 1..n : i \in 1..(n + 1)
    BY <1>8
  <2>4. n + 1 \in 1..(n + 1)
    BY <1>8
  <2>5. ASSUME NEW q \in Offsets(s)' PROVE q \in Offsets(s) \/ q = x[1]
    <3>1. PICK i \in 1..(n + 1) : q = yielded'[s][i][1]
      BY <2>2
    <3>2. i \in 1..n \/ i = n + 1
      BY <1>8
    <3> QED BY <1>8, <2>1, <3>1, <3>2, Zenon
  <2>6. ASSUME NEW q \in Offsets(s) PROVE q \in Offsets(s)'
    <3>1. PICK i \in 1..n : q = yielded[s][i][1]
      BY <2>1
    <3> QED BY <1>8, <2>2, <2>3, <3>1, SMTT(20)
  <2>7. x[1] \in Offsets(s)'
    BY <1>8, <2>2, <2>4, Zenon
  <2> QED BY <2>5, <2>6, <2>7
<1>13. \A o : Settled(s, o) => Settled(s, o)'
  BY <1>3, <1>12, Zenon DEF Settled, Matches
<1>14. Ordered(s)'
  <2>1. \A i \in 1..n :
          /\ yielded[s][i][1] < Len(appended)
          /\ yielded[s][i][2] = appended[yielded[s][i][1] + 1]
          /\ Matches(s, yielded[s][i][2])
          /\ \A j \in 1..n : i < j => yielded[s][i][1] < yielded[s][j][1]
    BY <1>8, <1>10, Zenon DEF Ordered
  <2>2. x[1] < Len(appended)
    BY <1>1, <1>11
  <2> SUFFICES ASSUME NEW i \in 1..(n + 1)
               PROVE  /\ yielded'[s][i][1] < Len(appended)
                      /\ yielded'[s][i][2] = appended[yielded'[s][i][1] + 1]
                      /\ Matches(s, yielded'[s][i][2])
                      /\ \A j \in 1..(n + 1) : i < j => yielded'[s][i][1] < yielded'[s][j][1]
    BY <1>3, <1>8, Zenon DEF Ordered, Matches
  <2>3. CASE i \in 1..n
    <3>1. ASSUME NEW j \in 1..(n + 1), i < j
          PROVE  yielded'[s][i][1] < yielded'[s][j][1]
      <4>1. yielded'[s][i] = yielded[s][i]
        BY <1>8, <2>3
      <4>2. CASE j \in 1..n
        BY <1>8, <2>1, <2>3, <3>1, <4>1, <4>2, Zenon
      <4>3. CASE j = n + 1
        BY <1>8, <1>11, <2>3, <4>1, <4>3, Zenon
      <4>4. j \in 1..n \/ j = n + 1
        BY <1>8
      <4> QED BY <4>2, <4>3, <4>4
    <3> QED BY <1>8, <2>1, <2>3, <3>1, Zenon
  <2>4. CASE i = n + 1
    <3>1. \A j \in 1..(n + 1) : ~(i < j)
      BY <1>8, <2>4
    <3> QED BY <1>8, <1>11, <2>2, <2>4, <3>1
  <2>5. i \in 1..n \/ i = n + 1
    BY <1>8
  <2> QED BY <2>3, <2>4, <2>5
<1>15. Behind(s)'
  BY <1>3, <1>6 DEF Behind
<1>16. Covered(s)'
  BY <1>3, <1>10, <1>13 DEF Covered
<1>17. Truncated(s)'
  BY <1>6 DEF Truncated
<1>18. Paged(s)'
  <2>1. \A y \in outcome[s].items : y = x \/ x[1] # y[1]
    <3> SUFFICES ASSUME NEW y \in outcome[s].items, x[1] = y[1] PROVE y = x
      OBVIOUS
    <3>1. y[2] = appended[y[1] + 1]
      BY <1>3, <1>10 DEF Paged
    <3>2. y \in Nat \X Items
      BY <1>4 DEF Outcomes
    <3>3. y[2] = x[2]
      BY <1>11, <3>1
    <3> QED BY <1>7, <3>2, <3>3
  <2>2. \A y \in outcome'[s].items : \A i \in 1..(n + 1) : yielded'[s][i][1] < y[1]
    <3> SUFFICES ASSUME NEW y \in outcome'[s].items, NEW i \in 1..(n + 1)
                 PROVE  yielded'[s][i][1] < y[1]
      OBVIOUS
    <3>1. y \in outcome[s].items /\ y # x /\ x[1] <= y[1] /\ y[1] \in Nat
      BY <1>1, <1>2, <1>6
    <3>2. x[1] < y[1]
      BY <1>11, <2>1, <3>1
    <3>3. CASE i \in 1..n
      <4>1. yielded[s][i][1] < y[1]
        BY <1>3, <1>8, <1>10, <3>1, <3>3, Zenon DEF Paged
      <4> QED BY <1>8, <3>3, <4>1
    <3>4. CASE i = n + 1
      BY <1>8, <3>2, <3>4
    <3>5. i \in 1..n \/ i = n + 1
      BY <1>8
    <3> QED BY <3>3, <3>4, <3>5
  <2>3. \A i \in 1..(n + 1) : yielded'[s][i][1] < outcome[s].next
    <3>1. \A i \in 1..n : yielded[s][i][1] < outcome[s].next
      BY <1>3, <1>8, <1>10, Zenon DEF Paged
    <3> SUFFICES ASSUME NEW i \in 1..(n + 1) PROVE yielded'[s][i][1] < outcome[s].next
      OBVIOUS
    <3>2. CASE i \in 1..n
      BY <1>8, <3>1, <3>2, Zenon
    <3>3. CASE i = n + 1
      BY <1>8, <1>11, <3>3
    <3>4. i \in 1..n \/ i = n + 1
      BY <1>8
    <3> QED BY <3>2, <3>3, <3>4
  <2>4. ASSUME NEW o \in from[s] .. Len(appended) - 1, o < outcome[s].next
        PROVE  Settled(s, o)' \/ \E y \in outcome'[s].items : y[1] = o
    <3>1. Settled(s, o) \/ \E y \in outcome[s].items : y[1] = o
      BY <1>3, <1>10, <2>4 DEF Paged
    <3>2. CASE Settled(s, o)
      BY <1>13, <3>2
    <3>3. ASSUME NEW y \in outcome[s].items, y[1] = o
          PROVE  Settled(s, o)' \/ \E z \in outcome'[s].items : z[1] = o
      <4>1. CASE y = x
        BY <1>12, <3>3, <4>1 DEF Settled
      <4>2. CASE y # x
        BY <1>6, <3>3, <4>2
      <4> QED BY <4>1, <4>2
    <3> QED BY <3>1, <3>2, <3>3
  <2>5. \A y \in outcome'[s].items :
          /\ y[1] < outcome[s].next
          /\ y[2] = appended[y[1] + 1]
          /\ Matches(s, y[2])
    BY <1>3, <1>6, <1>10 DEF Paged
  <2>6. outcome'[s].kind = "items" /\ outcome'[s].next = outcome[s].next
    BY <1>6
  <2>7. pc'[s] \in {"starting", "waiting", "yielding", "cancelled"}
    BY <1>3
  <2> HIDE DEF n
  <2> QED BY <1>3, <1>8, <1>11, <2>2, <2>3, <2>4, <2>5, <2>6, <2>7, Zenon DEF Paged, Matches
<1> QED BY <1>9, <1>14, <1>15, <1>16, <1>17, <1>18 DEF ReadInv

\* After a page the offset it names is the subscription's.
LEMMA EndPageStep ==
  ASSUME YieldInv, NEW s \in Subs, EndPage(s)
  PROVE  ReadInv(s)'
<1>1. /\ base_offset \in Nat /\ Len(appended) \in Nat
      /\ from[s] \in Nat /\ offset[s] \in Nat
      /\ \A i \in DOMAIN yielded[s] : yielded[s][i][1] \in Nat
      /\ outcome[s].next \in Nat
  BY Typed
<1>2. /\ outcome[s].kind = "items" /\ outcome[s].items = {}
      /\ from' = from /\ yielded' = yielded
      /\ base_offset' = base_offset /\ appended' = appended
      /\ offset'[s] = outcome[s].next /\ outcome'[s].kind = "none"
  BY DEF EndPage, Forget, NoOutcome, Outcome, YieldInv, ReadTypes, streamVars
<1>3. Ordered(s) /\ Paged(s)
  BY DEF YieldInv, ReadInv
<1>4. \A o : Settled(s, o)' <=> Settled(s, o)
  BY <1>2, Zenon DEF Settled, Offsets, Matches
<1>5. Ordered(s)'
  BY <1>2, <1>3 DEF Ordered, Matches
<1>6. Behind(s)'
  BY <1>1, <1>2, <1>3 DEF Behind, Start, Paged
<1>7. Covered(s)'
  BY <1>2, <1>3, <1>4, ZenonT(30) DEF Covered, Paged
<1> QED BY <1>2, <1>5, <1>6, <1>7 DEF ReadInv, Paged, Truncated

\* After a truncation the subscription reads from the start of what is left, which
\* lies above all that it has yielded.
LEMMA RetryStep ==
  ASSUME YieldInv, NEW s \in Subs, UpdateFailed(s), outcome[s].kind = "truncated"
  PROVE  ReadInv(s)'
<1>1. /\ base_offset \in Nat /\ Len(appended) \in Nat
      /\ from[s] \in Nat /\ offset[s] \in Nat
      /\ \A i \in DOMAIN yielded[s] : yielded[s][i][1] \in Nat
  BY Typed
<1>2. /\ from' = from /\ yielded' = yielded
      /\ base_offset' = base_offset /\ appended' = appended
      /\ offset'[s] = 0 /\ outcome'[s].kind = "none"
  BY DEF UpdateFailed, Forget, NoOutcome, Outcome, YieldInv, ReadTypes, streamVars
<1>3. Ordered(s) /\ Behind(s) /\ Truncated(s)
  BY ZenonT(30) DEF YieldInv, ReadInv
<1>4. Ordered(s)'
  BY <1>2, <1>3 DEF Ordered, Matches
<1>5. \A i \in DOMAIN yielded[s] : yielded[s][i][1] < base_offset
  BY <1>1, <1>3 DEF Behind, Truncated, Start
<1>6. Behind(s)'
  BY <1>2, <1>5 DEF Behind, Start
<1>7. Covered(s)'
  BY <1>1, <1>2 DEF Covered
<1> QED BY <1>2, <1>4, <1>6, <1>7 DEF ReadInv, Paged, Truncated

\* A step of the workflow, or of another subscription, leaves a subscription quiet.
LEMMA Untouched ==
  ASSUME YieldInv, Extends, NEW s \in Subs,
         pc'[s] = pc[s], from'[s] = from[s], offset'[s] = offset[s],
         yielded'[s] = yielded[s],
         outcome'[s] = outcome[s] \/ (outcome[s] = NoOutcome /\ outcome'[s] = Outcome("completed"))
  PROVE  Quiet(s)
<1>1. Paged(s)
  BY DEF YieldInv, ReadInv
<1>2. NoOutcome.kind = "none" /\ Outcome("completed").kind = "completed"
  BY DEF NoOutcome, Outcome
<1> QED BY <1>1, <1>2 DEF Paged, Quiet

\* The steps of a subscription that neither read nor yield.
QuietAct(s) ==
  \/ StartUpdate(s) \/ StartUpdateNotFound(s) \/ Started(s)
  \/ (UpdateFailed(s) /\ outcome[s].kind # "truncated")
  \/ Cooled(s) \/ Follow(s) \/ InTerminalState(s)
  \/ TimedOutOrCancelled(s) \/ CallRaises(s)
              \/ Cancelled(s) \/ DescribeFails(s)

\* They change neither the log nor its reader's position.
LEMMA QuietActs ==
  ASSUME YieldInv, NEW s \in Subs, QuietAct(s)
  PROVE  /\ Quiet(s)
         /\ pc' \in [Subs -> Labels] /\ outcome' \in [Subs -> Outcomes]
         /\ UNCHANGED <<from, offset, yielded>>
         /\ \A u \in Subs \ {s} : pc'[u] = pc[u] /\ outcome'[u] = outcome[u]
<1>1. Paged(s) /\ ReadTypes /\ pc[s] \in Labels /\ pc \in [Subs -> Labels] /\ outcome \in [Subs -> Outcomes]
  BY DEF YieldInv, ReadInv, ReadTypes
<1>2. /\ NoOutcome.kind = "none" /\ Outcome("draining").kind = "draining"
      /\ NoOutcome \in Outcomes /\ Outcome("draining") \in Outcomes
  BY DEF NoOutcome, Outcome, Outcomes
<1> DEFINE Ext == Extends /\ from' = from /\ offset' = offset /\ yielded' = yielded
           Rest == \A u \in Subs \ {s} : pc'[u] = pc[u] /\ outcome'[u] = outcome[u]
           Goal == /\ Quiet(s) /\ pc' \in [Subs -> Labels] /\ outcome' \in [Subs -> Outcomes]
                   /\ UNCHANGED <<from, offset, yielded>> /\ Rest
<1>3. UNCHANGED <<log, base_offset, appended>> => Extends
  BY DEF YieldInv, LogInv, Extends
<1>4. Ext
  BY <1>3 DEF QuietAct, StartUpdate, StartUpdateNotFound, Started, UpdateFailed, Cooled, Follow,
              InTerminalState, TimedOutOrCancelled, CallRaises, Cancelled, DescribeFails, streamVars
<1>5. \A l : pc' = [pc EXCEPT ![s] = l] =>
        /\ l \in Labels => pc' \in [Subs -> Labels]
        /\ pc'[s] = l
        /\ \A u \in Subs \ {s} : pc'[u] = pc[u]
  BY <1>1
<1>6. \A r \in Outcomes : outcome' = [outcome EXCEPT ![s] = r] =>
        /\ outcome' \in [Subs -> Outcomes]
        /\ outcome'[s] = r
        /\ \A u \in Subs \ {s} : outcome'[u] = outcome[u]
  BY <1>1
<1>7. ASSUME NEW l \in Labels, pc' = [pc EXCEPT ![s] = l],
             NEW r \in Outcomes, outcome' = [outcome EXCEPT ![s] = r],
             r.kind \notin {"items", "truncated"},
             outcome[s].kind # "items" \/ pc[s] \in {"starting", "waiting"}
      PROVE  Goal
  BY <1>4, <1>5, <1>6, <1>7, Zenon DEF Quiet
<1>8. ASSUME NEW l \in Labels, pc' = [pc EXCEPT ![s] = l], outcome' = outcome,
             \/ outcome[s].kind # "items"
             \/ l \in {"yielding", "cancelled"}
             \/ l \in {"starting", "waiting"} /\ pc[s] \in {"starting", "waiting"}
      PROVE  Goal
  BY <1>1, <1>4, <1>5, <1>8 DEF Quiet
<1> SUFFICES Goal
  OBVIOUS
<1> HIDE DEF Goal
<1>9. CASE StartUpdate(s)
  <2>1. outcome[s].kind # "items" /\ "starting" \in Labels
    BY <1>1, <1>9 DEF StartUpdate, Paged, Labels
  <2>2. PICK r \in {NoOutcome, Outcome("draining")} : outcome' = [outcome EXCEPT ![s] = r]
    BY <1>9, Zenon DEF StartUpdate
  <2> QED BY <1>2, <1>7, <1>9, <2>1, <2>2, Zenon DEF StartUpdate, Goto
<1>10. CASE StartUpdateNotFound(s)
  <2>1. outcome[s].kind # "items" /\ "missing" \in Labels
    BY <1>1, <1>10 DEF StartUpdateNotFound, Paged, Labels
  <2> QED BY <1>8, <1>10, <2>1, Zenon DEF StartUpdateNotFound, Goto
<1>11. CASE Started(s)
  <2>1. pc[s] = "starting" /\ "waiting" \in Labels
    BY <1>11 DEF Started, Labels
  <2> QED BY <1>8, <1>11, <2>1, Zenon DEF Started, Goto
<1>12. CASE UpdateFailed(s) /\ outcome[s].kind # "truncated"
  <2>1. PICK l \in {"cooling", "follow"} : Goto(s, l) /\ outcome[s].kind # "items"
    BY <1>12 DEF UpdateFailed
  <2>2. l \in Labels
    BY DEF Labels
  <2>3. outcome' = [outcome EXCEPT ![s] = NoOutcome]
    BY <1>12 DEF UpdateFailed, Forget
  <2> QED BY <1>2, <1>7, <2>1, <2>2, <2>3, Zenon DEF Goto
<1>13. CASE Cooled(s)
  <2>1. outcome[s].kind # "items" /\ "polling" \in Labels
    BY <1>1, <1>13 DEF Cooled, Paged, Labels
  <2> QED BY <1>8, <1>13, <2>1, Zenon DEF Cooled, Goto
<1>14. CASE Follow(s)
  <2>1. outcome[s].kind # "items" /\ outcome' = outcome
    BY <1>1, <1>14 DEF Follow, Paged
  <2>2. PICK l \in {"polling", "ended", "terminal"} : Goto(s, l)
    BY <1>14 DEF Follow
  <2>3. l \in Labels
    BY DEF Labels
  <2> QED BY <1>8, <2>1, <2>2, <2>3, Zenon DEF Goto
<1>15. CASE InTerminalState(s)
  <2>1. outcome[s].kind # "items" /\ outcome' = outcome
    BY <1>1, <1>15 DEF InTerminalState, Paged
  <2>2. PICK l \in {"ended", "raised"} : Goto(s, l)
    BY <1>15 DEF InTerminalState
  <2>3. l \in Labels
    BY DEF Labels
  <2> QED BY <1>8, <2>1, <2>2, <2>3, Zenon DEF Goto
<1>16. CASE TimedOutOrCancelled(s)
  <2>1. pc[s] \in {"starting", "waiting"} /\ "follow" \in Labels
    BY <1>16 DEF TimedOutOrCancelled, Labels
  <2>2. outcome' = [outcome EXCEPT ![s] = NoOutcome]
    BY <1>16 DEF TimedOutOrCancelled, Forget
  <2> QED BY <1>2, <1>7, <1>16, <2>1, <2>2, Zenon DEF TimedOutOrCancelled, Goto
<1>17. CASE Cancelled(s)
  <2>1. "cancelled" \in Labels
    BY DEF Labels
  <2> QED BY <1>8, <1>17, <2>1, Zenon DEF Cancelled, Goto
<1>18. CASE DescribeFails(s)
  <2>1. outcome[s].kind # "items" /\ outcome' = outcome
    BY <1>1, <1>18 DEF DescribeFails, Paged
  <2>2. PICK l \in {"ended", "terminal", "raised"} : Goto(s, l)
    BY <1>18 DEF DescribeFails
  <2>3. l \in Labels
    BY DEF Labels
  <2> QED BY <1>8, <2>1, <2>2, <2>3, Zenon DEF Goto
<1>19. CASE CallRaises(s)
  <2>1. "raised" \in Labels /\ (outcome[s].kind # "items" \/ pc[s] \in {"starting", "waiting"})
    BY <1>1, <1>19 DEF CallRaises, Labels, Paged
  <2>2. outcome' = [outcome EXCEPT ![s] = NoOutcome]
    BY <1>19 DEF CallRaises, Forget
  <2> QED BY <1>2, <1>7, <1>19, <2>1, <2>2, Zenon DEF CallRaises, Goto
<1> QED BY <1>9, <1>10, <1>11, <1>12, <1>13, <1>14, <1>15, <1>16, <1>17, <1>18, <1>19, Zenon DEF QuietAct

\* Every step keeps the invariant.
LEMMA YieldInvStep == YieldInv /\ [Next]_vars => YieldInv'
<1> SUFFICES ASSUME YieldInv, [Next]_vars PROVE YieldInv'
  OBVIOUS
<1>1. LogInv' /\ Extends
  BY LogStep DEF YieldInv
<1>2. /\ pc \in [Subs -> Labels] /\ from \in [Subs -> Nat] /\ offset \in [Subs -> Nat]
      /\ outcome \in [Subs -> Outcomes] /\ yielded \in [Subs -> Seq(Nat \X Items)]
  BY DEF YieldInv, ReadTypes
<1>3. ASSUME UNCHANGED <<pc, from, offset, yielded>>,
             outcome' = outcome \/ FailOpenPolls
      PROVE  YieldInv'
  <2>1. Outcome("completed") \in Outcomes
    BY DEF Outcome, Outcomes
  <2>2. \A s \in Subs : \/ outcome'[s] = outcome[s]
                        \/ outcome[s] = NoOutcome /\ outcome'[s] = Outcome("completed")
    BY <1>3 DEF FailOpenPolls, Open
  <2>3. outcome' \in [Subs -> Outcomes]
    BY <1>2, <1>3, <2>1, Zenon DEF FailOpenPolls
  <2>4. \A s \in Subs : Quiet(s)
    BY <1>1, <1>3, <2>2, Untouched
  <2>5. \A s \in Subs : ReadInv(s)'
    BY <1>1, <2>4, QuietStep
  <2> QED BY <1>1, <1>2, <1>3, <2>3, <2>5 DEF YieldInv, ReadTypes
<1>4. ASSUME NEW s \in Subs, ReadInv(s)', ReadTypes',
             \A u \in Subs \ {s} : /\ pc'[u] = pc[u] /\ from'[u] = from[u]
                                   /\ offset'[u] = offset[u] /\ yielded'[u] = yielded[u]
                                   /\ outcome'[u] = outcome[u]
      PROVE  YieldInv'
  <2>1. \A u \in Subs \ {s} : Quiet(u)
    BY <1>1, <1>4, Untouched
  <2>2. \A u \in Subs \ {s} : ReadInv(u)'
    BY <1>1, <2>1, QuietStep
  <2>3. \A u \in Subs : ReadInv(u)'
    BY <1>4, <2>2
  <2> QED BY <1>1, <1>4, <2>3 DEF YieldInv
<1>5. ASSUME NEW s \in Subs, OnPoll(s)
      PROVE  YieldInv'
  <2>1. ReadInv(s)' /\ outcome' \in [Subs -> Outcomes]
    BY <1>5, AnswerStep, Zenon
  <2>2. UNCHANGED <<pc, from, offset, yielded>>
    BY <1>5 DEF OnPoll
  <2>3. \A u \in Subs \ {s} : outcome'[u] = outcome[u]
    BY <1>2, <1>5 DEF OnPoll
  <2>4. ReadTypes'
    BY <1>2, <2>1, <2>2 DEF ReadTypes
  <2> QED BY <1>4, <2>1, <2>2, <2>3, <2>4
<1>6. ASSUME NEW s \in Subs, YieldItem(s)
      PROVE  YieldInv'
  <2>1. /\ ReadInv(s)' /\ outcome' \in [Subs -> Outcomes]
        /\ yielded' \in [Subs -> Seq(Nat \X Items)]
    BY <1>6, YieldStep
  <2>2. UNCHANGED <<from, offset>> /\ pc' = [pc EXCEPT ![s] = "yielding"]
    BY <1>6 DEF YieldItem, Goto
  <2>3. /\ pc' \in [Subs -> Labels]
        /\ \A u \in Subs \ {s} : pc'[u] = pc[u]
    BY <1>2, <2>2 DEF Labels
  <2>4. \A u \in Subs \ {s} : outcome'[u] = outcome[u] /\ yielded'[u] = yielded[u]
    BY <1>2, <1>6 DEF YieldItem
  <2>5. ReadTypes'
    BY <1>2, <2>1, <2>2, <2>3 DEF ReadTypes
  <2> QED BY <1>4, <2>1, <2>2, <2>3, <2>4, <2>5
<1>7. ASSUME NEW s \in Subs, ReadInv(s)', UNCHANGED <<from, yielded>>, Forget(s),
             NEW l \in {"polling", "cooling"}, Goto(s, l),
             NEW o \in Nat, offset' = [offset EXCEPT ![s] = o]
      PROVE  YieldInv'
  <2>1. NoOutcome \in Outcomes
    BY DEF NoOutcome, Outcome, Outcomes
  <2>2. /\ outcome' \in [Subs -> Outcomes]
        /\ \A u \in Subs \ {s} : outcome'[u] = outcome[u]
    BY <1>2, <1>7, <2>1 DEF Forget
  <2>3. /\ pc' \in [Subs -> Labels]
        /\ \A u \in Subs \ {s} : pc'[u] = pc[u]
    BY <1>2, <1>7 DEF Goto, Labels
  <2>4. /\ offset' \in [Subs -> Nat]
        /\ \A u \in Subs \ {s} : offset'[u] = offset[u]
    BY <1>2, <1>7
  <2>5. ReadTypes'
    BY <1>2, <1>7, <2>2, <2>3, <2>4, Zenon DEF ReadTypes
  <2> QED BY <1>4, <1>7, <2>2, <2>3, <2>4, <2>5
<1>8. ASSUME NEW s \in Subs, EndPage(s)
      PROVE  YieldInv'
  <2>1. ReadInv(s)' /\ outcome[s].next \in Nat
    BY <1>8, EndPageStep, Typed
  <2>2. PICK l \in {"polling", "cooling"} : Goto(s, l)
    BY <1>8 DEF EndPage
  <2>3. /\ UNCHANGED <<from, yielded>> /\ Forget(s)
        /\ offset' = [offset EXCEPT ![s] = outcome[s].next]
    BY <1>8 DEF EndPage
  <2> QED BY <1>7, <2>1, <2>2, <2>3, Zenon
<1>9. ASSUME NEW s \in Subs, UpdateFailed(s), outcome[s].kind = "truncated"
      PROVE  YieldInv'
  <2>1. ReadInv(s)' /\ 0 \in Nat
    BY <1>9, RetryStep
  <2>2. /\ UNCHANGED <<from, yielded>> /\ Forget(s) /\ Goto(s, "polling")
        /\ offset' = [offset EXCEPT ![s] = 0]
    BY <1>9 DEF UpdateFailed
  <2> QED BY <1>7, <2>1, <2>2, Zenon
<1>10. ASSUME NEW s \in Subs, QuietAct(s)
       PROVE  YieldInv'
  <2>1. /\ Quiet(s)
        /\ pc' \in [Subs -> Labels] /\ outcome' \in [Subs -> Outcomes]
        /\ UNCHANGED <<from, offset, yielded>>
        /\ \A u \in Subs \ {s} : pc'[u] = pc[u] /\ outcome'[u] = outcome[u]
    BY <1>10, QuietActs
  <2>2. ReadInv(s)'
    BY <1>1, <2>1, QuietStep
  <2>3. ReadTypes'
    BY <1>2, <2>1 DEF ReadTypes
  <2> QED BY <1>4, <2>1, <2>2, <2>3
<1>11. CASE UNCHANGED vars
  BY <1>3, <1>11 DEF vars, subVars
<1>12. CASE \/ \E t \in Topics : WorkflowPublish(t)
            \/ WorkflowTruncate \/ WorkflowDetach \/ WorkflowContinue \/ WorkflowClose
  BY <1>3, <1>12, Zenon DEF WorkflowPublish, WorkflowTruncate, WorkflowDetach, WorkflowContinue,
                     WorkflowClose, subVars
<1>13. ASSUME NEW s \in Subs,
              OnPoll(s) \/ SubStep(s) \/ TimedOutOrCancelled(s) \/ CallRaises(s)
              \/ Cancelled(s) \/ DescribeFails(s)
       PROVE  YieldInv'
  BY <1>5, <1>6, <1>8, <1>9, <1>10, <1>13, Zenon DEF SubStep, QuietAct
<1> QED BY <1>11, <1>12, <1>13 DEF Next

\* A subscription yields the matching items of the log in order, once, and skips
\* none that is still in the log: for any number of subscriptions, clients, topics
\* and runs, any size of the pages, and whenever the workflow truncates, drains,
\* continues as new or ends between a poll, its answer and the items it yields.
THEOREM YieldsTheLog == Spec => []YieldsLog
<1>1. YieldInv => YieldsLog
  <2> SUFFICES ASSUME YieldInv, NEW s \in Subs
               PROVE  /\ \A i \in DOMAIN yielded[s] :
                           /\ yielded[s][i][2] = appended[yielded[s][i][1] + 1]
                           /\ Matches(s, yielded[s][i][2])
                           /\ \A j \in DOMAIN yielded[s] :
                                i < j => yielded[s][i][1] < yielded[s][j][1]
                      /\ \A o \in from[s] .. Len(appended) - 1 :
                           (o < offset[s] \/ \E q \in Offsets(s) : o < q) => Settled(s, o)
    BY Zenon DEF YieldsLog, Settled
  <2>1. Ordered(s) /\ Behind(s) /\ Covered(s) /\ Paged(s)
    BY DEF YieldInv, ReadInv
  <2>2. /\ base_offset \in Nat /\ Len(appended) \in Nat
        /\ from[s] \in Nat /\ offset[s] \in Nat /\ Start(s) \in Nat
        /\ \A i \in DOMAIN yielded[s] : yielded[s][i][1] \in Nat
        /\ outcome[s].next \in Nat
        /\ \A x \in outcome[s].items : x[1] \in Nat
    BY Typed
  <2>3. ASSUME NEW o \in from[s] .. Len(appended) - 1,
               NEW i \in DOMAIN yielded[s], o < yielded[s][i][1]
        PROVE  Settled(s, o)
    <3>1. o \in Nat /\ yielded[s][i][1] \in Nat
      BY <2>2
    <3>2. CASE outcome[s].kind = "items"
      <4>1. yielded[s][i][1] < outcome[s].next
        BY <2>1, <3>2 DEF Paged
      <4>2. o < outcome[s].next
        BY <2>2, <2>3, <3>1, <4>1
      <4>3. \A x \in outcome[s].items : x[1] # o
        BY <2>1, <2>2, <2>3, <3>1, <3>2 DEF Paged
      <4> QED BY <2>1, <3>2, <4>2, <4>3 DEF Paged
    <3>3. CASE outcome[s].kind # "items"
      <4>1. o < Start(s)
        BY <2>1, <2>2, <2>3, <3>1, <3>3 DEF Behind
      <4>2. offset[s] = 0 => o < base_offset
        BY <4>1 DEF Start
      <4>3. offset[s] # 0 => o < offset[s]
        BY <4>1 DEF Start
      <4> QED BY <2>1, <4>2, <4>3, SMTT(20) DEF Covered, Settled
    <3> QED BY <3>2, <3>3
  <2>4. \A o \in from[s] .. Len(appended) - 1 :
          (o < offset[s] \/ \E q \in Offsets(s) : o < q) => Settled(s, o)
    BY <2>1, <2>3 DEF Covered, Offsets
  <2> QED BY <2>1, <2>4 DEF Ordered
<1> QED BY <1>1, YieldInit, YieldInvStep, PTL DEF Spec

-----------------------------------------------------------------------------
\* Each subscription has a client object of its own.
OwnClient == \A s, t \in Subs : ClientOf[s] = ClientOf[t] => s = t

EndTypes ==
  /\ run \in Nat \ {0}
  /\ closed \in BOOLEAN
  /\ pc \in [Subs -> Labels]
  /\ admitted \in [Subs -> Nat]
  /\ polled_run \in [Clients -> Nat]
  /\ disturbed \in [Subs -> BOOLEAN]
  /\ outcome = [s \in Subs |-> outcome[s]]

\* The client knows the run its poll was admitted to, and a poll that fails with
\* its run fails after the run is over.
Polled(s) ==
  /\ pc[s] \in {"starting", "waiting"} => 1 <= admitted[s] /\ admitted[s] <= run
  /\ pc[s] = "waiting" => polled_run[ClientOf[s]] = admitted[s]
  /\ outcome[s].kind = "completed" => closed \/ admitted[s] < run
  /\ polled_run[ClientOf[s]] <= run

\* Whoever looks at the status of the polled run looks after that run was over, and
\* with the whole stream over unless the run continued as new.
Leaves(s) ==
  ~disturbed[s] =>
    /\ pc[s] = "follow" =>
         closed \/ (polled_run[ClientOf[s]] # 0 /\ polled_run[ClientOf[s]] < run)
    /\ pc[s] \in {"missing", "terminal", "ended"} => closed
    /\ pc[s] = "terminal" => polled_run[ClientOf[s]] = 0 \/ polled_run[ClientOf[s]] = run
    /\ pc[s] # "raised"

EndInv == EndTypes /\ \A s \in Subs : Polled(s) /\ Leaves(s)

\* Initially nothing was polled.
LEMMA EndInit == Init => EndInv
<1> SUFFICES ASSUME Init PROVE EndInv
  OBVIOUS
<1>1. NoOutcome.kind = "none"
  BY DEF NoOutcome, Outcome
<1>2. EndTypes
  <2>1. outcome = [s \in Subs |-> outcome[s]]
    BY DEF Init
  <2>2. pc \in [Subs -> Labels] /\ disturbed \in [Subs -> BOOLEAN]
    BY DEF Init, Labels
  <2>3. run \in Nat \ {0} /\ admitted \in [Subs -> Nat] /\ polled_run \in [Clients -> Nat]
    BY DEF Init
  <2> QED BY <2>1, <2>2, <2>3, Zenon DEF Init, EndTypes
<1>3. ASSUME NEW s \in Subs PROVE Polled(s) /\ Leaves(s)
  <2>1. ClientOf[s] \in Clients
    BY SubscriberAssumption
  <2>2. pc[s] = "polling" /\ outcome[s].kind = "none" /\ polled_run[ClientOf[s]] = 0 /\ run = 1
    BY <1>1, <2>1 DEF Init
  <2> QED BY <2>2 DEF Polled, Leaves
<1> QED BY <1>2, <1>3 DEF EndInv

\* What the workflow does: it may start a run, or end the last one; both fail the
\* polls that are open.
LEMMA ChainStep ==
  ASSUME EndInv, NEW s \in Subs, run' \in Nat, closed' \in BOOLEAN,
         pc'[s] = pc[s], admitted'[s] = admitted[s], disturbed'[s] = disturbed[s],
         polled_run'[ClientOf[s]] = polled_run[ClientOf[s]],
         run' = run \/ (run' = run + 1 /\ ~closed /\ ~closed'),
         closed => closed',
         \/ outcome'[s] = outcome[s]
         \/ /\ outcome'[s].kind = "completed"
            /\ pc[s] \in {"starting", "waiting"}
            /\ run' = run + 1 \/ closed'
  PROVE  Polled(s)' /\ Leaves(s)'
<1>1. /\ run \in Nat /\ closed \in BOOLEAN /\ admitted[s] \in Nat
      /\ polled_run[ClientOf[s]] \in Nat /\ pc[s] \in Labels /\ disturbed[s] \in BOOLEAN
  BY SubscriberAssumption DEF EndInv, EndTypes
<1>2. Polled(s) /\ Leaves(s)
  BY DEF EndInv
<1>3. Polled(s)'
  BY <1>1, <1>2 DEF Polled
<1>4. Leaves(s)'
  BY <1>1, <1>2, SMTT(20) DEF Leaves
<1> QED BY <1>3, <1>4

\* A subscription that a step leaves alone.
LEMMA Unmoved ==
  ASSUME NEW u, Polled(u) /\ Leaves(u), polled_run'[ClientOf[u]] = polled_run[ClientOf[u]],
         pc'[u] = pc[u] /\ admitted'[u] = admitted[u] /\ disturbed'[u] = disturbed[u]
         /\ outcome'[u] = outcome[u] /\ run' = run /\ closed' = closed
  PROVE  Polled(u)' /\ Leaves(u)'
<1>1. Polled(u)'
  BY ZenonT(30) DEF Polled
<1>2. Leaves(u)'
  BY ZenonT(30) DEF Leaves
<1> QED BY <1>1, <1>2

\* A step of the subscription itself, with what it knows of the runs.
LEMMA OwnStep ==
  ASSUME EndInv, OwnClient, NEW s \in Subs, run' = run, closed' = closed, EndTypes',
         Polled(s)' /\ Leaves(s)',
         \A u \in Subs \ {s} :
           /\ pc'[u] = pc[u] /\ admitted'[u] = admitted[u] /\ disturbed'[u] = disturbed[u]
           /\ outcome'[u] = outcome[u],
         polled_run' = polled_run \/ Started(s)
  PROVE  EndInv'
<1>1. ASSUME NEW u \in Subs \ {s} PROVE polled_run'[ClientOf[u]] = polled_run[ClientOf[u]]
  BY SubscriberAssumption DEF EndInv, EndTypes, OwnClient, Started
<1>2. ASSUME NEW u \in Subs \ {s} PROVE Polled(u)' /\ Leaves(u)'
  <2>1. Polled(u) /\ Leaves(u)
    BY DEF EndInv
  <2>2. polled_run'[ClientOf[u]] = polled_run[ClientOf[u]]
    BY <1>1
  <2>3. /\ pc'[u] = pc[u] /\ admitted'[u] = admitted[u] /\ disturbed'[u] = disturbed[u]
        /\ outcome'[u] = outcome[u] /\ run' = run /\ closed' = closed
    BY Zenon
  <2> QED BY <2>1, <2>2, <2>3, Unmoved, Zenon
<1> QED BY <1>2 DEF EndInv

\* What the status of the polled run says.
LEMMA StatusSays ==
  ASSUME NEW s \in Subs, closed \in BOOLEAN
  PROVE  /\ PolledStatus(s) = "CONTINUED_AS_NEW" <=>
              polled_run[ClientOf[s]] # 0 /\ polled_run[ClientOf[s]] < run
         /\ PolledStatus(s) = "COMPLETED" <=>
              closed /\ ~(polled_run[ClientOf[s]] # 0 /\ polled_run[ClientOf[s]] < run)
BY DEF PolledStatus

\* Every step keeps the invariant, when no other subscription uses the client.
LEMMA EndStep == OwnClient /\ YieldInv /\ EndInv /\ [Next]_vars => EndInv'
<1> SUFFICES ASSUME OwnClient, YieldInv, EndInv, [Next]_vars PROVE EndInv'
  OBVIOUS
<1>1. /\ run \in Nat \ {0} /\ closed \in BOOLEAN
      /\ pc \in [Subs -> Labels] /\ admitted \in [Subs -> Nat]
      /\ polled_run \in [Clients -> Nat] /\ disturbed \in [Subs -> BOOLEAN]
      /\ outcome = [s \in Subs |-> outcome[s]]
  BY DEF EndInv, EndTypes
<1>2. \A s \in Subs : /\ ClientOf[s] \in Clients /\ polled_run[ClientOf[s]] \in Nat
                      /\ admitted[s] \in Nat /\ pc[s] \in Labels /\ disturbed[s] \in BOOLEAN
  BY <1>1, SubscriberAssumption
<1>3. \A s \in Subs : Polled(s) /\ Leaves(s)
  BY DEF EndInv
<1>4. NoOutcome.kind = "none" /\ \A k : Outcome(k).kind = k
  BY DEF NoOutcome, Outcome
<1>5. ASSUME UNCHANGED <<run, closed, subVars>> PROVE EndInv'
  BY <1>5 DEF EndInv, EndTypes, Polled, Leaves, subVars
<1>6. ASSUME UNCHANGED <<pc, admitted, polled_run, disturbed>>, FailOpenPolls,
             ~closed, \/ run' = run + 1 /\ closed' = closed
                      \/ run' = run /\ closed' = TRUE
      PROVE  EndInv'
  <2>1. EndTypes'
    <3>1. outcome' = [s \in Subs |-> outcome'[s]]
      BY <1>6 DEF FailOpenPolls
    <3>2. run' \in Nat \ {0}
      BY <1>1, <1>6
    <3>3. closed' \in BOOLEAN
      BY <1>1, <1>6, Zenon
    <3> QED BY <1>1, <1>6, <3>1, <3>2, <3>3 DEF EndTypes
  <2>2. ASSUME NEW s \in Subs PROVE Polled(s)' /\ Leaves(s)'
    <3>1. \/ outcome'[s] = outcome[s]
          \/ outcome'[s].kind = "completed" /\ pc[s] \in {"starting", "waiting"}
      BY <1>4, <1>6 DEF FailOpenPolls, Open
    <3>2. run' \in Nat /\ closed' \in BOOLEAN
      BY <2>1 DEF EndTypes
    <3>3. run' = run \/ (run' = run + 1 /\ ~closed /\ ~closed')
      BY <1>6
    <3>4. closed => closed'
      BY <1>6
    <3>5. run' = run + 1 \/ closed'
      BY <1>6, ZenonT(30)
    <3> QED BY <1>6, <3>1, <3>2, <3>3, <3>4, <3>5, ChainStep
  <2> QED BY <2>1, <2>2 DEF EndInv
<1>7. ASSUME NEW s \in Subs, UNCHANGED <<run, closed, polled_run>>,
             NEW l \in Labels, pc' = [pc EXCEPT ![s] = l],
             NEW a \in Nat, admitted' = [admitted EXCEPT ![s] = a],
             NEW o, outcome' = [outcome EXCEPT ![s] = o],
             NEW d \in BOOLEAN, disturbed' = [disturbed EXCEPT ![s] = d],
             l \in {"starting", "waiting"} => 1 <= a /\ a <= run,
             l = "waiting" => polled_run[ClientOf[s]] = a,
             o.kind = "completed" => closed \/ a < run,
             ~d => /\ l = "follow" => closed \/ (/\ polled_run[ClientOf[s]] # 0
                                                 /\ polled_run[ClientOf[s]] < run)
                   /\ l \in {"missing", "terminal", "ended"} => closed
                   /\ l = "terminal" => \/ polled_run[ClientOf[s]] = 0
                                        \/ polled_run[ClientOf[s]] = run
                   /\ l # "raised"
      PROVE  EndInv'
  <2>1. EndTypes'
    <3>1. outcome' = [u \in Subs |-> outcome'[u]]
      BY <1>1, <1>7
    <3>2. pc' \in [Subs -> Labels] /\ admitted' \in [Subs -> Nat]
      BY <1>1, <1>7
    <3>3. disturbed' \in [Subs -> BOOLEAN]
      BY <1>1, <1>7
    <3> QED BY <1>1, <1>7, <3>1, <3>2, <3>3 DEF EndTypes
  <2>2. pc'[s] = l /\ admitted'[s] = a /\ outcome'[s] = o
    BY <1>1, <1>7
  <2>3. disturbed'[s] <=> d
    BY <1>1, <1>7
  <2>4. \A u \in Subs \ {s} :
          pc'[u] = pc[u] /\ admitted'[u] = admitted[u] /\ outcome'[u] = outcome[u]
    BY <1>1, <1>7
  <2>5. \A u \in Subs \ {s} : disturbed'[u] = disturbed[u]
    BY <1>1, <1>7
  <2>6. Polled(s)'
    BY <1>3, <1>7, <2>2, Zenon DEF Polled
  <2>7. Leaves(s)'
    BY <1>7, <2>2, <2>3 DEF Leaves
  <2> QED BY <1>7, <2>1, <2>4, <2>5, <2>6, <2>7, OwnStep
<1>8. \A s \in Subs : /\ admitted = [admitted EXCEPT ![s] = admitted[s]]
                      /\ outcome = [outcome EXCEPT ![s] = outcome[s]]
                      /\ disturbed = [disturbed EXCEPT ![s] = disturbed[s]]
                      /\ pc = [pc EXCEPT ![s] = pc[s]]
  BY <1>1
<1>9. \A s \in Subs : /\ PolledStatus(s) = "CONTINUED_AS_NEW" <=>
                           polled_run[ClientOf[s]] # 0 /\ polled_run[ClientOf[s]] < run
                      /\ PolledStatus(s) = "COMPLETED" <=>
                           /\ closed
                           /\ ~(polled_run[ClientOf[s]] # 0 /\ polled_run[ClientOf[s]] < run)
  BY <1>1, StatusSays
<1>10. ASSUME NEW s \in Subs, OnPoll(s) PROVE EndInv'
  <2>1. \A stop : PollResult(offset[s], TopicFilter[s], stop).kind # "completed"
    BY Zenon DEF PollResult
  <2>2. pc[s] # "raised" /\ pc[s] \in {"starting", "waiting"}
    BY <1>10 DEF OnPoll, Open
  <2>3. PICK o : outcome' = [outcome EXCEPT ![s] = o] /\ o.kind # "completed"
    BY <1>10, <2>1, Zenon DEF OnPoll
  <2>4. Polled(s) /\ pc[s] \in Labels /\ admitted[s] \in Nat /\ disturbed[s] \in BOOLEAN
    BY <1>2, <1>3
  <2>5. UNCHANGED <<run, closed, polled_run, pc, admitted, disturbed>>
    BY <1>10 DEF OnPoll, chainVars
  <2>6. /\ pc' = [pc EXCEPT ![s] = pc[s]] /\ admitted' = [admitted EXCEPT ![s] = admitted[s]]
        /\ disturbed' = [disturbed EXCEPT ![s] = disturbed[s]]
    BY <1>8, <2>5
  <2> QED BY <1>7, <2>2, <2>3, <2>4, <2>5, <2>6, Zenon DEF Polled
<1>11. ASSUME NEW s \in Subs, StartUpdate(s) PROVE EndInv'
  <2>1. PICK o \in {NoOutcome, Outcome("draining")} : outcome' = [outcome EXCEPT ![s] = o]
    BY <1>11, Zenon DEF StartUpdate
  <2>2. o.kind # "completed" /\ "starting" \in Labels /\ run \in Nat /\ 1 <= run /\ run <= run
    BY <1>1, <1>4 DEF Labels
  <2>3. /\ UNCHANGED <<run, closed, polled_run, disturbed>>
        /\ pc' = [pc EXCEPT ![s] = "starting"] /\ admitted' = [admitted EXCEPT ![s] = run]
    BY <1>11 DEF StartUpdate, Goto, chainVars
  <2>4. disturbed' = [disturbed EXCEPT ![s] = disturbed[s]] /\ disturbed[s] \in BOOLEAN
    BY <1>2, <1>8, <2>3
  <2>5. /\ "starting" \notin {"missing", "terminal", "ended"} /\ "starting" # "waiting"
        /\ "starting" # "follow" /\ "starting" # "raised" /\ "starting" # "terminal"
    OBVIOUS
  <2> QED BY <1>7, <2>1, <2>2, <2>3, <2>4, <2>5, Zenon
<1>12. ASSUME NEW s \in Subs, NEW l \in Labels \ {"starting", "waiting"}, Goto(s, l),
              UNCHANGED <<run, closed, polled_run, admitted, outcome>>,
              \/ disturbed' = [disturbed EXCEPT ![s] = TRUE]
              \/ /\ disturbed' = disturbed
                 /\ ~disturbed[s] =>
                      /\ l \in {"polling", "missing", "terminal", "ended"}
                      /\ l # "polling" => closed
                      /\ l = "terminal" => ~(/\ polled_run[ClientOf[s]] # 0
                                             /\ polled_run[ClientOf[s]] < run)
       PROVE  EndInv'
  <2>1. /\ pc' = [pc EXCEPT ![s] = l] /\ admitted' = [admitted EXCEPT ![s] = admitted[s]]
        /\ outcome' = [outcome EXCEPT ![s] = outcome[s]]
    BY <1>8, <1>12 DEF Goto
  <2>2. admitted[s] \in Nat /\ (outcome[s].kind = "completed" => closed \/ admitted[s] < run)
    BY <1>2, <1>3 DEF Polled
  <2>3. /\ polled_run[ClientOf[s]] <= run /\ polled_run[ClientOf[s]] \in Nat /\ run \in Nat
        /\ disturbed[s] \in BOOLEAN
    BY <1>1, <1>2, <1>3 DEF Polled
  <2>4. CASE disturbed' = [disturbed EXCEPT ![s] = TRUE]
    BY <1>7, <1>12, <2>1, <2>2, <2>4, Zenon
  <2>5. CASE /\ disturbed' = disturbed
             /\ ~disturbed[s] =>
                  /\ l \in {"polling", "missing", "terminal", "ended"}
                  /\ l # "polling" => closed
                  /\ l = "terminal" => ~(/\ polled_run[ClientOf[s]] # 0
                                         /\ polled_run[ClientOf[s]] < run)
    <3>1. disturbed' = [disturbed EXCEPT ![s] = disturbed[s]]
      BY <1>8, <2>5
    <3>2. ~disturbed[s] =>
            /\ l # "follow" /\ l # "raised"
            /\ l \in {"missing", "terminal", "ended"} => closed
            /\ l = "terminal" => \/ polled_run[ClientOf[s]] = 0
                                 \/ polled_run[ClientOf[s]] = run
      BY <2>3, <2>5
    <3> QED BY <1>7, <1>12, <2>1, <2>2, <2>3, <3>1, <3>2, Zenon
  <2> QED BY <1>12, <2>4, <2>5
<1>13. ASSUME NEW s \in Subs, StartUpdateNotFound(s) PROVE EndInv'
  <2>1. "missing" \in Labels \ {"starting", "waiting"}
    BY DEF Labels
  <2> QED BY <1>12, <1>13, <2>1 DEF StartUpdateNotFound, chainVars
<1>14. ASSUME NEW s \in Subs, Cooled(s) PROVE EndInv'
  <2>1. "polling" \in Labels \ {"starting", "waiting"}
    BY DEF Labels
  <2> QED BY <1>12, <1>14, <2>1 DEF Cooled, chainVars
<1>15. ASSUME NEW s \in Subs, Follow(s) PROVE EndInv'
  <2> DEFINE over == polled_run[ClientOf[s]] # 0 /\ polled_run[ClientOf[s]] < run
  <2>1. PICK l \in {"polling", "ended", "terminal"} :
          /\ Goto(s, l)
          /\ l # "polling" => ~over
          /\ l = "ended" => pc[s] = "follow"
          /\ l = "terminal" => pc[s] = "missing"
    BY <1>9, <1>15 DEF Follow
  <2>2. l \in Labels \ {"starting", "waiting"}
    BY DEF Labels
  <2>3. ~disturbed[s] /\ l # "polling" => closed
    BY <1>3, <2>1 DEF Leaves
  <2>4. UNCHANGED <<run, closed, polled_run, admitted, outcome, disturbed>>
    BY <1>15 DEF Follow, chainVars
  <2> QED BY <1>12, <2>1, <2>2, <2>3, <2>4
<1>16. ASSUME NEW s \in Subs, InTerminalState(s) PROVE EndInv'
  <2>1. PICK l \in {"ended", "raised"} :
          Goto(s, l) /\ (l = "raised" => PolledStatus(s) # "COMPLETED")
    BY <1>16 DEF InTerminalState
  <2>2. l \in Labels \ {"starting", "waiting"}
    BY DEF Labels
  <2>3. pc[s] = "terminal" /\ UNCHANGED <<run, closed, polled_run, admitted, outcome, disturbed>>
    BY <1>16 DEF InTerminalState, chainVars
  <2>4. run \in Nat /\ polled_run[ClientOf[s]] \in Nat
    BY <1>1, <1>2, Zenon
  <2>5. ~disturbed[s] => closed /\ (polled_run[ClientOf[s]] = 0 \/ polled_run[ClientOf[s]] = run)
    BY <1>3, <2>3, Zenon DEF Leaves
  <2>6. ~disturbed[s] => PolledStatus(s) = "COMPLETED"
    BY <1>9, <2>4, <2>5
  <2>7. ~disturbed[s] => l = "ended" /\ closed
    BY <2>1, <2>5, <2>6
  <2> QED BY <1>12, <2>1, <2>2, <2>3, <2>7
<1>17. ASSUME NEW s \in Subs, Cancelled(s) \/ DescribeFails(s) PROVE EndInv'
  <2>1. PICK l \in {"cancelled", "ended", "terminal", "raised"} : Goto(s, l)
    BY <1>17 DEF Cancelled, DescribeFails
  <2>2. l \in Labels \ {"starting", "waiting"}
    BY DEF Labels
  <2>3. /\ UNCHANGED <<run, closed, polled_run, admitted, outcome>>
        /\ disturbed' = [disturbed EXCEPT ![s] = TRUE]
    BY <1>17 DEF Cancelled, DescribeFails, chainVars
  <2> QED BY <1>12, <2>1, <2>2, <2>3, Zenon
<1>18. ASSUME NEW s \in Subs, Forget(s), UNCHANGED <<run, closed, polled_run>>,
              NEW l \in {"polling", "cooling", "follow", "raised"}, Goto(s, l),
              NEW d \in BOOLEAN, disturbed' = [disturbed EXCEPT ![s] = d],
              l = "raised" => d,
              ~d /\ l = "follow" => \/ closed
                                    \/ /\ polled_run[ClientOf[s]] # 0
                                       /\ polled_run[ClientOf[s]] < run
       PROVE  EndInv'
  <2>1. /\ pc' = [pc EXCEPT ![s] = l] /\ admitted' = [admitted EXCEPT ![s] = 0]
        /\ outcome' = [outcome EXCEPT ![s] = NoOutcome] /\ 0 \in Nat
    BY <1>18 DEF Forget, Goto
  <2>2. l \in Labels /\ NoOutcome.kind # "completed"
    BY <1>4 DEF Labels
  <2>3. l \notin {"starting", "waiting", "missing", "terminal", "ended"}
    OBVIOUS
  <2> QED BY <1>7, <1>18, <2>1, <2>2, <2>3, Zenon
<1>19. ASSUME NEW s \in Subs, EndPage(s) PROVE EndInv'
  <2>1. PICK l \in {"polling", "cooling"} : Goto(s, l)
    BY <1>19 DEF EndPage
  <2>2. Forget(s) /\ UNCHANGED <<run, closed, polled_run, disturbed>>
    BY <1>19 DEF EndPage, chainVars
  <2>3. disturbed' = [disturbed EXCEPT ![s] = disturbed[s]] /\ disturbed[s] \in BOOLEAN
    BY <1>2, <1>8, <2>2
  <2> QED BY <1>18, <2>1, <2>2, <2>3, Zenon
<1>20. ASSUME NEW s \in Subs, UpdateFailed(s) PROVE EndInv'
  <2>1. PICK l \in {"polling", "cooling", "follow"} :
          Goto(s, l) /\ (l = "follow" => outcome[s].kind = "completed")
    BY <1>20 DEF UpdateFailed
  <2>2. /\ Forget(s) /\ UNCHANGED <<run, closed, polled_run, disturbed>>
        /\ pc[s] = "waiting"
    BY <1>20 DEF UpdateFailed, chainVars
  <2>3. disturbed' = [disturbed EXCEPT ![s] = disturbed[s]] /\ disturbed[s] \in BOOLEAN
    BY <1>2, <1>8, <2>2
  <2>4. l = "follow" => closed \/ (polled_run[ClientOf[s]] # 0 /\ polled_run[ClientOf[s]] < run)
    BY <1>2, <1>3, <2>1, <2>2 DEF Polled
  <2> QED BY <1>18, <2>1, <2>2, <2>3, <2>4, Zenon
<1>21. ASSUME NEW s \in Subs, TimedOutOrCancelled(s) \/ CallRaises(s) PROVE EndInv'
  BY <1>18, <1>21, Zenon DEF TimedOutOrCancelled, CallRaises, chainVars
<1>22. ASSUME NEW s \in Subs, YieldItem(s) PROVE EndInv'
  <2>1. outcome \in [Subs -> Outcomes] /\ outcome[s] \in Outcomes
    BY DEF YieldInv, ReadTypes
  <2>2. PICK x : outcome' = [outcome EXCEPT ![s].items = @ \ {x}]
    BY <1>22, Zenon DEF YieldItem
  <2> DEFINE o == [outcome[s] EXCEPT !.items = @ \ {x}]
  <2>3. outcome' = [outcome EXCEPT ![s] = o] /\ o.kind = outcome[s].kind
    BY <2>1, <2>2 DEF Outcomes
  <2> HIDE DEF o
  <2>4. /\ o.kind # "completed" /\ "yielding" \in Labels
        /\ pc' = [pc EXCEPT ![s] = "yielding"]
        /\ UNCHANGED <<run, closed, polled_run, admitted, disturbed>>
    BY <1>22, <2>3 DEF YieldItem, Labels, Goto, chainVars
  <2>5. /\ admitted' = [admitted EXCEPT ![s] = admitted[s]] /\ admitted[s] \in Nat
        /\ disturbed' = [disturbed EXCEPT ![s] = disturbed[s]] /\ disturbed[s] \in BOOLEAN
    BY <1>2, <1>8, <2>4
  <2>6. /\ "yielding" \notin {"starting", "waiting"} /\ "yielding" # "waiting"
        /\ "yielding" \notin {"missing", "terminal", "ended"} /\ "yielding" # "terminal"
        /\ "yielding" # "follow" /\ "yielding" # "raised"
    OBVIOUS
  <2> QED BY <1>7, <2>3, <2>4, <2>5, <2>6, Zenon
<1>23. ASSUME NEW s \in Subs, Started(s) PROVE EndInv'
  <2>1. /\ pc[s] = "starting" /\ pc' = [pc EXCEPT ![s] = "waiting"]
        /\ polled_run' = [polled_run EXCEPT ![ClientOf[s]] = admitted[s]]
        /\ UNCHANGED <<run, closed, admitted, outcome, disturbed>>
    BY <1>23 DEF Started, Goto, chainVars
  <2>2. /\ ClientOf[s] \in Clients /\ admitted[s] \in Nat /\ Polled(s)
    BY <1>2, <1>3
  <2>3. pc' \in [Subs -> Labels] /\ polled_run' \in [Clients -> Nat]
    BY <1>1, <2>1, <2>2 DEF Labels
  <2>4. EndTypes'
    BY <1>1, <2>1, <2>3 DEF EndTypes
  <2>5. pc'[s] = "waiting" /\ polled_run'[ClientOf[s]] = admitted[s]
    BY <1>1, <2>1, <2>2, Zenon
  <2>6. Polled(s)' /\ Leaves(s)'
    BY <2>1, <2>2, <2>5 DEF Polled, Leaves
  <2>7. \A u \in Subs \ {s} : pc'[u] = pc[u]
    BY <1>1, <2>1
  <2> QED BY <1>23, <2>1, <2>4, <2>6, <2>7, OwnStep
<1>24. CASE UNCHANGED vars
  BY <1>5, <1>24 DEF vars, chainVars
<1>25. CASE \/ \E t \in Topics : WorkflowPublish(t)
            \/ WorkflowTruncate \/ WorkflowDetach
  BY <1>5, <1>25, Zenon DEF WorkflowPublish, WorkflowTruncate, WorkflowDetach, chainVars
<1>26. CASE WorkflowContinue
  BY <1>6, <1>26 DEF WorkflowContinue
<1>27. CASE WorkflowClose
  BY <1>6, <1>27 DEF WorkflowClose
<1>28. ASSUME NEW s \in Subs,
              OnPoll(s) \/ SubStep(s) \/ TimedOutOrCancelled(s) \/ CallRaises(s)
              \/ Cancelled(s) \/ DescribeFails(s)
       PROVE  EndInv'
  BY <1>10, <1>11, <1>13, <1>14, <1>15, <1>16, <1>17, <1>19, <1>20, <1>21, <1>22, <1>23, <1>28,
     Zenon DEF SubStep
<1> QED BY <1>24, <1>25, <1>26, <1>27, <1>28 DEF Next

\* A subscription with a client object of its own ends only after the last run of
\* the chain has ended, and raises nothing, unless a call failed or it was
\* cancelled.  Without the hypothesis another subscription may overwrite
\* _polled_run_id between the failure of a poll and the look at its run.
THEOREM EndsWithTheStream == OwnClient => (Spec => []EndsOnlyWithStream)
<1> SUFFICES ASSUME OwnClient PROVE Spec => []EndsOnlyWithStream
  OBVIOUS
<1>1. Init => YieldInv /\ EndInv
  BY YieldInit, EndInit
<1>2. YieldInv /\ EndInv /\ [Next]_vars => (YieldInv /\ EndInv)'
  BY YieldInvStep, EndStep
<1>3. EndInv => EndsOnlyWithStream
  BY DEF EndInv, Leaves, EndsOnlyWithStream
<1> QED BY <1>1, <1>2, <1>3, PTL DEF Spec

=============================================================================
