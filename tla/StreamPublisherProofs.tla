----------------------- MODULE StreamPublisherProofs ------------------------
(***************************************************************************)
(* StreamPublisher implements StreamLog: for any number of publishers,     *)
(* items, callers, retries, duplicates and continue-as-new, the log takes  *)
(* the items of a publisher at most once and in order.                     *)
(*                                                                         *)
(* The invariant relates each signal that may still arrive, and the batch  *)
(* that may still be sent again, to the last batch appended: a later one   *)
(* has only later items, and an earlier one is still in the reach of the   *)
(* deduplication table.  The second part is where the condition            *)
(* MaxRetryDuration + MaxDelay < PublisherTTL is needed.                   *)
(***************************************************************************)
EXTENDS StreamPublisher, TLAPS

Messages == [pub : Publishers, seq : Nat, lo : Nat, hi : Nat, since : Nat, sent : Nat]
Live == net \cup {inbox[i] : i \in DOMAIN inbox}

Types ==
  /\ published \in [Publishers -> Nat]
  /\ batched \in [Publishers -> Nat]
  /\ pending_from \in [Publishers -> Nat]
  /\ pending_seq \in [Publishers -> Nat]
  /\ pending_since \in [Publishers -> Nat]
  /\ sequence \in [Publishers -> Nat]
  /\ seen_sequence \in [Publishers -> Nat]
  /\ last_seen \in [Publishers -> Nat]
  /\ accepted \in [Publishers -> [seq : Nat, item : Nat, at : Nat]]
  /\ now \in Nat
  /\ net \subseteq Messages
  /\ inbox \in Seq(Messages)
  /\ appended \in Seq(Publishers \X Nat)

CallTypes ==
  /\ pc \in [Publishers \X Callers -> {"idle", "waiting", "calling", "queued", "sending",
                                       "dead", "failed", "closed", "stopped", "joining"}]
  /\ sending \in [Publishers \X Callers -> Nat]

\* The flush lock: one caller sends, and it sends the pending batch.
LockInv ==
  \A p \in Publishers : \A c \in Callers : pc[<<p, c>>] = "sending" =>
    /\ pending_seq[p] # 0
    /\ sending[<<p, c>>] = pending_seq[p]
    /\ \A d \in Callers : pc[<<p, d>>] = "sending" => d = c

\* The highest sequence number in use.
Top(p) == IF pending_seq[p] # 0 THEN pending_seq[p] ELSE sequence[p]

TableInv(p) ==
  /\ batched[p] <= published[p]
  /\ accepted[p].item <= batched[p]
  /\ accepted[p].at <= now
  /\ accepted[p].seq <= Top(p)
  /\ seen_sequence[p] <= accepted[p].seq
  /\ seen_sequence[p] # 0 => last_seen[p] = accepted[p].at

\* The pending batch has later items than the last one appended; or it is that
\* one or an earlier one, and the table knows it as long as it may be retried.
PendingInv(p) ==
  pending_seq[p] # 0 =>
    /\ pending_seq[p] = sequence[p] + 1
    /\ 1 <= pending_from[p] /\ pending_from[p] <= batched[p]
    /\ pending_since[p] <= now
    /\ pending_seq[p] > accepted[p].seq => pending_from[p] > accepted[p].item
    /\ pending_seq[p] <= accepted[p].seq =>
         /\ pending_since[p] <= accepted[p].at
         /\ now - pending_since[p] <= MaxRetryDuration => pending_seq[p] <= seen_sequence[p]

\* The same of a signal that has not been handled.
MessageInv(m) ==
  /\ 1 <= m.lo /\ m.lo <= m.hi /\ m.hi <= batched[m.pub]
  /\ 1 <= m.seq /\ m.seq <= Top(m.pub)
  /\ m.since <= now
  /\ m.seq > accepted[m.pub].seq => m.lo > accepted[m.pub].item
  /\ m.seq <= accepted[m.pub].seq =>
       m.since <= accepted[m.pub].at /\ m.seq <= seen_sequence[m.pub]
  /\ pending_seq[m.pub] # 0 /\ m.seq < pending_seq[m.pub] => m.hi < pending_from[m.pub]

\* Of two batches of a publisher the one with the higher number has later items.
Ordered(m, n) == m.pub = n.pub /\ m.seq < n.seq => m.hi < n.lo

\* How old a signal on its way may be.
Timely(m) == m.sent <= m.since + MaxRetryDuration /\ now <= m.sent + MaxDelay

LogInv == \A i \in DOMAIN appended : appended[i][2] <= accepted[appended[i][1]].item

BatchInv ==
  /\ \A p \in Publishers : TableInv(p) /\ PendingInv(p)
  /\ \A m \in Live : MessageInv(m)
  /\ \A m, n \in Live : Ordered(m, n)
  /\ \A m \in net : Timely(m)
  /\ LogInv

IInv == Types /\ CallTypes /\ LockInv /\ BatchInv

-----------------------------------------------------------------------------
\* The numbers of a publisher, and the fields of a signal.
Numbers(p) ==
  /\ published[p] \in Nat /\ batched[p] \in Nat /\ pending_from[p] \in Nat
  /\ pending_seq[p] \in Nat /\ pending_since[p] \in Nat /\ sequence[p] \in Nat
  /\ seen_sequence[p] \in Nat /\ last_seen[p] \in Nat /\ now \in Nat
  /\ accepted[p].seq \in Nat /\ accepted[p].item \in Nat /\ accepted[p].at \in Nat

Fields(m) ==
  /\ m.pub \in Publishers
  /\ m.seq \in Nat /\ m.lo \in Nat /\ m.hi \in Nat /\ m.since \in Nat /\ m.sent \in Nat

\* What the invariant says of one publisher.
LEMMA PublisherFacts ==
  ASSUME IInv, NEW p \in Publishers
  PROVE  Numbers(p) /\ TableInv(p) /\ PendingInv(p)
<1>1. Numbers(p)
  <2>1. /\ published[p] \in Nat /\ batched[p] \in Nat /\ pending_from[p] \in Nat
        /\ pending_seq[p] \in Nat /\ pending_since[p] \in Nat /\ sequence[p] \in Nat
        /\ seen_sequence[p] \in Nat /\ last_seen[p] \in Nat /\ now \in Nat
        /\ accepted[p] \in [seq : Nat, item : Nat, at : Nat]
    BY Zenon DEF IInv, Types
  <2> QED
    BY <2>1 DEF Numbers
<1>2. TableInv(p) /\ PendingInv(p)
  BY DEF IInv, BatchInv
<1> QED
  BY <1>1, <1>2

\* The same of one signal that has not been handled.
LEMMA SignalFacts ==
  ASSUME IInv, NEW m \in Live
  PROVE  Fields(m) /\ MessageInv(m)
<1>1. m \in Messages
  BY DEF IInv, Types, Live
<1>2. Fields(m)
  BY <1>1 DEF Messages, Fields
<1>3. MessageInv(m)
  BY DEF IInv, BatchInv
<1> QED
  BY <1>2, <1>3

\* A step that changes no batch and brings no signal: at most the buffer grows.
LEMMA SameInv ==
  ASSUME IInv, Live' \subseteq Live,
         published' = published \/ \A p \in Publishers : batched[p] <= published'[p],
         UNCHANGED <<batched, pending_from, pending_seq, pending_since, sequence, net,
                     seen_sequence, last_seen, now, appended, accepted>>
  PROVE  BatchInv'
<1>1. ASSUME NEW p \in Publishers PROVE TableInv(p)' /\ PendingInv(p)'
  <2>1. TableInv(p) /\ PendingInv(p)
    BY PublisherFacts
  <2> QED
    BY <2>1 DEF TableInv, PendingInv, Top
<1>2. ASSUME NEW m \in Live PROVE MessageInv(m)'
  <2>1. MessageInv(m)
    BY SignalFacts
  <2> QED
    BY <2>1 DEF MessageInv, Top
<1>3. LogInv' /\ (\A m \in net : Timely(m)') /\ \A m, n \in Live : Ordered(m, n)'
  BY DEF IInv, BatchInv, LogInv, Timely, Ordered
<1> QED
  BY <1>1, <1>2, <1>3 DEF BatchInv

\* A batch is no longer pending and its number is the last one used: a batch given
\* up and a batch delivered do the same to everything the invariant speaks of.
LEMMA ReleaseInv ==
  ASSUME IInv, NEW p \in Publishers,
         pending_seq[p] # 0, pending_seq'[p] = 0, sequence'[p] = pending_seq[p],
         \A q \in Publishers : q # p =>
           /\ pending_seq'[q] = pending_seq[q] /\ sequence'[q] = sequence[q]
           /\ pending_from'[q] = pending_from[q] /\ pending_since'[q] = pending_since[q],
         UNCHANGED <<published, batched, net, serverVars>>
  PROVE  BatchInv'
<1>0. UNCHANGED <<published, batched, net, inbox, seen_sequence, last_seen, now, appended, accepted>>
  BY DEF serverVars, streamVars
<1>1. \A q \in Publishers : Top(q)' = Top(q)
  BY DEF Top
<1>2. ASSUME NEW q \in Publishers PROVE TableInv(q)' /\ PendingInv(q)'
  <2>1. TableInv(q) /\ PendingInv(q)
    BY PublisherFacts
  <2>2. TableInv(q)'
    BY <1>0, <1>1, <2>1 DEF TableInv
  <2>3. PendingInv(q)'
    BY <1>0, <2>1 DEF PendingInv
  <2> QED
    BY <2>2, <2>3
<1>3. Live' = Live
  BY <1>0 DEF Live
<1>4. ASSUME NEW m \in Live PROVE MessageInv(m)'
  <2>1. MessageInv(m) /\ m.pub \in Publishers
    BY SignalFacts DEF Fields
  <2> QED
    BY <1>0, <1>1, <2>1 DEF MessageInv
<1>5. LogInv' /\ (\A m \in net : Timely(m)') /\ \A m, n \in Live : Ordered(m, n)'
  BY <1>0 DEF IInv, BatchInv, LogInv, Timely, Ordered
<1> QED
  BY <1>0, <1>2, <1>3, <1>4, <1>5 DEF BatchInv

\* Publishing only lengthens the buffer.
LEMMA PublishInv ==
  ASSUME IInv, NEW p \in Publishers, Publish(p)
  PROVE  BatchInv'
<1>1. UNCHANGED <<batched, pending_from, pending_seq, pending_since, sequence, net, inbox,
                  seen_sequence, last_seen, now, appended, accepted>>
  BY DEF Publish, serverVars, streamVars
<1>2. ASSUME NEW q \in Publishers PROVE batched[q] <= published'[q]
  <2>1. Numbers(q) /\ TableInv(q)
    BY PublisherFacts
  <2>2. published'[q] = published[q] \/ published'[q] = published[q] + 1
    BY DEF Publish, IInv, Types
  <2> QED
    BY <2>1, <2>2 DEF Numbers, TableInv
<1>3. Live' = Live
  BY <1>1 DEF Live
<1> QED
  BY <1>1, <1>2, <1>3, SameInv

\* A new signal keeps what is said of the pairs of signals, of those on their way
\* and of the log.
LEMMA SignalInv ==
  ASSUME IInv, NEW k, k.seq \in Nat, Live' = Live \cup {k}, net' = net \cup {k},
         \A m \in Live : Ordered(m, k) /\ Ordered(k, m),
         Timely(k),
         UNCHANGED <<now, appended, accepted>>
  PROVE  LogInv' /\ (\A m \in net' : Timely(m)') /\ \A m, n \in Live' : Ordered(m, n)'
<1>1. Ordered(k, k)
  BY DEF Ordered
<1>2. \A m, n \in Live' : Ordered(m, n)
  BY <1>1 DEF IInv, BatchInv
<1>3. \A m, n : Ordered(m, n)' <=> Ordered(m, n)
  BY DEF Ordered
<1>4. \A m \in net' : Timely(m)
  BY DEF IInv, BatchInv
<1>5. \A m : Timely(m)' <=> Timely(m)
  BY DEF Timely
<1>6. LogInv'
  BY DEF IInv, BatchInv, LogInv
<1> QED
  BY <1>2, <1>3, <1>4, <1>5, <1>6

\* The pending batch is sent again.
LEMMA RetryInv ==
  ASSUME IInv, NEW p \in Publishers, NEW c \in Callers, RetryPending(p, c)
  PROVE  BatchInv'
<1>k. PICK k : k = [pub |-> p, seq |-> pending_seq[p], lo |-> pending_from[p], hi |-> batched[p],
                    since |-> pending_since[p], sent |-> now]
  BY Zenon
<1>1. /\ net' = net \cup {k}
      /\ pending_seq[p] # 0
      /\ now - pending_since[p] <= MaxRetryDuration
      /\ UNCHANGED <<published, batched, pending_from, pending_seq, pending_since, sequence,
                     inbox, seen_sequence, last_seen, now, appended, accepted>>
  BY <1>k DEF RetryPending, Signal, Pending, serverVars, streamVars
<1>2. /\ k.pub = p /\ k.seq = pending_seq[p] /\ k.lo = pending_from[p] /\ k.hi = batched[p]
      /\ k.since = pending_since[p] /\ k.sent = now
  BY <1>k
<1>3. Numbers(p) /\ TableInv(p) /\ PendingInv(p)
  BY PublisherFacts
<1>4. ASSUME NEW q \in Publishers PROVE TableInv(q)' /\ PendingInv(q)'
  <2>1. TableInv(q) /\ PendingInv(q)
    BY PublisherFacts
  <2> QED
    BY <1>1, <2>1 DEF TableInv, PendingInv, Top
<1>5. Live' = Live \cup {k}
  BY <1>1 DEF Live
<1>6. ASSUME NEW m \in Live PROVE MessageInv(m)'
  <2>1. MessageInv(m)
    BY SignalFacts
  <2> QED
    BY <1>1, <2>1 DEF MessageInv, Top
<1>7. MessageInv(k)'
  <2>1. MessageInv(k)
    BY <1>1, <1>2, <1>3, SMTT(20) DEF Numbers, PendingInv, MessageInv, Top
  <2> QED
    BY <1>1, <2>1 DEF MessageInv, Top
<1>8. ASSUME NEW m \in Live PROVE Ordered(m, k) /\ Ordered(k, m)
  <2>1. Fields(m) /\ MessageInv(m)
    BY SignalFacts
  <2> QED
    BY <1>1, <1>2, <1>3, <2>1 DEF Fields, Numbers, MessageInv, Top, Ordered
<1>9. Timely(k) /\ k.seq \in Nat
  BY <1>1, <1>2, <1>3, ConstantsAssumption DEF Numbers, Timely
<1>10. LogInv' /\ (\A m \in net' : Timely(m)') /\ \A m, n \in Live' : Ordered(m, n)'
  BY <1>1, <1>5, <1>8, <1>9, SignalInv
<1> QED
  BY <1>4, <1>5, <1>6, <1>7, <1>10 DEF BatchInv

\* A new batch has the next number and later items than every other.
LEMMA SendInv ==
  ASSUME IInv, NEW p \in Publishers, NEW c \in Callers, SendBatch(p, c)
  PROVE  BatchInv'
<1>k. PICK k : k = [pub |-> p, seq |-> sequence[p] + 1, lo |-> batched[p] + 1,
                    hi |-> published[p], since |-> now, sent |-> now]
  BY Zenon
<1>1. /\ net' = net \cup {k}
      /\ pending_seq[p] = 0 /\ batched[p] < published[p]
      /\ UNCHANGED <<published, sequence, inbox, seen_sequence, last_seen, now, appended, accepted>>
  BY <1>k DEF SendBatch, Signal, Pending, Buffered, serverVars, streamVars
<1>2. /\ k.pub = p /\ k.seq = sequence[p] + 1 /\ k.lo = batched[p] + 1 /\ k.hi = published[p]
      /\ k.since = now /\ k.sent = now
  BY <1>k
<1>3. /\ batched'[p] = published[p] /\ pending_from'[p] = batched[p] + 1
      /\ pending_seq'[p] = sequence[p] + 1 /\ pending_since'[p] = now
  BY DEF SendBatch, IInv, Types
<1>4. \A q \in Publishers : q # p =>
        /\ batched'[q] = batched[q] /\ pending_from'[q] = pending_from[q]
        /\ pending_seq'[q] = pending_seq[q] /\ pending_since'[q] = pending_since[q]
  BY DEF SendBatch, IInv, Types
<1>5. Numbers(p) /\ TableInv(p)
  BY PublisherFacts
<1>t. Top(p)' = sequence[p] + 1
  <2>1. sequence[p] \in Nat
    BY <1>5, Zenon DEF Numbers
  <2>2. sequence[p] + 1 # 0
    BY <2>1
  <2> QED
    BY <1>3, <2>2, Zenon DEF Top
<1>6. TableInv(p)'
  BY <1>1, <1>3, <1>5 DEF Numbers, TableInv, Top
<1>7. PendingInv(p)'
  BY <1>1, <1>3, <1>5 DEF Numbers, TableInv, PendingInv, Top
<1>8. ASSUME NEW q \in Publishers, q # p PROVE TableInv(q)' /\ PendingInv(q)'
  <2>1. TableInv(q) /\ PendingInv(q)
    BY PublisherFacts
  <2> QED
    BY <1>1, <1>4, <1>8, <2>1 DEF TableInv, PendingInv, Top
<1>9. Live' = Live \cup {k}
  BY <1>1 DEF Live
<1>10. ASSUME NEW m \in Live PROVE MessageInv(m)' /\ Ordered(m, k) /\ Ordered(k, m)
  <2>1. MessageInv(m) /\ Fields(m)
    BY SignalFacts
  <2>2. CASE m.pub # p
    BY <1>1, <1>2, <1>4, <2>1, <2>2 DEF Fields, MessageInv, Ordered, Top
  <2>3. CASE m.pub = p
    <3>0. /\ sequence[p] \in Nat /\ batched[p] \in Nat /\ published[p] \in Nat
          /\ m.seq \in Nat /\ m.hi \in Nat
      BY <1>5, <2>1, Zenon DEF Numbers, Fields
    <3>1. m.seq <= sequence[p] /\ m.hi <= batched[p]
      BY <1>1, <2>1, <2>3, Zenon DEF MessageInv, Top
    <3>2. MessageInv(m)'
      <4>1. m.seq <= Top(p)' /\ m.hi <= batched'[p] /\ m.hi < pending_from'[p]
        BY <1>1, <1>3, <1>t, <3>0, <3>1, SMTT(20)
      <4>2. /\ 1 <= m.lo /\ m.lo <= m.hi /\ 1 <= m.seq /\ m.since <= now
            /\ m.seq > accepted[p].seq => m.lo > accepted[p].item
            /\ m.seq <= accepted[p].seq => m.since <= accepted[p].at /\ m.seq <= seen_sequence[p]
        BY <2>1, <2>3, Zenon DEF MessageInv
      <4> QED
        BY <1>1, <2>3, <4>1, <4>2, Zenon DEF MessageInv
    <3>3. Ordered(m, k) /\ Ordered(k, m)
      BY <1>2, <3>0, <3>1 DEF Ordered
    <3> QED
      BY <3>2, <3>3
  <2> QED
    BY <2>2, <2>3
<1>11. MessageInv(k)'
  <2>1. accepted[p].seq <= sequence[p] /\ accepted[p].item <= batched[p]
    BY <1>1, <1>5, Zenon DEF TableInv, Top
  <2> QED
    <3>0. /\ sequence[p] \in Nat /\ batched[p] \in Nat /\ published[p] \in Nat /\ now \in Nat
          /\ accepted[p].seq \in Nat /\ accepted[p].item \in Nat
      BY <1>5, ZenonT(30) DEF Numbers
    <3>1. /\ 1 <= k.lo /\ k.lo <= k.hi /\ k.hi <= batched'[p] /\ 1 <= k.seq /\ k.since <= now'
          /\ k.seq <= Top(p)' /\ k.lo > accepted[p].item
          /\ ~(k.seq <= accepted[p].seq) /\ ~(k.seq < pending_seq'[p])
      BY <1>1, <1>2, <1>3, <1>t, <2>1, <3>0, SMTT(20)
    <3> QED
      BY <1>1, <1>2, <3>1, Zenon DEF MessageInv
<1>12. Timely(k) /\ k.seq \in Nat
  BY <1>2, <1>5, ConstantsAssumption, SMTT(30) DEF Numbers, Timely
<1>13. LogInv' /\ (\A m \in net' : Timely(m)') /\ \A m, n \in Live' : Ordered(m, n)'
  BY <1>1, <1>9, <1>10, <1>12, SignalInv, Zenon
<1> QED
  BY <1>6, <1>7, <1>8, <1>9, <1>10, <1>11, <1>13 DEF BatchInv

-----------------------------------------------------------------------------
\* The initial state satisfies the invariant.
LEMMA InitInv == Init => IInv
<1> SUFFICES ASSUME Init PROVE IInv
  OBVIOUS
<1> USE DEF Init, StreamInit
<1>1. Types
  BY DEF Types
<1>2. CallTypes /\ LockInv
  BY DEF CallTypes, LockInv
<1>3. Live = {}
  BY DEF Live
<1>4. \A p \in Publishers : TableInv(p) /\ PendingInv(p)
  BY DEF TableInv, PendingInv, Top
<1>5. LogInv
  BY DEF LogInv
<1> QED
  BY <1>1, <1>2, <1>3, <1>4, <1>5 DEF IInv, BatchInv

\* The steps of a caller that change neither the batches nor a signal.
Frame == UNCHANGED <<clientVars, net, reached, serverVars>>

\* Every step is one of these.
Step ==
  \/ Frame
  \/ \E p \in Publishers : Publish(p)
  \/ \E p \in Publishers, c \in Callers :
       DropPending(p, c) \/ RetryPending(p, c) \/ SendBatch(p, c) \/ SignalDone(p, c)
  \/ \E m \in net : Receive(m)
  \/ Handle \/ ContinueAsNew \/ Tick

\* A step of a caller of _flush that only moves its program counter is a Frame.
LEMMA NextIsStep == [Next]_vars => Step
<1> SUFFICES ASSUME [Next]_vars PROVE Step
  OBVIOUS
<1>1. CASE UNCHANGED vars
  BY <1>1 DEF vars, Step, Frame
<1>2. ASSUME NEW p \in Publishers,
             Enter(p) \/ Wake(p) \/ Exit(p) \/ CancelLost(p) \/ JoinRaises(p)
      PROVE  Frame
  BY <1>2 DEF Enter, Wake, Exit, CancelLost, JoinRaises, Frame
<1>3. ASSUME NEW p \in Publishers, NEW c \in Callers,
             \/ Queue(p, c) \/ EncodeFails(p, c) \/ NothingToFlush(p, c)
             \/ SignalFails(p, c) \/ LeaveLoop(p, c) \/ CallFlush(p, c)
      PROVE  Frame
  BY <1>3 DEF Queue, EncodeFails, NothingToFlush, SignalFails, LeaveLoop, CallFlush, Frame
<1> QED
  BY <1>1, <1>2, <1>3 DEF Next, FlushStep, Step

-----------------------------------------------------------------------------
\* Types are kept.
LEMMA TypesStep == IInv /\ Step => Types'
<1> SUFFICES ASSUME Types, CallTypes, LockInv, Step PROVE Types'
  BY DEF IInv
<1>1. CASE Frame
  BY <1>1, Zenon DEF Types, Frame, clientVars, serverVars, streamVars
<1>2. ASSUME NEW p \in Publishers, Publish(p)
      PROVE  Types'
  <2>1. published' \in [Publishers -> Nat]
    <3>1. published \in [Publishers -> Nat]
      BY Zenon DEF Types
    <3> QED
      BY <1>2, <3>1 DEF Publish
  <2> QED
    BY <1>2, <2>1, Zenon DEF Types, Publish, serverVars, streamVars
<1>3. ASSUME NEW p \in Publishers, NEW c \in Callers, DropPending(p, c)
      PROVE  Types'
  BY <1>3, Zenon DEF Types, DropPending, serverVars, streamVars
<1>4. ASSUME NEW p \in Publishers, NEW c \in Callers, RetryPending(p, c)
      PROVE  Types'
  <2>1. net' \subseteq Messages
    <3>1. /\ pending_seq[p] \in Nat /\ pending_from[p] \in Nat /\ batched[p] \in Nat
          /\ pending_since[p] \in Nat /\ now \in Nat /\ net \subseteq Messages
      BY Zenon DEF Types
    <3>2. net' = net \cup {[pub |-> p, seq |-> pending_seq[p], lo |-> pending_from[p],
                            hi |-> batched[p], since |-> pending_since[p], sent |-> now]}
      BY <1>4, Zenon DEF RetryPending, Signal
    <3> QED
      BY <3>1, <3>2 DEF Messages
  <2> QED
    BY <1>4, <2>1, Zenon DEF Types, RetryPending, Signal, serverVars, streamVars
<1>5. ASSUME NEW p \in Publishers, NEW c \in Callers, SendBatch(p, c)
      PROVE  Types'
  <2>1. published[p] \in Nat /\ batched[p] + 1 \in Nat /\ sequence[p] + 1 \in Nat /\ now \in Nat
    <3>1. published[p] \in Nat /\ batched[p] \in Nat /\ sequence[p] \in Nat /\ now \in Nat
      BY Zenon DEF Types
    <3> QED
      BY <3>1
  <2>2. net' \subseteq Messages
    <3>1. net \subseteq Messages
      BY Zenon DEF Types
    <3>2. net' = net \cup {[pub |-> p, seq |-> sequence[p] + 1, lo |-> batched[p] + 1,
                            hi |-> published[p], since |-> now, sent |-> now]}
      BY <1>5, Zenon DEF SendBatch, Signal
    <3> QED
      BY <2>1, <3>1, <3>2 DEF Messages
  <2>3. /\ batched' \in [Publishers -> Nat] /\ pending_from' \in [Publishers -> Nat]
        /\ pending_seq' \in [Publishers -> Nat] /\ pending_since' \in [Publishers -> Nat]
    BY <1>5, <2>1, Zenon DEF Types, SendBatch
  <2> QED
    BY <1>5, <2>2, <2>3, Zenon DEF Types, SendBatch, Signal, serverVars, streamVars
<1>6. ASSUME NEW p \in Publishers, NEW c \in Callers, SignalDone(p, c)
      PROVE  Types'
  BY <1>6, Zenon DEF Types, CallTypes, SignalDone, serverVars, streamVars
<1>7. ASSUME NEW m \in net, Receive(m)
      PROVE  Types'
  BY <1>7, SMTT(20) DEF Types, Receive, clientVars, streamVars
<1>8. CASE Handle
  <2> DEFINE m == Head(inbox)
  <2>1. m \in Messages /\ Tail(inbox) \in Seq(Messages)
    BY <1>8 DEF Handle, Types
  <2> HIDE DEF m
  <2>2. m.pub \in Publishers /\ m.seq \in Nat /\ m.lo \in Nat /\ m.hi \in Nat
    BY <2>1 DEF Messages
  <2>3. Batch(m.pub, m.lo, m.hi) \in Seq(Publishers \X Nat)
    BY <2>2, SMTT(20) DEF Batch
  <2>4. OnPublish(m) /\ inbox' = Tail(inbox) /\ UNCHANGED <<clientVars, net>>
    BY <1>8 DEF Handle, m
  <2>5. /\ accepted' = IF m.seq <= seen_sequence[m.pub] THEN accepted
                       ELSE [accepted EXCEPT ![m.pub] = [seq |-> m.seq, item |-> m.hi, at |-> now]]
    BY <1>8 DEF Handle, m
  <2>6. accepted' \in [Publishers -> [seq : Nat, item : Nat, at : Nat]]
    BY <2>2, <2>5 DEF Types
  <2>7. /\ seen_sequence' \in [Publishers -> Nat]
        /\ last_seen' \in [Publishers -> Nat]
        /\ now' \in Nat
        /\ appended' \in Seq(Publishers \X Nat)
    <3>1. CASE m.seq <= seen_sequence[m.pub]
      BY <2>4, <3>1, Zenon DEF OnPublish, Types, streamVars
    <3>2. CASE ~(m.seq <= seen_sequence[m.pub])
      <4>1. appended' = appended \o Batch(m.pub, m.lo, m.hi)
        BY <2>4, <3>2 DEF OnPublish, Grow
      <4>2. appended' \in Seq(Publishers \X Nat)
        BY <2>3, <4>1 DEF Types
      <4> QED
        BY <2>2, <2>4, <3>2, <4>2, Zenon DEF OnPublish, Types
    <3> QED
      BY <3>1, <3>2
  <2> QED
    BY <2>1, <2>4, <2>6, <2>7, Zenon DEF Types, clientVars
<1>9. CASE ContinueAsNew
  BY <1>9 DEF Types, ContinueAsNew, NextRun, clientVars
<1>10. CASE Tick
  BY <1>10 DEF Types, Tick, clientVars
<1> QED
  BY <1>1, <1>2, <1>3, <1>4, <1>5, <1>6, <1>7, <1>8, <1>9, <1>10 DEF Step

\* A caller's program counter and the number of its signal keep their types.
LEMMA CallTypesStep == IInv /\ [Next]_vars => CallTypes'
<1> SUFFICES ASSUME Types, CallTypes, [Next]_vars PROVE CallTypes'
  BY DEF IInv
<1>1. CASE UNCHANGED vars
  BY <1>1 DEF vars, CallTypes
<1>2. ASSUME NEW p \in Publishers, Enter(p) \/ Wake(p) \/ Publish(p) \/ Exit(p)
      PROVE  CallTypes'
  BY <1>2 DEF CallTypes, Enter, Wake, Publish, Exit, Goto, Callers
<1>3. ASSUME NEW p \in Publishers, NEW c \in Callers, FlushStep(p, c)
      PROVE  CallTypes'
  <2>1. Raised(c) \in {"dead", "failed", "idle"} /\ Returned(c) \in {"waiting", "calling"}
    BY DEF Raised, Returned
  <2>2. CASE Queue(p, c) \/ EncodeFails(p, c) \/ NothingToFlush(p, c) \/ LeaveLoop(p, c)
    BY <2>1, <2>2 DEF CallTypes, Queue, EncodeFails, NothingToFlush, LeaveLoop, Goto
  <2>3. CASE DropPending(p, c) \/ SignalDone(p, c) \/ SignalFails(p, c)
    <3>1. /\ \E l \in {"dead", "failed", "idle", "waiting", "calling"} : Goto(p, c, l)
          /\ sending' = sending \/ sending' = [sending EXCEPT ![<<p, c>>] = 0]
      BY <2>1, <2>3, Zenon DEF DropPending, SignalDone, SignalFails
    <3> QED
      BY <3>1 DEF CallTypes, Goto
  <2>4. CASE RetryPending(p, c)
    <3>1. pending_seq[p] \in Nat
      BY DEF Types
    <3> QED
      BY <2>4, <3>1 DEF CallTypes, RetryPending, Signal, Goto
  <2>5. CASE SendBatch(p, c)
    <3>1. sequence[p] + 1 \in Nat
      BY DEF Types
    <3> QED
      BY <2>5, <3>1 DEF CallTypes, SendBatch, Signal, Goto
  <2> QED
    BY <1>3, <2>2, <2>3, <2>4, <2>5 DEF FlushStep
<1>4. ASSUME NEW p \in Publishers, NEW c \in Callers, CallFlush(p, c)
      PROVE  CallTypes'
  BY <1>4 DEF CallTypes, CallFlush, Goto
<1>5. CASE (\E m \in net : Receive(m)) \/ Handle \/ ContinueAsNew \/ Tick
  BY <1>5, Zenon DEF CallTypes, Receive, Handle, ContinueAsNew, Tick
<1>6. ASSUME NEW p \in Publishers, CancelLost(p) \/ JoinRaises(p)
      PROVE  CallTypes'
  BY <1>6 DEF CallTypes, CancelLost, JoinRaises, Goto, Callers
<1> QED
  BY <1>1, <1>2, <1>3, <1>4, <1>5, <1>6 DEF Next

\* A step of one caller keeps the flush lock if the caller does not hold it
\* afterwards and leaves the pending batch of another holder alone, or if it takes
\* the free lock for the pending batch.
LEMMA LockAt ==
  ASSUME CallTypes, LockInv, NEW p \in Publishers, NEW c \in Callers, NEW l, Goto(p, c, l),
         \A q \in Publishers, d \in Callers :
           q # p \/ d # c => sending'[<<q, d>>] = sending[<<q, d>>],
         \A q \in Publishers : q # p => pending_seq'[q] = pending_seq[q],
         \/ l # "sending" /\ pending_seq'[p] = pending_seq[p]
         \/ l # "sending" /\ (Free(p) \/ pc[<<p, c>>] = "sending")
         \/ l = "sending" /\ Free(p) /\ sending'[<<p, c>>] = pending_seq'[p] /\ pending_seq'[p] # 0
  PROVE  LockInv'
<1>1. \A q \in Publishers, d \in Callers :
        pc'[<<q, d>>] = IF q = p /\ d = c THEN l ELSE pc[<<q, d>>]
  BY DEF CallTypes, Goto
<1> QED
  BY <1>1 DEF LockInv, Free

\* The flush lock is kept.
LEMMA LockStep == IInv /\ [Next]_vars => LockInv'
<1> SUFFICES ASSUME Types, CallTypes, LockInv, [Next]_vars PROVE LockInv'
  BY DEF IInv
<1> USE DEF clientVars
<1>1. ASSUME NEW p \in Publishers, Exit(p) \/ CancelLost(p) \/ JoinRaises(p)
      PROVE  LockInv'
  <2>1. "flusher" \in Callers /\ "exit" \in Callers
    BY DEF Callers
  <2>2. \A q \in Publishers, d \in Callers :
          \/ pc'[<<q, d>>] # "sending"
          \/ /\ pc'[<<q, d>>] = pc[<<q, d>>]
             /\ sending'[<<q, d>>] = sending[<<q, d>>]
    <3>1. CASE Exit(p)
      BY <3>1, <2>1, SMTT(30) DEF Exit, CallTypes
    <3>2. CASE CancelLost(p) \/ JoinRaises(p)
      BY <3>2, <2>1, SMTT(30) DEF CancelLost, JoinRaises, Goto, CallTypes
    <3> QED
      BY <1>1, <3>1, <3>2
  <2>3. UNCHANGED pending_seq
    BY <1>1 DEF Exit, CancelLost, JoinRaises
  <2> QED
    BY <2>2, <2>3 DEF LockInv
<1>2. ASSUME NEW p \in Publishers, Enter(p) \/ Wake(p)
      PROVE  LockInv'
  <2>1. PICK l \in {"waiting", "calling"} : Goto(p, "flusher", l) /\ UNCHANGED <<sending, pending_seq>>
    BY <1>2 DEF Enter, Wake
  <2> QED
    BY <2>1, LockAt, Zenon DEF Callers
<1>3. ASSUME NEW p \in Publishers, NEW c \in Callers, FlushStep(p, c) \/ CallFlush(p, c)
      PROVE  LockInv'
  <2>1. Raised(c) # "sending" /\ Returned(c) # "sending"
    BY DEF Raised, Returned
  <2>2. CASE \/ Queue(p, c) \/ EncodeFails(p, c) \/ NothingToFlush(p, c)
             \/ LeaveLoop(p, c) \/ CallFlush(p, c)
    <3>1. PICK l : l # "sending" /\ Goto(p, c, l) /\ UNCHANGED <<sending, pending_seq>>
      BY <2>1, <2>2, Zenon DEF Queue, EncodeFails, NothingToFlush, LeaveLoop, CallFlush
    <3> QED
      BY <3>1, LockAt, Zenon
  <2>3. CASE DropPending(p, c)
    <3>1. /\ Goto(p, c, Raised(c)) /\ Free(p) /\ UNCHANGED sending
          /\ \A q \in Publishers : q # p => pending_seq'[q] = pending_seq[q]
      BY <2>3, Zenon DEF DropPending, MayRun, Types
    <3> QED
      BY <2>1, <3>1, LockAt, Zenon
  <2>4. CASE SignalDone(p, c) \/ SignalFails(p, c)
    <3>1. \A q \in Publishers, d \in Callers :
            q # p \/ d # c => sending'[<<q, d>>] = sending[<<q, d>>]
      BY <2>4 DEF SignalDone, SignalFails, CallTypes
    <3>2. /\ pc[<<p, c>>] = "sending" /\ \E l \in {Raised(c), Returned(c)} : Goto(p, c, l)
          /\ \A q \in Publishers : q # p => pending_seq'[q] = pending_seq[q]
      BY <2>4, Zenon DEF SignalDone, SignalFails, Types
    <3> QED
      BY <2>1, <3>1, <3>2, LockAt
  <2>5. CASE RetryPending(p, c) \/ SendBatch(p, c)
    <3>1. PICK n \in Nat : /\ sending' = [sending EXCEPT ![<<p, c>>] = n]
                           /\ n = pending_seq'[p] /\ n # 0
      <4>1. CASE RetryPending(p, c)
        BY <4>1, Zenon DEF RetryPending, Signal, Pending, Types
      <4>2. CASE SendBatch(p, c)
        <5>1. sequence[p] + 1 \in Nat \ {0} /\ pending_seq'[p] = sequence[p] + 1
          <6>1. sequence[p] \in Nat /\ pending_seq \in [Publishers -> Nat]
            BY Zenon DEF Types
          <6> QED
            BY <4>2, <6>1 DEF SendBatch
        <5> QED
          BY <4>2, <5>1, Zenon DEF SendBatch, Signal
      <4> QED
        BY <2>5, <4>1, <4>2
    <3>2. \A q \in Publishers, d \in Callers :
            sending'[<<q, d>>] = IF q = p /\ d = c THEN n ELSE sending[<<q, d>>]
      BY <3>1 DEF CallTypes
    <3>3. /\ Goto(p, c, "sending") /\ Free(p)
          /\ \A q \in Publishers : q # p => pending_seq'[q] = pending_seq[q]
      BY <2>5, Zenon DEF RetryPending, SendBatch, Signal, MayRun, Types
    <3> QED
      BY <3>1, <3>2, <3>3, LockAt
  <2> QED
    BY <1>3, <2>2, <2>3, <2>4, <2>5 DEF FlushStep
<1>4. CASE \/ UNCHANGED vars \/ (\E p \in Publishers : Publish(p))
           \/ (\E m \in net : Receive(m)) \/ Handle \/ ContinueAsNew \/ Tick
  <2>1. UNCHANGED <<pc, sending, pending_seq>>
    BY <1>4, Zenon DEF vars, Publish, Receive, Handle, ContinueAsNew, Tick
  <2> QED
    BY <2>1 DEF LockInv
<1> QED
  BY <1>1, <1>2, <1>3, <1>4 DEF Next

-----------------------------------------------------------------------------
\* The items of a batch that is appended.
LEMMA BatchItems ==
  ASSUME appended \in Seq(Publishers \X Nat), NEW p \in Publishers, NEW lo \in Nat, NEW hi \in Nat,
         lo <= hi, appended' = appended \o Batch(p, lo, hi)
  PROVE  /\ \A i \in DOMAIN appended : i \in DOMAIN appended' /\ appended'[i] = appended[i]
         /\ \A n \in Nat : lo <= n /\ n <= hi => \E i \in DOMAIN appended' : appended'[i] = <<p, n>>
         /\ \A i \in DOMAIN appended' : i \in DOMAIN appended \/ \E n \in lo..hi : appended'[i] = <<p, n>>
<1> DEFINE b == Batch(p, lo, hi)
<1>1. hi - lo + 1 \in Nat
  OBVIOUS
<1>2. b \in Seq(Publishers \X Nat) /\ Len(b) = hi - lo + 1
  BY <1>1, SMTT(30) DEF Batch
<1>3. \A j \in 1..(hi - lo + 1) : b[j] = <<p, lo + j - 1>>
  BY <1>1, Zenon DEF Batch
<1> HIDE DEF b
<1>4. appended' = appended \o b
  BY DEF b
<1>5. \A i \in DOMAIN appended : i \in DOMAIN appended' /\ appended'[i] = appended[i]
  BY <1>2, <1>4
<1>6. ASSUME NEW n \in Nat, lo <= n, n <= hi
      PROVE  \E i \in DOMAIN appended' : appended'[i] = <<p, n>>
  <2>1. PICK j \in 1..(hi - lo + 1) : lo + j - 1 = n
    <3>1. n - lo + 1 \in 1..(hi - lo + 1) /\ lo + (n - lo + 1) - 1 = n
      BY <1>6
    <3> QED
      BY <3>1
  <2>2. Len(appended) + j \in DOMAIN appended' /\ appended'[Len(appended) + j] = b[j]
    BY <1>2, <1>4
  <2>3. b[j] = <<p, n>>
    BY <1>3, <2>1, Zenon
  <2> QED
    BY <2>2, <2>3, Zenon
<1>7. ASSUME NEW i \in DOMAIN appended', i \notin DOMAIN appended
      PROVE  \E n \in lo..hi : appended'[i] = <<p, n>>
  <2>1. i - Len(appended) \in 1..(hi - lo + 1) /\ appended'[i] = b[i - Len(appended)]
    BY <1>2, <1>4, <1>7
  <2>2. PICK j \in 1..(hi - lo + 1) : j = i - Len(appended)
    BY <2>1
  <2>3. lo + j - 1 \in lo..hi
    OBVIOUS
  <2> QED
    BY <1>3, <2>1, <2>2, <2>3, Zenon
<1> QED
  BY <1>5, <1>6, <1>7, Zenon

\* A signal the table does not know is of a batch later than the last one appended.
LEMMA NewBatch ==
  ASSUME IInv, NEW m \in Live, m.seq > seen_sequence[m.pub]
  PROVE  m.seq > accepted[m.pub].seq /\ m.lo > accepted[m.pub].item
<1>1. MessageInv(m) /\ Fields(m)
  BY SignalFacts
<1>2. Numbers(m.pub)
  BY <1>1, PublisherFacts DEF Fields
<1> QED
  BY <1>1, <1>2 DEF MessageInv, Fields, Numbers

\* The signal handled next, and those that stay in the inbox, are unhandled ones.
LEMMA HeadLive ==
  ASSUME Types, inbox # <<>>
  PROVE  Head(inbox) \in Live /\ {Tail(inbox)[i] : i \in DOMAIN Tail(inbox)} \subseteq Live
<1>1. inbox \in Seq(Messages) /\ Len(inbox) >= 1
  BY DEF Types
<1>2. Head(inbox) = inbox[1] /\ 1 \in DOMAIN inbox
  BY <1>1
<1>3. \A i \in DOMAIN Tail(inbox) : Tail(inbox)[i] = inbox[i + 1] /\ i + 1 \in DOMAIN inbox
  BY <1>1
<1> QED
  BY <1>2, <1>3 DEF Live

\* Handling a signal: one the table knows changes nothing, and the batch of any
\* other becomes the last one appended.
LEMMA HandleInv ==
  ASSUME IInv, Handle
  PROVE  BatchInv'
<1> USE DEF clientVars
<1>m. PICK m : m = Head(inbox)
  OBVIOUS
<1>1. Types /\ m \in Live
  BY <1>m, HeadLive DEF IInv, Handle
<1>2. Fields(m) /\ MessageInv(m) /\ Numbers(m.pub)
  BY <1>1, SignalFacts, PublisherFacts DEF Fields
<1>3. /\ OnPublish(m)
      /\ accepted' = IF m.seq <= seen_sequence[m.pub] THEN accepted
                     ELSE [accepted EXCEPT ![m.pub] = [seq |-> m.seq, item |-> m.hi, at |-> now]]
      /\ UNCHANGED <<clientVars, net>>
  BY <1>m DEF Handle
<1>4. Live' \subseteq Live
  BY <1>1, HeadLive DEF Handle, Live
<1>5. CASE m.seq <= seen_sequence[m.pub]
  <2>1. UNCHANGED <<published, batched, pending_from, pending_seq, pending_since, sequence, net,
                    seen_sequence, last_seen, now, appended, accepted>>
    BY <1>3, <1>5, ZenonT(30) DEF OnPublish, streamVars
  <2> QED
    BY <1>4, <2>1, SameInv
<1>6. CASE m.seq > seen_sequence[m.pub]
  <2>0. /\ accepted' = [accepted EXCEPT ![m.pub] = [seq |-> m.seq, item |-> m.hi, at |-> now]]
        /\ seen_sequence' = [seen_sequence EXCEPT ![m.pub] = m.seq]
        /\ last_seen' = [last_seen EXCEPT ![m.pub] = now]
        /\ appended' = appended \o Batch(m.pub, m.lo, m.hi)
        /\ UNCHANGED <<clientVars, net, now>>
    <3>1. ~(m.seq <= seen_sequence[m.pub])
      BY <1>2, <1>6 DEF Fields, Numbers
    <3> QED
      BY <1>3, <3>1 DEF OnPublish, Grow
  <2>1. /\ UNCHANGED <<clientVars, net, now>>
        /\ appended' = appended \o Batch(m.pub, m.lo, m.hi)
        /\ seen_sequence'[m.pub] = m.seq /\ last_seen'[m.pub] = now
        /\ accepted'[m.pub].seq = m.seq /\ accepted'[m.pub].item = m.hi
        /\ accepted'[m.pub].at = now
    <3>1. accepted'[m.pub] = [seq |-> m.seq, item |-> m.hi, at |-> now]
      BY <1>1, <1>2, <2>0, Zenon DEF Types, Fields
    <3>2. seen_sequence'[m.pub] = m.seq /\ last_seen'[m.pub] = now
      BY <1>1, <1>2, <2>0, Zenon DEF Types, Fields
    <3> QED
      BY <2>0, <3>1, <3>2
  <2>2. \A p \in Publishers : p # m.pub =>
          /\ seen_sequence'[p] = seen_sequence[p] /\ last_seen'[p] = last_seen[p]
          /\ accepted'[p] = accepted[p]
    BY <1>1, <1>2, <2>0 DEF Types, Fields
  <2>3. m.seq > accepted[m.pub].seq /\ m.lo > accepted[m.pub].item
    BY <1>1, <1>6, NewBatch
  <2>5. ASSUME NEW p \in Publishers PROVE TableInv(p)' /\ PendingInv(p)'
    <3>1. Numbers(p) /\ TableInv(p) /\ PendingInv(p)
      BY PublisherFacts, ZenonT(30)
    <3>2. CASE p # m.pub
      BY <2>1, <2>2, <3>1, <3>2 DEF TableInv, PendingInv, Top
    <3>3. CASE p = m.pub
      <4>1. TableInv(p)'
        <5>1. Numbers(m.pub) /\ TableInv(m.pub) /\ Top(m.pub)' = Top(m.pub)
          BY <2>1, <3>1, <3>3, ZenonT(30) DEF Top
        <5>2. m.hi <= batched[m.pub] /\ m.seq <= Top(m.pub) /\ now \in Nat /\ m.seq \in Nat
          BY <1>2, ZenonT(30) DEF Fields, Numbers, MessageInv
        <5>3. batched' = batched /\ published' = published /\ now' = now
          BY <2>1, ZenonT(30) DEF clientVars
        <5>4. batched[m.pub] <= published[m.pub] /\ now <= now /\ m.seq <= m.seq
          BY <5>1, <5>2 DEF TableInv
        <5>5. TableInv(m.pub)'
          BY <2>1, <5>1, <5>2, <5>3, <5>4, Zenon DEF TableInv
        <5> QED
          BY <3>3, <5>5, ZenonT(30)
      <4>2. PendingInv(p)'
        BY <1>2, <2>1, <2>3, <3>1, <3>3, ZenonT(30) DEF Fields, Numbers, PendingInv, MessageInv, Top
      <4> QED
        BY <4>1, <4>2
    <3> QED
      BY <3>2, <3>3
  <2>6. ASSUME NEW n \in Live PROVE MessageInv(n)'
    <3>1. MessageInv(n) /\ Fields(n)
      BY SignalFacts, ZenonT(30)
    <3>2. CASE n.pub # m.pub
      BY <2>1, <2>2, <3>1, <3>2, ZenonT(30) DEF Fields, MessageInv, Top
    <3>3. CASE n.pub = m.pub
      <4>1. Ordered(m, n)
        BY <1>1, Zenon DEF IInv, BatchInv
      <4> QED
        BY <1>2, <2>1, <3>1, <3>3, <4>1, Zenon DEF Fields, Numbers, MessageInv, Ordered, Top
    <3> QED
      BY <3>2, <3>3
  <2>7. LogInv'
    <3>1. appended \in Seq(Publishers \X Nat)
      BY <1>1, Zenon DEF Types
    <3>0. m.pub \in Publishers /\ m.lo \in Nat /\ m.hi \in Nat /\ m.lo <= m.hi
      BY <1>2, Zenon DEF Fields, MessageInv
    <3>2. /\ \A i \in DOMAIN appended : appended'[i] = appended[i]
          /\ \A i \in DOMAIN appended' :
               i \in DOMAIN appended \/ \E n \in m.lo..m.hi : appended'[i] = <<m.pub, n>>
      BY <2>1, <3>0, <3>1, BatchItems, ZenonT(30)
    <3>3. ASSUME NEW i \in DOMAIN appended PROVE appended[i][2] <= accepted'[appended[i][1]].item
      <4>1. appended[i][1] \in Publishers /\ appended[i][2] \in Nat
        BY <3>1
      <4>2. appended[i][2] <= accepted[appended[i][1]].item
        BY Zenon DEF IInv, BatchInv, LogInv
      <4>3. CASE appended[i][1] = m.pub
        <5>1. accepted[m.pub].item < m.hi /\ m.hi \in Nat /\ accepted[m.pub].item \in Nat
          BY <1>2, <2>3 DEF Fields, Numbers, MessageInv
        <5>2. appended[i][2] <= m.hi
          BY <4>1, <4>2, <4>3, <5>1
        <5> QED
          BY <2>1, <4>3, <5>2
      <4>4. CASE appended[i][1] # m.pub
        BY <2>2, <4>1, <4>2, <4>4, Zenon
      <4> QED
        BY <4>3, <4>4, Zenon
    <3>4. ASSUME NEW i \in DOMAIN appended', NEW n \in m.lo..m.hi, appended'[i] = <<m.pub, n>>
          PROVE  appended'[i][2] <= accepted'[appended'[i][1]].item
      BY <1>2, <2>1, <3>4 DEF Fields
    <3> QED
      BY <3>2, <3>3, <3>4 DEF LogInv
  <2>8. (\A n \in net : Timely(n)') /\ \A n, k \in Live : Ordered(n, k)'
    BY <2>1 DEF IInv, BatchInv, Timely, Ordered
  <2> QED
    BY <1>4, <2>1, <2>5, <2>6, <2>7, <2>8 DEF BatchInv
<1> QED
  BY <1>2, <1>5, <1>6 DEF Fields, Numbers

\* A signal that arrives is one that was on its way.
LEMMA ReceiveInv ==
  ASSUME IInv, NEW m \in net, Receive(m)
  PROVE  BatchInv'
<1>1. /\ inbox' = Append(inbox, m)
      /\ UNCHANGED <<published, batched, pending_from, pending_seq, pending_since, sequence, net,
                     seen_sequence, last_seen, now, appended, accepted>>
  BY DEF Receive, clientVars, streamVars
<1>2. Live' \subseteq Live
  <2>1. inbox \in Seq(Messages) /\ m \in Messages
    BY DEF IInv, Types
  <2>2. ASSUME NEW i \in DOMAIN inbox'
        PROVE  inbox'[i] = m \/ \E j \in DOMAIN inbox : inbox'[i] = inbox[j]
    BY <1>1, <2>1
  <2> QED
    BY <1>1, <2>2 DEF Live
<1> QED
  BY <1>1, <1>2, SameInv

\* The clock advances and the signals that are too old are lost.
LEMMA TickInv ==
  ASSUME IInv, Tick
  PROVE  BatchInv'
<1>1. /\ now' = now + 1
      /\ net' \subseteq net
      /\ \A m \in net' : m.sent + MaxDelay >= now + 1
      /\ UNCHANGED <<published, batched, pending_from, pending_seq, pending_since, sequence,
                     seen_sequence, last_seen, appended, inbox, accepted>>
  BY DEF Tick, clientVars
<1>2. ASSUME NEW p \in Publishers PROVE TableInv(p)' /\ PendingInv(p)'
  <2>1. Numbers(p) /\ TableInv(p) /\ PendingInv(p)
    BY PublisherFacts
  <2>2. TableInv(p)'
    BY <1>1, <2>1 DEF Numbers, TableInv, Top
  <2>3. PendingInv(p)'
    BY <1>1, <2>1, ConstantsAssumption DEF Numbers, PendingInv
  <2> QED
    BY <2>2, <2>3
<1>3. Live' \subseteq Live
  BY <1>1 DEF Live
<1>4. ASSUME NEW m \in Live PROVE MessageInv(m)'
  <2>1. Fields(m) /\ MessageInv(m) /\ now \in Nat
    BY SignalFacts DEF IInv, Types
  <2> QED
    BY <1>1, <2>1 DEF Fields, MessageInv, Top
<1>5. \A m, n \in Live : Ordered(m, n)'
  BY DEF IInv, BatchInv, Ordered
<1>6. ASSUME NEW m \in net' PROVE Timely(m)'
  <2>1. Timely(m)
    BY <1>1 DEF IInv, BatchInv
  <2> QED
    BY <1>1, <2>1 DEF Timely
<1>7. LogInv'
  BY <1>1 DEF IInv, BatchInv, LogInv
<1> QED
  BY <1>2, <1>3, <1>4, <1>5, <1>6, <1>7 DEF BatchInv

\* An entry of the deduplication table expires only when no signal of the last
\* batch or of an earlier one can arrive any more, nor be sent again.
LEMMA ContinueInv ==
  ASSUME IInv, ContinueAsNew
  PROVE  BatchInv'
<1>1. inbox = <<>> /\ UNCHANGED <<published, batched, pending_from, pending_seq, pending_since,
                                  sequence, net, inbox, accepted, now, appended>>
  BY DEF ContinueAsNew, NextRun, clientVars
<1>2. \A p \in Publishers :
        \/ /\ seen_sequence'[p] = seen_sequence[p]
           /\ last_seen'[p] = last_seen[p]
        \/ /\ ~(now - last_seen[p] < PublisherTTL)
           /\ seen_sequence'[p] = 0
  BY DEF ContinueAsNew, NextRun, Active
<1>3. ASSUME NEW p \in Publishers, ~(now - last_seen[p] < PublisherTTL), seen_sequence[p] # 0
      PROVE  accepted[p].at + MaxRetryDuration + MaxDelay < now
  <2>1. Numbers(p) /\ TableInv(p)
    BY PublisherFacts
  <2>2. last_seen[p] = accepted[p].at
    BY <1>3, <2>1 DEF TableInv
  <2> QED
    BY <1>3, <2>1, <2>2, ConstantsAssumption DEF Numbers
<1>4. ASSUME NEW p \in Publishers PROVE TableInv(p)' /\ PendingInv(p)'
  <2>1. Numbers(p) /\ TableInv(p) /\ PendingInv(p)
    BY PublisherFacts
  <2>2. TableInv(p)'
    BY <1>1, <1>2, <2>1 DEF Numbers, TableInv, Top
  <2>3. ASSUME pending_seq[p] # 0, pending_seq[p] <= accepted[p].seq,
               now - pending_since[p] <= MaxRetryDuration
        PROVE  pending_seq[p] <= seen_sequence'[p]
    <3>1. pending_since[p] <= accepted[p].at /\ pending_seq[p] <= seen_sequence[p]
      BY <2>1, <2>3, Zenon DEF PendingInv
    <3>2. seen_sequence[p] # 0
      BY <2>1, <2>3, <3>1, SMTT(20) DEF Numbers
    <3>3. CASE ~(now - last_seen[p] < PublisherTTL)
      <4>1. accepted[p].at + MaxRetryDuration + MaxDelay < now
        BY <1>3, <3>2, <3>3, ZenonT(30)
      <4> QED
        BY <2>1, <2>3, <3>1, <4>1, ConstantsAssumption DEF Numbers
    <3> QED
      BY <1>2, <3>1, <3>3, SMTT(20)
  <2>4. PendingInv(p)'
    BY <1>1, <2>1, <2>3 DEF PendingInv
  <2> QED
    BY <2>2, <2>4
<1>5. Live' = net /\ Live = net
  BY <1>1 DEF Live
<1>6. ASSUME NEW m \in net PROVE MessageInv(m)'
  <2>1. Fields(m) /\ MessageInv(m)
    BY <1>5, SignalFacts
  <2>2. Timely(m)
    BY DEF IInv, BatchInv
  <2>3. m.pub \in Publishers /\ Numbers(m.pub)
    BY <2>1, PublisherFacts DEF Fields
  <2>4. ASSUME m.seq <= accepted[m.pub].seq PROVE m.seq <= seen_sequence'[m.pub]
    <3>1. m.since <= accepted[m.pub].at /\ m.seq <= seen_sequence[m.pub] /\ 1 <= m.seq
      BY <2>1, <2>4 DEF MessageInv
    <3>2. seen_sequence[m.pub] # 0
      BY <2>1, <2>3, <3>1 DEF Fields, Numbers
    <3>3. CASE ~(now - last_seen[m.pub] < PublisherTTL)
      <4>1. accepted[m.pub].at + MaxRetryDuration + MaxDelay < now
        BY <1>3, <2>3, <3>2, <3>3
      <4> QED
        BY <2>1, <2>2, <2>3, <3>1, <4>1, ConstantsAssumption DEF Fields, Numbers, Timely
    <3> QED
      BY <1>2, <2>3, <3>1, <3>3
  <2> QED
    BY <1>1, <2>1, <2>4 DEF MessageInv, Top
<1>7. LogInv' /\ (\A n \in net : Timely(n)') /\ \A n, k \in Live : Ordered(n, k)'
  BY <1>1 DEF IInv, BatchInv, LogInv, Timely, Ordered
<1> QED
  BY <1>1, <1>4, <1>5, <1>6, <1>7 DEF BatchInv

-----------------------------------------------------------------------------
\* Every step keeps what the invariant says of the batches.
LEMMA BatchStep == IInv /\ Step => BatchInv'
<1> SUFFICES ASSUME IInv, Step PROVE BatchInv'
  OBVIOUS
<1>1. CASE Frame
  <2>1. UNCHANGED <<published, batched, pending_from, pending_seq, pending_since, sequence, net,
                    inbox, seen_sequence, last_seen, now, appended, accepted>>
    BY <1>1 DEF Frame, clientVars, serverVars, streamVars
  <2>2. Live' = Live
    BY <2>1 DEF Live
  <2> QED
    BY <2>1, <2>2, SameInv
<1>2. ASSUME NEW p \in Publishers, NEW c \in Callers, DropPending(p, c)
      PROVE  BatchInv'
  <2>1. pending_seq[p] # 0 /\ UNCHANGED <<published, batched, net, serverVars>>
    BY <1>2, Zenon DEF DropPending, Pending
  <2>2. pending_seq'[p] = 0 /\ sequence'[p] = pending_seq[p]
    BY <1>2, ZenonT(30) DEF DropPending, IInv, Types
  <2>3. \A q \in Publishers : q # p =>
          /\ pending_seq'[q] = pending_seq[q] /\ sequence'[q] = sequence[q]
          /\ pending_from'[q] = pending_from[q] /\ pending_since'[q] = pending_since[q]
    BY <1>2, SMTT(20) DEF DropPending, IInv, Types
  <2> QED
    BY <2>1, <2>2, <2>3, ReleaseInv, Zenon
<1>3. ASSUME NEW p \in Publishers, NEW c \in Callers, SignalDone(p, c)
      PROVE  BatchInv'
  <2>1. /\ pending_seq[p] # 0 /\ sending[<<p, c>>] = pending_seq[p]
        /\ UNCHANGED <<published, batched, net, serverVars>>
    BY <1>3, Zenon DEF SignalDone, IInv, LockInv
  <2>2. pending_seq'[p] = 0 /\ sequence'[p] = pending_seq[p]
    BY <1>3, <2>1, ZenonT(30) DEF SignalDone, IInv, Types
  <2>3. \A q \in Publishers : q # p =>
          /\ pending_seq'[q] = pending_seq[q] /\ sequence'[q] = sequence[q]
          /\ pending_from'[q] = pending_from[q] /\ pending_since'[q] = pending_since[q]
    BY <1>3 DEF SignalDone, IInv, Types
  <2> QED
    BY <2>1, <2>2, <2>3, ReleaseInv, Zenon
<1> QED
  BY <1>1, <1>2, <1>3, PublishInv, RetryInv, SendInv, ReceiveInv, HandleInv, ContinueInv, TickInv
  DEF Step

\* The inductive invariant holds in every reachable state.
THEOREM Invariant == Spec => []IInv
<1>1. IInv /\ [Next]_vars => IInv'
  BY NextIsStep, TypesStep, CallTypesStep, LockStep, BatchStep DEF IInv
<1> QED
  BY InitInv, <1>1, PTL DEF Spec

\* Every step of the publishers, the network and the workflow is a step of the
\* abstract log or leaves it alone: publishing is publishing, the handler's append
\* of a batch that its table does not know is a delivery, and a retry, a duplicate,
\* a batch given up and a continue-as-new change nothing.
LEMMA StepRefines == IInv /\ [Next]_vars => [Log!Next]_(Log!vars)
<1> SUFFICES ASSUME IInv, Step PROVE [Log!Next]_(Log!vars)
  BY NextIsStep
<1> USE DEF Log!vars, clientVars, serverVars, streamVars
<1>1. CASE Frame \/ ContinueAsNew \/ Tick \/ \E m \in net : Receive(m)
  <2>1. UNCHANGED <<published, appended>>
    BY <1>1, Zenon DEF Frame, ContinueAsNew, NextRun, Tick, Receive
  <2> QED
    BY <2>1
<1>2. ASSUME NEW p \in Publishers, NEW c \in Callers,
             DropPending(p, c) \/ RetryPending(p, c) \/ SendBatch(p, c) \/ SignalDone(p, c)
      PROVE  UNCHANGED <<published, appended>>
  BY <1>2, Zenon DEF DropPending, RetryPending, SendBatch, SignalDone, Signal
<1>3. ASSUME NEW p \in Publishers, Publish(p)
      PROVE  Log!Next
  BY <1>3, Zenon DEF Publish, Log!Next, Log!Publish
<1>4. CASE Handle
  <2>m. PICK m : m = Head(inbox)
    OBVIOUS
  <2>1. Types /\ m \in Live
    BY <1>4, <2>m, HeadLive DEF IInv, Handle
  <2>2. Fields(m) /\ MessageInv(m) /\ Numbers(m.pub) /\ TableInv(m.pub)
    BY <2>1, SignalFacts, PublisherFacts, ZenonT(30) DEF Fields
  <2>3. OnPublish(m) /\ UNCHANGED published
    BY <1>4, <2>m DEF Handle
  <2>4. CASE m.seq <= seen_sequence[m.pub]
    BY <2>3, <2>4 DEF OnPublish
  <2>5. CASE ~(m.seq <= seen_sequence[m.pub])
    <3>1. m.lo > accepted[m.pub].item
      <4>1. m.seq > seen_sequence[m.pub]
        BY <2>2, <2>5 DEF Fields, Numbers
      <4> QED
        BY <2>1, <4>1, NewBatch
    <3>2. \A i \in DOMAIN appended : appended[i][1] = m.pub => appended[i][2] < m.lo
      <4>1. SUFFICES ASSUME NEW i \in DOMAIN appended, appended[i][1] = m.pub
                     PROVE  appended[i][2] < m.lo
        OBVIOUS
      <4>2. appended[i][2] \in Nat
        BY <2>1 DEF Types
      <4>3. appended[i][2] <= accepted[m.pub].item
        BY <4>1 DEF IInv, BatchInv, LogInv
      <4> QED
        BY <2>2, <3>1, <4>2, <4>3 DEF Fields, Numbers
    <3>3. appended' = appended \o Log!Batch(m.pub, m.lo, m.hi)
      BY <2>3, <2>5, Zenon DEF OnPublish, Grow, Batch, Log!Batch
    <3>4. m.lo \in 1..published[m.pub] /\ m.hi \in 1..published[m.pub] /\ m.lo <= m.hi
      BY <2>2 DEF Fields, Numbers, MessageInv, TableInv
    <3>5. Log!Deliver(m.pub, m.lo, m.hi)
      BY <2>3, <3>2, <3>3 DEF Log!Deliver
    <3> QED
      BY <2>2, <3>4, <3>5 DEF Fields, Log!Next
  <2> QED
    BY <2>4, <2>5
<1> QED
  BY <1>1, <1>2, <1>3, <1>4 DEF Step

\* The publishers, the network and the workflow implement the abstract log: items
\* are appended at most once and in order.
THEOREM Refinement == Spec => ImplementsLog
<1>1. Init => Log!Init
  BY DEF Init, StreamInit, Log!Init
<1> QED
  BY <1>1, Invariant, StepRefines, PTL DEF Spec, ImplementsLog, Log!Spec

=============================================================================
