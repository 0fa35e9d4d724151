---------------------- MODULE StreamPublisherDelivery ----------------------
(***************************************************************************)
(* No item is lost in silence, and leaving the context leaves none behind. *)
(*                                                                         *)
(* A signal call that returned may have been handled long ago or may still *)
(* be in the inbox behind others, so the invariant follows an item from    *)
(* the moment one of its signals is taken: nothing that is sent later can  *)
(* keep its batch from being appended.                                     *)
(***************************************************************************)
EXTENDS StreamPublisherProofs

\* A signal in the inbox whose batch is appended when its turn comes: nothing as
\* late has been appended, and nothing as late of its publisher is before it.
WillAppend(i) ==
  /\ inbox[i].seq > accepted[inbox[i].pub].seq
  /\ \A j \in DOMAIN inbox : j < i /\ inbox[j].pub = inbox[i].pub => inbox[j].seq < inbox[i].seq

\* An item that has reached the log, or does so whatever is sent from now on.
Secure(p, n) ==
  \/ \E i \in DOMAIN appended : appended[i] = <<p, n>>
  \/ \E i \in DOMAIN inbox :
       inbox[i].pub = p /\ inbox[i].lo <= n /\ n <= inbox[i].hi /\ WillAppend(i)

\* Every item that is neither buffered nor pending nor given up is secure, and so
\* is the pending batch once one of its signals was taken.
ItemInv(p) ==
  /\ \A n \in 1..batched[p] :
       Secure(p, n) \/ <<p, n>> \in dropped \/ (pending_seq[p] # 0 /\ pending_from[p] <= n)
  /\ pending_seq[p] # 0 /\ <<p, pending_seq[p]>> \in reached =>
       \A n \in 1..batched[p] : pending_from[p] <= n => Secure(p, n)

\* The numbers the server has taken.
ReachedInv(p) ==
  /\ \A x \in reached : x[1] = p => x[2] \in Nat /\ x[2] <= Top(p)
  /\ accepted[p].seq # 0 => <<p, accepted[p].seq>> \in reached

\* The signals of the pending batch.
PendingSignals ==
  /\ \A i \in DOMAIN inbox : <<inbox[i].pub, inbox[i].seq>> \in reached
  /\ \A m \in Live : m.seq = pending_seq[m.pub] =>
                       m.lo = pending_from[m.pub] /\ m.hi = batched[m.pub]

DeliveryInv == (\A p \in Publishers : ItemInv(p) /\ ReachedInv(p)) /\ PendingSignals

\* __aexit__ returns with nothing buffered or pending, and that is final.
ClosedInv ==
  \A p \in Publishers :
    pc[<<p, "exit">>] = "closed" => pending_seq[p] = 0 /\ batched[p] = published[p]

-----------------------------------------------------------------------------
\* Only the loop of __aexit__ ends in "closed", with nothing buffered or pending.
LEMMA ClosedByLoop ==
  ASSUME IInv, Next, NEW q \in Publishers,
         pc'[<<q, "exit">>] = "closed", pc[<<q, "exit">>] # "closed"
  PROVE  LeaveLoop(q, "exit")
<1>0. CallTypes /\ "exit" \in Callers /\ "flusher" \in Callers /\ "exit" # "flusher"
  BY DEF IInv, Callers
<1>1. ASSUME NEW p \in Publishers, NEW c \in Callers, NEW l, l # "closed", Goto(p, c, l)
      PROVE  FALSE
  BY <1>0, <1>1 DEF Goto, CallTypes
<1>2. ASSUME NEW p \in Publishers, Enter(p) \/ Wake(p)
      PROVE  FALSE
  BY <1>0, <1>1, <1>2, Zenon DEF Enter, Wake
<1>3. ASSUME NEW p \in Publishers, Exit(p) \/ CancelLost(p) \/ JoinRaises(p)
      PROVE  FALSE
  BY <1>0, <1>3 DEF Exit, CancelLost, JoinRaises, Goto, CallTypes
<1>4. ASSUME NEW p \in Publishers, NEW c \in Callers, FlushStep(p, c) \/ CallFlush(p, c)
      PROVE  LeaveLoop(q, "exit")
  <2>1. Raised(c) # "closed" /\ Returned(c) # "closed"
    BY DEF Raised, Returned
  <2>2. LeaveLoop(p, c) \/ \E l : l # "closed" /\ Goto(p, c, l)
    BY <1>4, <2>1, Zenon DEF FlushStep, CallFlush, Queue, EncodeFails, NothingToFlush, SignalFails,
       DropPending, SignalDone, RetryPending, SendBatch, Signal
  <2>3. CASE LeaveLoop(p, c)
    BY <1>0, <2>3, Zenon DEF LeaveLoop, Goto, CallTypes
  <2> QED
    BY <1>1, <2>2, <2>3, Zenon
<1>5. CASE \/ \E p \in Publishers : Publish(p)
           \/ (\E m \in net : Receive(m)) \/ Handle \/ ContinueAsNew \/ Tick
  BY <1>5, Zenon DEF Publish, Receive, Handle, ContinueAsNew, Tick
<1> QED
  BY <1>2, <1>3, <1>4, <1>5, Zenon DEF Next

\* Once __aexit__ has returned nothing is published, and nothing is left to send.
LEMMA ClosedStep == IInv /\ ClosedInv /\ [Next]_vars => ClosedInv'
<1> SUFFICES ASSUME IInv, ClosedInv, [Next]_vars, NEW q \in Publishers,
                    pc'[<<q, "exit">>] = "closed"
             PROVE  pending_seq'[q] = 0 /\ batched'[q] = published'[q]
  BY DEF ClosedInv
<1> USE DEF clientVars
<1>1. Numbers(q) /\ TableInv(q) /\ Types
  BY PublisherFacts DEF IInv
<1>2. CASE UNCHANGED vars
  BY <1>2 DEF vars, ClosedInv
<1>3. CASE Next /\ pc[<<q, "exit">>] # "closed"
  <2>1. LeaveLoop(q, "exit")
    BY <1>3, ClosedByLoop
  <2> QED
    BY <1>1, <2>1 DEF LeaveLoop, Pending, Buffered, Numbers, TableInv
<1>4. CASE Next /\ pc[<<q, "exit">>] = "closed"
  <2>1. pending_seq[q] = 0 /\ batched[q] = published[q]
    BY <1>4 DEF ClosedInv
  <2>2. CASE Frame \/ ContinueAsNew \/ Tick \/ Handle \/ \E m \in net : Receive(m)
    BY <2>1, <2>2, Zenon DEF Frame, ContinueAsNew, Tick, Handle, Receive
  <2>3. ASSUME NEW p \in Publishers, Publish(p)
        PROVE  pending_seq'[q] = 0 /\ batched'[q] = published'[q]
    BY <1>1, <1>4, <2>1, <2>3, Zenon DEF Publish, Types
  <2>4. ASSUME NEW p \in Publishers, NEW c \in Callers,
               DropPending(p, c) \/ SignalDone(p, c) \/ RetryPending(p, c)
        PROVE  pending_seq'[q] = 0 /\ batched'[q] = published'[q]
    <3>1. /\ UNCHANGED <<batched, published>>
          /\ pending_seq' = pending_seq \/ pending_seq' = [pending_seq EXCEPT ![p] = 0]
      BY <2>4, Zenon DEF DropPending, SignalDone, RetryPending, Signal
    <3> QED
      BY <1>1, <2>1, <3>1, Zenon DEF Types
  <2>5. ASSUME NEW p \in Publishers, NEW c \in Callers, SendBatch(p, c)
        PROVE  pending_seq'[q] = 0 /\ batched'[q] = published'[q]
    <3>1. q # p
      BY <1>1, <2>1, <2>5 DEF SendBatch, Buffered, Numbers
    <3> QED
      BY <1>1, <2>1, <2>5, <3>1 DEF SendBatch, Signal, Types
  <2> QED
    BY <1>4, <2>2, <2>3, <2>4, <2>5, NextIsStep, Zenon DEF Step
<1> QED
  BY <1>2, <1>3, <1>4

-----------------------------------------------------------------------------
\* A step that moves no batch, takes no signal and sends at most the pending batch.
LEMMA SameDelivery ==
  ASSUME IInv, DeliveryInv,
         UNCHANGED <<batched, pending_from, pending_seq, sequence, dropped, reached,
                     inbox, accepted, appended>>,
         \A m \in net' : m \in net \/ (m.seq = pending_seq[m.pub] =>
                                         m.lo = pending_from[m.pub] /\ m.hi = batched[m.pub])
  PROVE  DeliveryInv'
<1>1. ASSUME NEW p \in Publishers PROVE ItemInv(p)' /\ ReachedInv(p)'
  BY DEF DeliveryInv, ItemInv, ReachedInv, Secure, WillAppend, Top
<1>2. PendingSignals'
  BY DEF DeliveryInv, PendingSignals, Live
<1> QED
  BY <1>1, <1>2 DEF DeliveryInv

\* A batch stops to be pending when it is secure or given up.
LEMMA ReleaseDelivery ==
  ASSUME IInv, DeliveryInv, NEW p \in Publishers,
         pending_seq[p] # 0, pending_seq'[p] = 0, sequence'[p] = pending_seq[p],
         \A q \in Publishers : q # p =>
           /\ pending_seq'[q] = pending_seq[q] /\ sequence'[q] = sequence[q]
           /\ pending_from'[q] = pending_from[q],
         UNCHANGED <<batched, reached, net, inbox, accepted, appended>>,
         dropped \subseteq dropped',
         \A n \in 1..batched[p] : pending_from[p] <= n => Secure(p, n) \/ <<p, n>> \in dropped'
  PROVE  DeliveryInv'
<1>0. \A q, n : Secure(q, n)' <=> Secure(q, n)
  BY DEF Secure, WillAppend
<1>1. ASSUME NEW q \in Publishers PROVE ItemInv(q)' /\ ReachedInv(q)'
  <2>1. ItemInv(q) /\ ReachedInv(q)
    BY DEF DeliveryInv
  <2>2. Numbers(q) /\ Numbers(p)
    BY PublisherFacts
  <2>3. CASE q # p
    BY <1>0, <2>1, <2>3 DEF ItemInv, ReachedInv, Top
  <2>4. CASE q = p
    BY <1>0, <2>1, <2>2, <2>4 DEF ItemInv, ReachedInv, Top, Numbers
  <2> QED
    BY <2>3, <2>4
<1>2. PendingSignals'
  <2>1. \A m \in Live : 1 <= m.seq /\ m.seq \in Nat /\ m.pub \in Publishers
    BY SignalFacts DEF Fields, MessageInv
  <2>2. Live' = Live
    BY DEF Live
  <2>3. \A m \in Live : m.seq = pending_seq'[m.pub] =>
          m.lo = pending_from'[m.pub] /\ m.hi = batched'[m.pub]
    BY <2>1 DEF DeliveryInv, PendingSignals
  <2> QED
    BY <2>2, <2>3 DEF DeliveryInv, PendingSignals
<1> QED
  BY <1>1, <1>2 DEF DeliveryInv

\* A new batch has a number that no signal carries and the server has not taken.
LEMMA SendDelivery ==
  ASSUME IInv, DeliveryInv, NEW p \in Publishers, NEW c \in Callers, SendBatch(p, c)
  PROVE  DeliveryInv'
<1>m. PICK m : m = [pub |-> p, seq |-> sequence[p] + 1, lo |-> batched[p] + 1,
                    hi |-> published[p], since |-> now, sent |-> now]
  BY Zenon
<1>1. Numbers(p) /\ pending_seq[p] = 0 /\ batched[p] < published[p]
  BY PublisherFacts DEF SendBatch, Pending, Buffered
<1>2. /\ net' = net \cup {m}
      /\ UNCHANGED <<sequence, dropped, reached, inbox, accepted, appended>>
  BY <1>m DEF SendBatch, Signal, serverVars, streamVars
<1>3. /\ batched'[p] = published[p] /\ pending_from'[p] = batched[p] + 1
      /\ pending_seq'[p] = sequence[p] + 1
  BY DEF SendBatch, IInv, Types
<1>4. \A q \in Publishers : q # p =>
        /\ batched'[q] = batched[q] /\ pending_from'[q] = pending_from[q]
        /\ pending_seq'[q] = pending_seq[q]
  BY DEF SendBatch, IInv, Types
<1>5. \A q, n : Secure(q, n)' <=> Secure(q, n)
  BY <1>2 DEF Secure, WillAppend
<1>6. ASSUME NEW q \in Publishers PROVE ItemInv(q)' /\ ReachedInv(q)'
  <2>1. ItemInv(q) /\ ReachedInv(q)
    BY DEF DeliveryInv
  <2>2. CASE q # p
    BY <1>2, <1>4, <1>5, <2>1, <2>2 DEF ItemInv, ReachedInv, Top
  <2>3. CASE q = p
    <3>1. <<p, sequence[p] + 1>> \notin reached
      BY <1>1, <2>1, <2>3 DEF ReachedInv, Top, Numbers
    <3>2. ItemInv(p)'
      BY <1>1, <1>2, <1>3, <1>5, <2>1, <2>3, <3>1 DEF ItemInv, Numbers
    <3>3. ReachedInv(p)'
      BY <1>1, <1>2, <1>3, <2>1, <2>3 DEF ReachedInv, Top, Numbers
    <3> QED
      BY <2>3, <3>2, <3>3
  <2> QED
    BY <2>2, <2>3
<1>7. PendingSignals'
  <2>1. \A k \in Live : k.pub \in Publishers /\ k.seq \in Nat /\ k.seq <= Top(k.pub)
    BY SignalFacts DEF Fields, MessageInv
  <2>2. \A k \in Live : k.seq = pending_seq'[k.pub] =>
          k.lo = pending_from'[k.pub] /\ k.hi = batched'[k.pub]
    BY <1>1, <1>3, <1>4, <2>1 DEF DeliveryInv, PendingSignals, Top, Numbers
  <2>3. m.pub = p /\ m.lo = pending_from'[p] /\ m.hi = batched'[p]
    BY <1>m, <1>3
  <2>4. Live' = Live \cup {m}
    BY <1>2 DEF Live
  <2> QED
    BY <1>2, <2>2, <2>3, <2>4 DEF DeliveryInv, PendingSignals
<1> QED
  BY <1>6, <1>7 DEF DeliveryInv

\* The server takes a signal: the first one of the pending batch makes it secure,
\* as its number is above every number before it in the inbox and in the log.
LEMMA ReceiveDelivery ==
  ASSUME IInv, DeliveryInv, NEW m \in net, Receive(m)
  PROVE  DeliveryInv'
<1>1. /\ inbox' = Append(inbox, m) /\ reached' = reached \cup {<<m.pub, m.seq>>}
      /\ UNCHANGED <<batched, pending_from, pending_seq, sequence, dropped, net, accepted, appended>>
  BY DEF Receive, clientVars, streamVars
<1>2. m \in Live /\ Fields(m) /\ MessageInv(m)
  BY SignalFacts DEF Live
<1>3. Numbers(m.pub) /\ TableInv(m.pub)
  BY <1>2, PublisherFacts DEF Fields
<1>4. PICK l \in Nat : /\ l = Len(inbox)
                       /\ DOMAIN inbox = 1..l /\ DOMAIN inbox' = 1..(l + 1)
                       /\ inbox'[l + 1] = m
                       /\ \A i \in 1..l : inbox'[i] = inbox[i]
  <2>1. inbox \in Seq(Messages) /\ m \in Messages
    BY DEF IInv, Types
  <2>2. Len(inbox) \in Nat /\ DOMAIN inbox = 1..Len(inbox)
    BY <2>1
  <2>3. DOMAIN inbox' = 1..(Len(inbox) + 1) /\ inbox'[Len(inbox) + 1] = m
    BY <1>1, <2>1
  <2>4. \A i \in 1..Len(inbox) : inbox'[i] = inbox[i]
    BY <1>1, <2>1
  <2> QED
    BY <2>2, <2>3, <2>4, Zenon
<1>5. ASSUME NEW q, NEW n, Secure(q, n) PROVE Secure(q, n)'
  <2>1. CASE \E i \in DOMAIN appended : appended[i] = <<q, n>>
    BY <1>1, <2>1 DEF Secure
  <2>2. ASSUME NEW i \in DOMAIN inbox,
               inbox[i].pub = q, inbox[i].lo <= n, n <= inbox[i].hi, WillAppend(i)
        PROVE  Secure(q, n)'
    <3>1. i \in DOMAIN inbox' /\ inbox'[i] = inbox[i]
      BY <1>4
    <3>2. \A j \in DOMAIN inbox' : j < i => j \in DOMAIN inbox /\ inbox'[j] = inbox[j]
      BY <1>4
    <3>3. WillAppend(i)'
      BY <1>1, <2>2, <3>1, <3>2 DEF WillAppend
    <3> QED
      BY <2>2, <3>1, <3>3 DEF Secure
  <2> QED
    BY <1>5, <2>1, <2>2 DEF Secure
<1>6. ASSUME m.seq = pending_seq[m.pub], <<m.pub, m.seq>> \notin reached
      PROVE  WillAppend(l + 1)'
  <2>1. ReachedInv(m.pub)
    BY <1>2 DEF DeliveryInv, Fields
  <2>2. m.seq > accepted[m.pub].seq
    BY <1>2, <1>3, <1>6, <2>1 DEF ReachedInv, TableInv, Top, Numbers, Fields, MessageInv
  <2>3. ASSUME NEW j \in 1..l, inbox[j].pub = m.pub PROVE inbox[j].seq < m.seq
    <3>1. inbox[j] \in Live
      BY <1>4 DEF Live
    <3>2. Fields(inbox[j]) /\ inbox[j].seq <= Top(m.pub)
      BY <2>3, <3>1, SignalFacts DEF MessageInv
    <3>3. <<m.pub, inbox[j].seq>> \in reached
      BY <1>4, <2>3, Zenon DEF DeliveryInv, PendingSignals
    <3>4. Top(m.pub) = m.seq
      BY <1>2, <1>6 DEF Top, Fields, MessageInv
    <3> QED
      BY <1>2, <1>6, <3>2, <3>3, <3>4 DEF Fields
  <2> QED
    BY <1>1, <1>4, <2>2, <2>3 DEF WillAppend
<1>7. ASSUME NEW q \in Publishers PROVE ItemInv(q)' /\ ReachedInv(q)'
  <2>1. ItemInv(q) /\ ReachedInv(q) /\ Numbers(q)
    BY PublisherFacts DEF DeliveryInv
  <2>2. ASSUME pending_seq[q] # 0, <<q, pending_seq[q]>> \in reached',
               NEW n \in 1..batched[q], pending_from[q] <= n
        PROVE  Secure(q, n)'
    <3>1. CASE <<q, pending_seq[q]>> \in reached
      BY <1>5, <2>1, <2>2, <3>1 DEF ItemInv
    <3>2. CASE <<q, pending_seq[q]>> \notin reached
      <4>1. q = m.pub /\ m.seq = pending_seq[m.pub]
        BY <1>1, <2>2, <3>2
      <4>2. WillAppend(l + 1)'
        BY <1>6, <3>2, <4>1
      <4>3. m.lo = pending_from[m.pub] /\ m.hi = batched[m.pub]
        BY <1>2, <4>1 DEF DeliveryInv, PendingSignals
      <4>4. m.pub = q /\ m.lo <= n /\ n <= m.hi
        BY <2>1, <2>2, <4>1, <4>3 DEF Numbers
      <4> QED
        BY <1>4, <4>2, <4>4 DEF Secure
    <3> QED
      BY <3>1, <3>2
  <2>3. ItemInv(q)'
    BY <1>1, <1>5, <2>1, <2>2 DEF ItemInv
  <2>4. ReachedInv(q)'
    BY <1>1, <1>2, <2>1 DEF ReachedInv, Top, Fields, MessageInv
  <2> QED
    BY <2>3, <2>4
<1>8. PendingSignals'
  <2>1. Live' = Live
    BY <1>1, <1>4 DEF Live
  <2>2. \A i \in DOMAIN inbox' : <<inbox'[i].pub, inbox'[i].seq>> \in reached'
    BY <1>1, <1>4 DEF DeliveryInv, PendingSignals
  <2> QED
    BY <1>1, <2>1, <2>2 DEF DeliveryInv, PendingSignals
<1> QED
  BY <1>7, <1>8 DEF DeliveryInv

\* The workflow handles a signal: a secure item stays secure.
LEMMA HandleDelivery ==
  ASSUME IInv, DeliveryInv, Handle
  PROVE  DeliveryInv'
<1>m. PICK m : m = Head(inbox)
  OBVIOUS
<1>1. Types /\ inbox # <<>> /\ m \in Live
  BY <1>m, HeadLive DEF IInv, Handle
<1>2. Fields(m) /\ MessageInv(m) /\ Numbers(m.pub) /\ TableInv(m.pub)
  BY <1>1, SignalFacts, PublisherFacts DEF Fields
<1>3. /\ OnPublish(m)
      /\ accepted' = IF m.seq <= seen_sequence[m.pub] THEN accepted
                     ELSE [accepted EXCEPT ![m.pub] = [seq |-> m.seq, item |-> m.hi, at |-> now]]
      /\ inbox' = Tail(inbox)
      /\ UNCHANGED <<batched, pending_from, pending_seq, sequence, dropped, reached, net>>
  BY <1>m DEF Handle, clientVars
<1>4. /\ DOMAIN inbox = 1..Len(inbox) /\ Len(inbox) \in Nat /\ 1 \in DOMAIN inbox /\ inbox[1] = m
      /\ DOMAIN inbox' = 1..(Len(inbox) - 1)
      /\ \A i \in DOMAIN inbox' : inbox'[i] = inbox[i + 1] /\ i + 1 \in DOMAIN inbox
  <2>1. inbox \in Seq(Messages)
    BY <1>1, Zenon DEF Types
  <2> QED
    BY <1>m, <1>1, <1>3, <2>1
<1>5. /\ \A i \in DOMAIN appended : i \in DOMAIN appended' /\ appended'[i] = appended[i]
      /\ m.seq > seen_sequence[m.pub] =>
           \A n \in Nat : m.lo <= n /\ n <= m.hi => \E i \in DOMAIN appended' : appended'[i] = <<m.pub, n>>
  <2>1. CASE m.seq <= seen_sequence[m.pub]
    <3>1. appended' = appended
      BY <1>3, <2>1, Zenon DEF OnPublish, streamVars
    <3>2. ~(m.seq > seen_sequence[m.pub])
      BY <1>2, <2>1 DEF Fields, Numbers
    <3> QED
      BY <3>1, <3>2, Zenon
  <2>2. CASE ~(m.seq <= seen_sequence[m.pub])
    <3>1. appended' = appended \o Batch(m.pub, m.lo, m.hi)
      BY <1>3, <2>2 DEF OnPublish, Grow
    <3>2. appended \in Seq(Publishers \X Nat)
      BY <1>1, Zenon DEF Types
    <3>3. m.pub \in Publishers /\ m.lo \in Nat /\ m.hi \in Nat /\ m.lo <= m.hi
      BY <1>2, SMTT(20) DEF Fields, MessageInv
    <3> QED
      BY <3>1, <3>2, <3>3, BatchItems, Zenon
  <2> QED
    BY <2>1, <2>2
<1>6. /\ \A p \in Publishers : p # m.pub => accepted'[p] = accepted[p]
      /\ accepted'[m.pub].seq = accepted[m.pub].seq \/ accepted'[m.pub].seq = m.seq
  <2>1. /\ accepted \in [Publishers -> [seq : Nat, item : Nat, at : Nat]]
        /\ m.pub \in Publishers
    BY <1>1, <1>2, Zenon DEF Types, Fields
  <2> QED
    BY <1>3, <2>1
<1>7. ASSUME NEW q \in Publishers, NEW n \in Nat, Secure(q, n) PROVE Secure(q, n)'
  <2>1. CASE \E i \in DOMAIN appended : appended[i] = <<q, n>>
    BY <1>5, <2>1 DEF Secure
  <2>2. ASSUME NEW i \in DOMAIN inbox,
               inbox[i].pub = q, inbox[i].lo <= n, n <= inbox[i].hi, WillAppend(i)
        PROVE  Secure(q, n)'
    <3>1. CASE i = 1
      <4>1. m.pub = q /\ m.lo <= n /\ n <= m.hi /\ m.seq > accepted[m.pub].seq
        BY <1>4, <2>2, <3>1 DEF WillAppend
      <4>2. m.seq > seen_sequence[m.pub]
        BY <1>2, <4>1 DEF TableInv, Fields, Numbers
      <4> QED
        BY <1>5, <4>1, <4>2 DEF Secure
    <3>2. CASE i # 1
      <4>1. i - 1 \in DOMAIN inbox' /\ inbox'[i - 1] = inbox[i] /\ 1 < i
        BY <1>4, <3>2
      <4>2. inbox[i].seq > accepted'[q].seq
        <5>1. inbox[i].seq > accepted[q].seq /\ (m.pub = q => m.seq < inbox[i].seq)
          BY <1>4, <2>2, <4>1 DEF WillAppend
        <5> QED
          BY <1>6, <5>1
      <4>3. ASSUME NEW j \in DOMAIN inbox', j < i - 1, inbox'[j].pub = q
            PROVE  inbox'[j].seq < inbox[i].seq
        <5>1. j + 1 \in DOMAIN inbox /\ j + 1 < i /\ inbox'[j] = inbox[j + 1]
          BY <1>4, <4>3
        <5> QED
          BY <2>2, <4>3, <5>1 DEF WillAppend
      <4>4. WillAppend(i - 1)'
        BY <2>2, <4>1, <4>2, <4>3 DEF WillAppend
      <4> QED
        BY <2>2, <4>1, <4>4 DEF Secure
    <3> QED
      BY <3>1, <3>2
  <2> QED
    BY <1>7, <2>1, <2>2 DEF Secure
<1>8. ASSUME NEW q \in Publishers PROVE ItemInv(q)' /\ ReachedInv(q)'
  <2>1. ItemInv(q) /\ ReachedInv(q) /\ Numbers(q)
    BY PublisherFacts DEF DeliveryInv
  <2>2. ItemInv(q)'
    BY <1>3, <1>7, <2>1 DEF ItemInv, Numbers
  <2>3. <<m.pub, m.seq>> \in reached
    BY <1>4 DEF DeliveryInv, PendingSignals
  <2>4. ReachedInv(q)'
    BY <1>3, <1>6, <2>1, <2>3, SMTT(20) DEF ReachedInv, Top
  <2> QED
    BY <2>2, <2>4
<1>9. PendingSignals'
  <2>1. Live' \subseteq Live
    BY <1>3, <1>4, ZenonT(20) DEF Live
  <2>2. \A i \in DOMAIN inbox' : <<inbox'[i].pub, inbox'[i].seq>> \in reached'
    BY <1>3, <1>4 DEF DeliveryInv, PendingSignals
  <2> QED
    BY <1>3, <2>1, <2>2, Zenon DEF DeliveryInv, PendingSignals
<1> QED
  BY <1>8, <1>9 DEF DeliveryInv

\* Every step keeps the items secure.
LEMMA DeliveryStep == IInv /\ DeliveryInv /\ Step => DeliveryInv'
<1> SUFFICES ASSUME IInv, DeliveryInv, Step PROVE DeliveryInv'
  OBVIOUS
<1> USE DEF clientVars, serverVars, streamVars
<1>1. CASE Frame \/ ContinueAsNew \/ Tick \/ \E p \in Publishers : Publish(p)
  <2>1. /\ UNCHANGED <<batched, pending_from, pending_seq, sequence, dropped, reached,
                       inbox, accepted, appended>>
        /\ net' \subseteq net
    BY <1>1, Zenon DEF Frame, ContinueAsNew, NextRun, Tick, Publish
  <2> QED
    BY <2>1, SameDelivery
<1>2. ASSUME NEW p \in Publishers, NEW c \in Callers, RetryPending(p, c)
      PROVE  DeliveryInv'
  <2>m. PICK m : m = [pub |-> p, seq |-> pending_seq[p], lo |-> pending_from[p],
                      hi |-> batched[p], since |-> pending_since[p], sent |-> now]
    BY Zenon
  <2>1. /\ UNCHANGED <<batched, pending_from, pending_seq, sequence, dropped, reached,
                       inbox, accepted, appended>>
        /\ net' = net \cup {m}
    BY <1>2, <2>m DEF RetryPending, Signal
  <2>2. m.lo = pending_from[m.pub] /\ m.hi = batched[m.pub]
    BY <2>m
  <2> QED
    BY <2>1, <2>2, SameDelivery
<1>3. ASSUME NEW p \in Publishers, NEW c \in Callers, DropPending(p, c) \/ SignalDone(p, c)
      PROVE  DeliveryInv'
  <2>1. /\ pending_seq[p] # 0 /\ UNCHANGED <<batched, reached, net, inbox, accepted, appended>>
        /\ SignalDone(p, c) => sending[<<p, c>>] = pending_seq[p]
    BY <1>3, Zenon DEF DropPending, SignalDone, Pending, IInv, LockInv, serverVars, streamVars
  <2>2. pending_seq'[p] = 0 /\ sequence'[p] = pending_seq[p]
    BY <1>3, <2>1, Zenon DEF DropPending, SignalDone, IInv, Types
  <2>3. \A q \in Publishers : q # p =>
          /\ pending_seq'[q] = pending_seq[q] /\ sequence'[q] = sequence[q]
          /\ pending_from'[q] = pending_from[q]
    BY <1>3, Zenon DEF DropPending, SignalDone, IInv, Types
  <2>4. dropped \subseteq dropped'
    BY <1>3, Zenon DEF DropPending, SignalDone
  <2>5. \A n \in 1..batched[p] : pending_from[p] <= n => Secure(p, n) \/ <<p, n>> \in dropped'
    <3>1. CASE DropPending(p, c)
      <4>1. Numbers(p)
        BY PublisherFacts
      <4>2. \A n \in pending_from[p] .. batched[p] : <<p, n>> \in dropped'
        BY <3>1, Zenon DEF DropPending
      <4> QED
        BY <4>1, <4>2 DEF Numbers
    <3>2. CASE SignalDone(p, c)
      BY <2>1, <3>2, Zenon DEF SignalDone, DeliveryInv, ItemInv
    <3> QED
      BY <1>3, <3>1, <3>2, Zenon
  <2> QED
    BY <2>1, <2>2, <2>3, <2>4, <2>5, ReleaseDelivery, Zenon
<1> QED
  BY <1>1, <1>2, <1>3, SendDelivery, ReceiveDelivery, HandleDelivery DEF Step

\* Both hold in every reachable state.
THEOREM DeliveryInvariant == Spec => [](DeliveryInv /\ ClosedInv)
<1>1. Init => DeliveryInv /\ ClosedInv
  <2> SUFFICES ASSUME Init PROVE DeliveryInv /\ ClosedInv
    OBVIOUS
  <2> USE DEF Init
  <2>1. Live = {} /\ DOMAIN inbox = {}
    BY DEF Live
  <2>2. ASSUME NEW p \in Publishers PROVE ItemInv(p) /\ ReachedInv(p)
    BY DEF ItemInv, ReachedInv
  <2>3. ClosedInv
    BY DEF ClosedInv, Callers
  <2> QED
    BY <2>1, <2>2, <2>3 DEF DeliveryInv, PendingSignals
<1>2. IInv /\ DeliveryInv /\ ClosedInv /\ [Next]_vars => DeliveryInv' /\ ClosedInv'
  BY NextIsStep, DeliveryStep, ClosedStep
<1> QED
  BY <1>1, <1>2, Invariant, PTL DEF Spec

\* A secure item is delivered.
LEMMA SecureDelivered ==
  ASSUME Types, NEW p \in Publishers, NEW n \in Nat, Secure(p, n)
  PROVE  Delivered(p, n)
<1>1. \A i \in DOMAIN inbox : inbox[i].lo \in Nat /\ inbox[i].hi \in Nat
  <2>1. \A i \in DOMAIN inbox : inbox[i] \in Messages
    BY DEF Types
  <2> QED
    BY <2>1 DEF Messages
<1> QED
  BY <1>1 DEF Secure, Delivered

\* NoSilentLoss: whatever signals are lost, delayed or repeated, and however
\* failures of the calls interleave with flush(), the flusher and the exit, an
\* item leaves the client only into the workflow or with a TimeoutError.
THEOREM NothingLostInSilence == Spec => []NoSilentLoss
<1>1. IInv /\ DeliveryInv => NoSilentLoss
  <2> SUFFICES ASSUME IInv, DeliveryInv, NEW p \in Publishers, NEW n \in 1..published[p],
                      ~(n > batched[p]), ~(Pending(p) /\ n >= pending_from[p]), <<p, n>> \notin dropped
               PROVE  Delivered(p, n)
    BY DEF NoSilentLoss
  <2>1. Numbers(p) /\ ItemInv(p) /\ Types
    BY PublisherFacts DEF DeliveryInv, IInv
  <2>2. Secure(p, n)
    BY <2>1 DEF ItemInv, Numbers, Pending
  <2> QED
    BY <2>1, <2>2, SecureDelivered DEF Numbers
<1> QED
  BY <1>1, Invariant, DeliveryInvariant, PTL

\* ClosedDelivered: leaving the context without an exception leaves no item behind.
THEOREM ExitDelivers == Spec => []ClosedDelivered
<1>1. IInv /\ DeliveryInv /\ ClosedInv => ClosedDelivered
  <2> SUFFICES ASSUME IInv, DeliveryInv, ClosedInv, NEW p \in Publishers,
                      pc[<<p, "exit">>] = "closed", NEW n \in 1..published[p],
                      <<p, n>> \notin dropped
               PROVE  Delivered(p, n)
    BY DEF ClosedDelivered
  <2>1. Numbers(p) /\ ItemInv(p) /\ Types
    BY PublisherFacts DEF DeliveryInv, IInv
  <2>2. Secure(p, n)
    BY <2>1 DEF ItemInv, ClosedInv
  <2> QED
    BY <2>1, <2>2, SecureDelivered DEF Numbers
<1> QED
  BY <1>1, Invariant, DeliveryInvariant, PTL

=============================================================================
