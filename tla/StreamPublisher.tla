--------------------------- MODULE StreamPublisher ---------------------------
(***************************************************************************)
(* The publishing half of WorkflowStreamClient                             *)
(* (contrib/workflow_streams/_client.py): the buffer, the pending batch    *)
(* and its retries, the flush lock, the background flusher, flush() and    *)
(* leaving the context, with the signals they send over a network that     *)
(* delays, reorders, duplicates and loses them, and the workflow that      *)
(* handles them (WorkflowStream) and may continue as new.                  *)
(*                                                                         *)
(* A publisher's items are numbered in the order of publication.  The      *)
(* buffer is always cleared as a whole, so it is the run of items after    *)
(* `batched`, and the pending batch is the run from `pending_from` to      *)
(* `batched`: no batch is taken while one is pending.  The code clears     *)
(* _pending and _pending_seq together, so _pending is None where           *)
(* `pending_seq` is 0.                                                     *)
(***************************************************************************)
EXTENDS WorkflowStream

CONSTANTS
  Apps,               \* the application's coroutines that call flush()
  MaxRetryDuration,   \* max_retry_duration
  MaxDelay,           \* how long after it was sent a signal may still arrive
  MaxItems,           \* bound: items published by each publisher
  MaxTime,            \* bound: the clock
  MaxInbox            \* bound: signals waiting in the workflow's history

Callers == Apps \cup {"flusher", "exit"}

\* The one condition on the constants, the documented one ("Must be less than
\* the workflow's publisher_ttl") with the time a signal may be on its way.
ASSUME ConstantsAssumption ==
  /\ MaxRetryDuration \in Nat /\ MaxDelay \in Nat /\ PublisherTTL \in Nat
  /\ MaxItems \in Nat /\ MaxTime \in Nat /\ MaxInbox \in Nat
  /\ MaxRetryDuration + MaxDelay < PublisherTTL

VARIABLES
  published,          \* items published so far
  batched,            \* the last item moved from the buffer into a batch
  pending_from,       \* the first item of _pending
  pending_seq,        \* _pending_seq, 0 when _pending is None
  pending_since,      \* _pending_since
  sequence,           \* _sequence
  pc,                 \* where each caller of _flush is
  sending,            \* the local seq of a caller waiting for its signal
  net,                \* signals on their way
  inbox,              \* signals in the workflow's history, not yet handled
  reached,            \* <<publisher, seq>> of the signals the server has taken
  dropped,            \* history: items of the batches given up with TimeoutError
  accepted            \* history: seq, last item and time of the last batch appended

clientVars == <<published, batched, pending_from, pending_seq, pending_since, sequence, dropped>>
serverVars == <<streamVars, inbox, accepted>>
vars == <<clientVars, pc, sending, net, reached, serverVars>>

Init ==
  /\ StreamInit
  /\ published = [p \in Publishers |-> 0]
  /\ batched = [p \in Publishers |-> 0]
  /\ pending_from = [p \in Publishers |-> 0]
  /\ pending_seq = [p \in Publishers |-> 0]
  /\ pending_since = [p \in Publishers |-> 0]
  /\ sequence = [p \in Publishers |-> 0]
  /\ pc = [x \in Publishers \X Callers |-> "idle"]
  /\ sending = [x \in Publishers \X Callers |-> 0]
  /\ net = {}
  /\ inbox = <<>>
  /\ reached = {}
  /\ dropped = {}
  /\ accepted = [p \in Publishers |-> [seq |-> 0, item |-> 0, at |-> 0]]

Buffered(p) == batched[p] < published[p]
Pending(p) == pending_seq[p] # 0

-----------------------------------------------------------------------------
\* asyncio.Lock: held by the caller waiting for its signal, and handed to a
\* waiting caller before a new one can take it.  Which waiter is left open.
Free(p) == \A c \in Callers : pc[<<p, c>>] # "sending"

MayRun(p, c) ==
  /\ Free(p)
  /\ pc[<<p, c>>] \in {"calling", "queued"}
  /\ pc[<<p, c>>] = "calling" =>
       /\ \A d \in Callers : pc[<<p, d>>] # "queued"
       /\ c # "flusher" => (Pending(p) \/ Buffered(p))

\* Mutants: __aexit__ flushes once; __aexit__ goes on after an exception.
Returned_exitOnce(c) == CASE c = "flusher" -> "waiting"
                          [] c = "exit" -> "closed"
                          [] OTHER -> "calling"

Raised_exitRetries(c) == CASE c = "flusher" -> "dead"
                           [] c = "exit" -> "calling"
                           [] OTHER -> "idle"

\* Where a caller goes when its _flush returns, and when it raises: the flusher
\* task ends with the exception, flush() and __aexit__ raise it.
Returned(c) == IF c = "flusher" THEN "waiting" ELSE "calling"

Raised(c) == CASE c = "flusher" -> "dead"
               [] c = "exit" -> "failed"
               [] OTHER -> "idle"

Goto(p, c, l) == pc' = [pc EXCEPT ![<<p, c>>] = l]

Queue(p, c) ==
  /\ pc[<<p, c>>] = "calling"
  /\ ~MayRun(p, c)
  /\ c # "flusher" => (Pending(p) \/ Buffered(p))
  /\ Goto(p, c, "queued")
  /\ UNCHANGED <<clientVars, sending, net, reached, serverVars>>

\* Mutant: the sequence number of a batch given up is used again.
DropPending_reusesSequence(p, c) ==
  /\ MayRun(p, c) /\ Pending(p)
  /\ now - pending_since[p] > MaxRetryDuration
  /\ pending_from' = [pending_from EXCEPT ![p] = 0]
  /\ pending_seq' = [pending_seq EXCEPT ![p] = 0]
  /\ pending_since' = [pending_since EXCEPT ![p] = 0]
  /\ dropped' = dropped \cup {<<p, n>> : n \in pending_from[p] .. batched[p]}
  /\ Goto(p, c, Raised(c))
  /\ UNCHANGED <<published, batched, sequence, sending, net, reached, serverVars>>

\* The pending batch is too old: give it up, and advance the sequence past it.
DropPending(p, c) ==
  /\ MayRun(p, c) /\ Pending(p)
  /\ now - pending_since[p] > MaxRetryDuration
  /\ sequence' = [sequence EXCEPT ![p] = pending_seq[p]]
  /\ pending_from' = [pending_from EXCEPT ![p] = 0]
  /\ pending_seq' = [pending_seq EXCEPT ![p] = 0]
  /\ pending_since' = [pending_since EXCEPT ![p] = 0]
  /\ dropped' = dropped \cup {<<p, n>> : n \in pending_from[p] .. batched[p]}
  /\ Goto(p, c, Raised(c))
  /\ UNCHANGED <<published, batched, sending, net, reached, serverVars>>

Signal(p, c, seq, lo, hi, since) ==
  /\ net' = net \cup {[pub |-> p, seq |-> seq, lo |-> lo, hi |-> hi,
                       since |-> since, sent |-> now]}
  /\ sending' = [sending EXCEPT ![<<p, c>>] = seq]
  /\ Goto(p, c, "sending")
  /\ UNCHANGED <<published, sequence, dropped, reached, serverVars>>

RetryPending(p, c) ==
  /\ MayRun(p, c) /\ Pending(p)
  /\ now - pending_since[p] <= MaxRetryDuration
  /\ Signal(p, c, pending_seq[p], pending_from[p], batched[p], pending_since[p])
  /\ UNCHANGED <<batched, pending_from, pending_seq, pending_since>>

SendBatch(p, c) ==
  /\ MayRun(p, c) /\ ~Pending(p) /\ Buffered(p)
  /\ batched' = [batched EXCEPT ![p] = published[p]]
  /\ pending_from' = [pending_from EXCEPT ![p] = batched[p] + 1]
  /\ pending_seq' = [pending_seq EXCEPT ![p] = sequence[p] + 1]
  /\ pending_since' = [pending_since EXCEPT ![p] = now]
  /\ Signal(p, c, sequence[p] + 1, batched[p] + 1, published[p], now)

\* The payload converter raises: the buffer is left as it is.
EncodeFails(p, c) ==
  /\ MayRun(p, c) /\ ~Pending(p) /\ Buffered(p)
  /\ Goto(p, c, Raised(c))
  /\ UNCHANGED <<clientVars, sending, net, reached, serverVars>>

NothingToFlush(p, c) ==
  /\ MayRun(p, c) /\ ~Pending(p) /\ ~Buffered(p)
  /\ Goto(p, c, Returned(c))
  /\ UNCHANGED <<clientVars, sending, net, reached, serverVars>>

\* The server has taken the signal and its answer arrives.
SignalDone(p, c) ==
  /\ pc[<<p, c>>] = "sending"
  /\ <<p, sending[<<p, c>>]>> \in reached
  /\ sequence' = [sequence EXCEPT ![p] = sending[<<p, c>>]]
  /\ pending_from' = [pending_from EXCEPT ![p] = 0]
  /\ pending_seq' = [pending_seq EXCEPT ![p] = 0]
  /\ pending_since' = [pending_since EXCEPT ![p] = 0]
  /\ sending' = [sending EXCEPT ![<<p, c>>] = 0]
  /\ Goto(p, c, Returned(c))
  /\ UNCHANGED <<published, batched, dropped, net, reached, serverVars>>

\* The call fails, whether or not the signal arrives: the batch stays pending.
SignalFails(p, c) ==
  /\ pc[<<p, c>>] = "sending"
  /\ sending' = [sending EXCEPT ![<<p, c>>] = 0]
  /\ Goto(p, c, Raised(c))
  /\ UNCHANGED <<clientVars, net, reached, serverVars>>

-----------------------------------------------------------------------------
\* __aenter__
Enter(p) ==
  /\ pc[<<p, "flusher">>] = "idle" /\ pc[<<p, "exit">>] = "idle"
  /\ Goto(p, "flusher", "waiting")
  /\ UNCHANGED <<clientVars, sending, net, reached, serverVars>>

\* The event of force_flush or a full batch, or else the timer, wakes the flusher.
Wake(p) ==
  /\ pc[<<p, "flusher">>] = "waiting"
  /\ Goto(p, "flusher", "calling")
  /\ UNCHANGED <<clientVars, sending, net, reached, serverVars>>

Publish(p) ==
  /\ published[p] < MaxItems
  /\ pc[<<p, "exit">>] \notin {"closed", "failed"}
  /\ published' = [published EXCEPT ![p] = @ + 1]
  /\ UNCHANGED <<batched, pending_from, pending_seq, pending_since, sequence, dropped,
                 pc, sending, net, reached, serverVars>>

\* flush(), and the test of its loop and of the one in __aexit__
CallFlush(p, c) ==
  /\ c \in Apps
  /\ pc[<<p, c>>] = "idle"
  /\ Goto(p, c, "calling")
  /\ UNCHANGED <<clientVars, sending, net, reached, serverVars>>

LeaveLoop(p, c) ==
  /\ c # "flusher" /\ pc[<<p, c>>] = "calling"
  /\ ~Pending(p) /\ ~Buffered(p)
  /\ Goto(p, c, IF c = "exit" THEN "closed" ELSE "idle")
  /\ UNCHANGED <<clientVars, sending, net, reached, serverVars>>

\* __aexit__ cancels the flusher, wherever it waits, and joins it: an exception it
\* has died of is raised again, and nothing is flushed.
Exit(p) ==
  /\ pc[<<p, "flusher">>] # "idle" /\ pc[<<p, "exit">>] = "idle"
  /\ pc' = IF pc[<<p, "flusher">>] = "dead"
           THEN [pc EXCEPT ![<<p, "exit">>] = "failed"]
           ELSE [pc EXCEPT ![<<p, "exit">>] = "calling", ![<<p, "flusher">>] = "stopped"]
  /\ sending' = [sending EXCEPT ![<<p, "flusher">>] = 0]
  /\ UNCHANGED <<clientVars, net, reached, serverVars>>

\* Before Python 3.12 wait_for returns the result of a wait that is over and
\* swallows the cancellation that comes at the same time: the flusher whose event
\* was set goes on, and __aexit__ waits for it.  Any item may have been published
\* with force_flush or have filled a batch; that the event is still set is one of
\* the cases.
CancelLost(p) ==
  /\ pc[<<p, "flusher">>] = "waiting" /\ pc[<<p, "exit">>] = "idle"
  /\ published[p] > 0
  /\ pc' = [pc EXCEPT ![<<p, "exit">>] = "joining", ![<<p, "flusher">>] = "calling"]
  /\ UNCHANGED <<clientVars, sending, net, reached, serverVars>>

\* Only an exception ends such a flusher, and __aexit__ raises it.
JoinRaises(p) ==
  /\ pc[<<p, "exit">>] = "joining" /\ pc[<<p, "flusher">>] = "dead"
  /\ Goto(p, "exit", "failed")
  /\ UNCHANGED <<clientVars, sending, net, reached, serverVars>>

-----------------------------------------------------------------------------
\* A signal arrives, for the first time or once more.
Receive(m) ==
  /\ Len(inbox) < MaxInbox
  /\ inbox' = Append(inbox, m)
  /\ reached' = reached \cup {<<m.pub, m.seq>>}
  /\ UNCHANGED <<clientVars, pc, sending, net, streamVars, accepted>>

\* The workflow handles the next signal of its history.
Handle ==
  /\ inbox # <<>>
  /\ LET m == Head(inbox) IN
       /\ OnPublish(m)
       /\ accepted' = IF m.seq <= seen_sequence[m.pub] THEN accepted
                      ELSE [accepted EXCEPT ![m.pub] = [seq |-> m.seq, item |-> m.hi, at |-> now]]
  /\ inbox' = Tail(inbox)
  /\ UNCHANGED <<clientVars, pc, sending, net, reached>>

\* The server closes no run that has not handled all of its signals.
ContinueAsNew ==
  /\ inbox = <<>>
  /\ NextRun
  /\ UNCHANGED <<clientVars, pc, sending, net, reached, inbox, accepted>>

Tick ==
  /\ now < MaxTime
  /\ now' = now + 1
  /\ net' = {m \in net : m.sent + MaxDelay >= now + 1}
  /\ UNCHANGED <<clientVars, pc, sending, reached, log, base_offset, seen_sequence,
                 last_seen, detaching, appended, inbox, accepted>>

FlushStep(p, c) ==
  \/ Queue(p, c) \/ DropPending(p, c) \/ RetryPending(p, c) \/ SendBatch(p, c)
  \/ EncodeFails(p, c) \/ NothingToFlush(p, c)
  \/ SignalDone(p, c) \/ SignalFails(p, c) \/ LeaveLoop(p, c)

Next ==
  \/ \E p \in Publishers :
       \/ Enter(p) \/ Wake(p) \/ Publish(p) \/ Exit(p) \/ CancelLost(p) \/ JoinRaises(p)
       \/ \E c \in Callers : FlushStep(p, c) \/ CallFlush(p, c)
  \/ \E m \in net : Receive(m)
  \/ Handle \/ ContinueAsNew \/ Tick

Spec == Init /\ [][Next]_vars

\* Fairness: the event loop runs every coroutine that can run and hands the lock
\* to every waiter in turn, and every signal call ends, one way or the other.
\* Nothing is asked of the flusher, which has ended when __aexit__ flushes.
Fairness ==
  \A p \in Publishers : \A c \in Callers \ {"flusher"} :
    /\ SF_vars(\/ Queue(p, c) \/ DropPending(p, c) \/ RetryPending(p, c) \/ SendBatch(p, c)
               \/ EncodeFails(p, c) \/ NothingToFlush(p, c) \/ LeaveLoop(p, c))
    /\ WF_vars(SignalDone(p, c) \/ SignalFails(p, c))

LiveSpec == Spec /\ Fairness

-----------------------------------------------------------------------------
\* The type of every variable, and the one caller that may hold the flush lock.
TypeOK ==
  /\ published \in [Publishers -> 0..MaxItems]
  /\ batched \in [Publishers -> 0..MaxItems]
  /\ pending_from \in [Publishers -> 0..MaxItems]
  /\ pending_seq \in [Publishers -> 0..MaxItems]
  /\ pending_since \in [Publishers -> 0..MaxTime]
  /\ sequence \in [Publishers -> 0..MaxItems]
  /\ \A p \in Publishers : Cardinality({c \in Callers : pc[<<p, c>>] = "sending"}) <= 1

\* What the stream promises: the log takes the items of a publisher at most once
\* and in order, whatever is retried, duplicated, delayed or given up, and however
\* often the workflow continues as new.
Log == INSTANCE StreamLog WITH Publishers <- Publishers, published <- published,
                              appended <- appended
ImplementsLog == Log!Spec

Delivered(p, n) ==
  \/ \E i \in DOMAIN appended : appended[i] = <<p, n>>
  \/ \E i \in DOMAIN inbox : inbox[i].pub = p /\ n \in inbox[i].lo .. inbox[i].hi

\* No item is lost in silence: each one is still in the buffer or in the pending
\* batch, has reached the workflow, or was given up with a TimeoutError.
NoSilentLoss ==
  \A p \in Publishers : \A n \in 1..published[p] :
    \/ n > batched[p]
    \/ Pending(p) /\ n >= pending_from[p]
    \/ Delivered(p, n)
    \/ <<p, n>> \in dropped

\* Leaving the context without an exception means that every item has reached the
\* workflow or was given up with a TimeoutError: neither the batch of a cancelled
\* flusher nor what was published meanwhile is left behind.
ClosedDelivered ==
  \A p \in Publishers : pc[<<p, "exit">>] = "closed" =>
    \A n \in 1..published[p] : Delivered(p, n) \/ <<p, n>> \in dropped

\* Once the flusher has ended, leaving the context ends, with or without an
\* exception, also while coroutines call flush() and hold the lock, and provided
\* that they stop publishing (MaxItems).  A flusher that swallowed the
\* cancellation (CancelLost) may keep __aexit__ waiting for ever.
ExitEnds ==
  \A p \in Publishers :
    pc[<<p, "exit">>] = "calling" ~> pc[<<p, "exit">>] \in {"closed", "failed"}

=============================================================================
