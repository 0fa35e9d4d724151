--------------------------- MODULE WorkflowStream ---------------------------
(***************************************************************************)
(* The workflow's side of a stream (contrib/workflow_streams/_stream.py):  *)
(* the log and its truncation, the table that deduplicates batches, the    *)
(* answer to a poll, and what continue-as-new carries to the next run.     *)
(*                                                                         *)
(* An item is a pair whose first component is what a filter looks at (its  *)
(* topic, or its publisher where topics do not matter) and whose second    *)
(* component tells it from the others.  Offsets count from 0, as in the    *)
(* code; sequences of TLA+ count from 1.                                   *)
(***************************************************************************)
EXTENDS Integers, Sequences, FiniteSets

CONSTANTS
  Publishers,       \* the publisher ids
  PublisherTTL      \* publisher_ttl of get_state

VARIABLES
  log,              \* _log
  base_offset,      \* _base_offset
  seen_sequence,    \* _publishers[p].sequence, 0 where p has no entry
  last_seen,        \* _publishers[p].last_seen
  detaching,        \* _detaching
  now,              \* the clock, of workflow.now() and time.monotonic()
  appended          \* history: everything ever appended, truncated or not

streamVars == <<log, base_offset, seen_sequence, last_seen, detaching, now, appended>>

StreamInit ==
  /\ log = <<>>
  /\ base_offset = 0
  /\ seen_sequence = [p \in Publishers |-> 0]
  /\ last_seen = [p \in Publishers |-> 0]
  /\ detaching = FALSE
  /\ now = 0
  /\ appended = <<>>

Batch(p, lo, hi) == [i \in 1..(hi - lo + 1) |-> <<p, lo + i - 1>>]

Grow(items) ==
  /\ log' = log \o items
  /\ appended' = appended \o items

\* _publish_to_topic of the workflow's own stream object
PublishToTopic(item) ==
  /\ Grow(<<item>>)
  /\ UNCHANGED <<base_offset, seen_sequence, last_seen, detaching, now>>

\* Mutant: the last sequence number itself counts as new.
OnPublish_offByOne(m) ==
  IF m.seq < seen_sequence[m.pub]
  THEN UNCHANGED streamVars
  ELSE /\ seen_sequence' = [seen_sequence EXCEPT ![m.pub] = m.seq]
       /\ last_seen' = [last_seen EXCEPT ![m.pub] = now]
       /\ Grow(Batch(m.pub, m.lo, m.hi))
       /\ UNCHANGED <<base_offset, detaching, now>>

\* A batch whose sequence number is not above the last one seen of its publisher
\* is dropped as a whole.  WorkflowStreamClient always sends its publisher id; a
\* batch without one, from another sender, is appended and never deduplicated.
OnPublish(m) ==
  IF m.seq <= seen_sequence[m.pub]
  THEN UNCHANGED streamVars
  ELSE /\ seen_sequence' = [seen_sequence EXCEPT ![m.pub] = m.seq]
       /\ last_seen' = [last_seen EXCEPT ![m.pub] = now]
       /\ Grow(Batch(m.pub, m.lo, m.hi))
       /\ UNCHANGED <<base_offset, detaching, now>>

\* Past the end of the log truncate raises and changes nothing.
Truncate(up_to_offset) ==
  /\ up_to_offset > base_offset
  /\ up_to_offset <= base_offset + Len(log)
  /\ log' = SubSeq(log, up_to_offset - base_offset + 1, Len(log))
  /\ base_offset' = up_to_offset
  /\ UNCHANGED <<seen_sequence, last_seen, detaching, now, appended>>

DetachPollers ==
  /\ detaching' = TRUE
  /\ UNCHANGED <<log, base_offset, seen_sequence, last_seen, now, appended>>

\* get_state drops the entries of the publishers not heard of for PublisherTTL.
Active(p) == now - last_seen[p] < PublisherTTL

\* The snapshot of get_state, restored by __init__ of the next run.
NextRun ==
  /\ seen_sequence' = [p \in Publishers |-> IF Active(p) THEN seen_sequence[p] ELSE 0]
  /\ last_seen' = [p \in Publishers |-> IF Active(p) THEN last_seen[p] ELSE 0]
  /\ detaching' = FALSE
  /\ UNCHANGED <<log, base_offset, now, appended>>

-----------------------------------------------------------------------------
\* The condition _on_poll waits for.
Readable(from_offset) ==
  \/ from_offset < base_offset
  \/ Len(log) > from_offset - base_offset
  \/ detaching

\* The offsets of the items a poll asks for.
Matching(from_offset, topics) ==
  LET start == IF from_offset < base_offset THEN base_offset ELSE from_offset
  IN  {o \in start .. base_offset + Len(log) - 1 :
         topics = {} \/ log[o - base_offset + 1][1] \in topics}

\* Where a response can end: at the end of the log, or at an item that does not fit
\* any more.  Its size is capped, and the first item is sent whatever its size.
Stops(from_offset, topics) ==
  LET matching == Matching(from_offset, topics)
  IN  {base_offset + Len(log)} \cup {o \in matching : \E q \in matching : q < o}

\* Mutant: a capped answer names the end of the log as the next offset.
PollResult_skipsRest(from_offset, topics, stop) ==
  IF from_offset < base_offset /\ from_offset # 0
  THEN [kind |-> "truncated", items |-> {}, next |-> 0, more |-> FALSE]
  ELSE [kind |-> "items",
        items |-> {<<o, log[o - base_offset + 1]>> :
                     o \in {q \in Matching(from_offset, topics) : q < stop}},
        next |-> base_offset + Len(log),
        more |-> stop # base_offset + Len(log)]

\* What _on_poll answers once it is woken: the matching items up to stop.
PollResult(from_offset, topics, stop) ==
  IF from_offset < base_offset /\ from_offset # 0
  THEN [kind |-> "truncated", items |-> {}, next |-> 0, more |-> FALSE]
  ELSE [kind |-> "items",
        items |-> {<<o, log[o - base_offset + 1]>> :
                     o \in {q \in Matching(from_offset, topics) : q < stop}},
        next |-> stop,
        more |-> stop # base_offset + Len(log)]

=============================================================================
