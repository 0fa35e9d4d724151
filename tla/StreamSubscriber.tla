-------------------------- MODULE StreamSubscriber --------------------------
(***************************************************************************)
(* The subscribing half of WorkflowStreamClient                            *)
(* (contrib/workflow_streams/_client.py, subscribe) against a workflow     *)
(* that publishes, truncates, continues as new and ends (WorkflowStream).  *)
(*                                                                         *)
(* A poll is an update of the workflow: the client learns the run it was   *)
(* admitted to once it is accepted, and its outcome later.  The runs of    *)
(* the chain are numbered; all but the last have continued as new.  The    *)
(* client is one made by create(): its handle addresses the latest run and *)
(* it has a Client to describe runs with.  One made from a bare handle     *)
(* (client is None) never follows a continue-as-new and is not modelled.   *)
(***************************************************************************)
EXTENDS WorkflowStream

CONSTANTS
  Subs,             \* subscriptions
  Clients,          \* client objects
  ClientOf,         \* the client object of a subscription
  Topics,           \* topics
  TopicFilter,      \* the topics a subscription asks for, {} for all
  FromOffsets,      \* the values of from_offset
  MaxItems,         \* bound: items appended to the log
  MaxRuns           \* bound: runs of the chain

ASSUME SubscriberAssumption ==
  /\ ClientOf \in [Subs -> Clients]
  /\ FromOffsets \subseteq Nat

VARIABLES
  run,              \* the latest run
  closed,           \* the latest run has ended and was not continued
  pc,               \* where a subscription is
  from,             \* from_offset
  offset,           \* offset
  admitted,         \* the run the current poll was admitted to
  outcome,          \* the outcome of the current poll, or NoOutcome
  polled_run,       \* _polled_run_id of a client object, 0 for None
  yielded,          \* history: the items yielded, in order
  disturbed         \* a call has timed out or failed, or it was cancelled;
                    \* bound: at most one of these for each subscription

chainVars == <<run, closed>>
subVars == <<pc, from, offset, admitted, outcome, polled_run, yielded, disturbed>>
vars == <<streamVars, chainVars, subVars>>

Outcome(kind) == [kind |-> kind, items |-> {}, next |-> 0, more |-> FALSE]
NoOutcome == Outcome("none")

Init ==
  /\ StreamInit
  /\ run = 1
  /\ closed = FALSE
  /\ pc = [s \in Subs |-> "polling"]
  /\ from \in [Subs -> FromOffsets]
  /\ offset = from
  /\ admitted = [s \in Subs |-> 0]
  /\ outcome = [s \in Subs |-> NoOutcome]
  /\ polled_run = [c \in Clients |-> 0]
  /\ yielded = [s \in Subs |-> <<>>]
  /\ disturbed = [s \in Subs |-> FALSE]

-----------------------------------------------------------------------------
\* The workflow.  A poll is open while its handler waits in the latest run.
Open(s) == pc[s] \in {"starting", "waiting"} /\ admitted[s] = run /\ outcome[s] = NoOutcome

\* A run that ends fails the polls that are open in it.
FailOpenPolls ==
  outcome' = [s \in Subs |-> IF Open(s) THEN Outcome("completed") ELSE outcome[s]]

WorkflowPublish(t) ==
  /\ ~closed /\ Len(appended) < MaxItems
  /\ PublishToTopic(<<t, Len(appended)>>)
  /\ UNCHANGED <<chainVars, subVars>>

WorkflowTruncate ==
  /\ ~closed
  /\ \E u \in 1..MaxItems : Truncate(u)
  /\ UNCHANGED <<chainVars, subVars>>

WorkflowDetach ==
  /\ ~closed /\ ~detaching
  /\ DetachPollers
  /\ UNCHANGED <<chainVars, subVars>>

\* continue_as_new of the stream waits for all handlers once pollers are detached;
\* a workflow may also continue as new without it.
WorkflowContinue ==
  /\ ~closed /\ run < MaxRuns
  /\ detaching => \A s \in Subs : ~Open(s)
  /\ FailOpenPolls
  /\ NextRun
  /\ run' = run + 1
  /\ UNCHANGED <<closed, pc, from, offset, admitted, polled_run, yielded, disturbed>>

WorkflowClose ==
  /\ ~closed
  /\ closed' = TRUE
  /\ FailOpenPolls
  /\ UNCHANGED <<streamVars, run, pc, from, offset, admitted, polled_run, yielded, disturbed>>

\* _on_poll
OnPoll(s) ==
  /\ ~closed /\ Open(s)
  /\ Readable(offset[s])
  /\ \E stop \in Stops(offset[s], TopicFilter[s]) :
       outcome' = [outcome EXCEPT ![s] = PollResult(offset[s], TopicFilter[s], stop)]
  /\ UNCHANGED <<streamVars, chainVars, pc, from, offset, admitted, polled_run, yielded, disturbed>>

-----------------------------------------------------------------------------
\* The subscription.  _follow_continue_as_new is entered at "follow" after a failed
\* update and at "missing" after NOT_FOUND.
Goto(s, l) == pc' = [pc EXCEPT ![s] = l]

\* The poll is over: its handle is dropped.
Forget(s) ==
  /\ admitted' = [admitted EXCEPT ![s] = 0]
  /\ outcome' = [outcome EXCEPT ![s] = NoOutcome]

\* start_update reaches the server.  A draining stream rejects the poll.
StartUpdate(s) ==
  /\ pc[s] = "polling" /\ ~closed
  /\ Goto(s, "starting")
  /\ admitted' = [admitted EXCEPT ![s] = run]
  /\ outcome' = [outcome EXCEPT ![s] = IF detaching THEN Outcome("draining") ELSE NoOutcome]
  /\ UNCHANGED <<streamVars, chainVars, from, offset, polled_run, yielded, disturbed>>

StartUpdateNotFound(s) ==
  /\ pc[s] = "polling" /\ closed
  /\ Goto(s, "missing")
  /\ UNCHANGED <<streamVars, chainVars, from, offset, admitted, outcome, polled_run, yielded, disturbed>>

\* Mutant: the run the poll was admitted to is not recorded.
Started_unrecorded(s) ==
  /\ pc[s] = "starting"
  /\ Goto(s, "waiting")
  /\ UNCHANGED <<streamVars, chainVars, from, offset, admitted, outcome, polled_run, yielded, disturbed>>

\* start_update returns a handle: the run it was admitted to is recorded.
Started(s) ==
  /\ pc[s] = "starting"
  /\ polled_run' = [polled_run EXCEPT ![ClientOf[s]] = admitted[s]]
  /\ Goto(s, "waiting")
  /\ UNCHANGED <<streamVars, chainVars, from, offset, admitted, outcome, yielded, disturbed>>

\* handle.result() has returned a page, whose items are yielded one by one, in the
\* order of their offsets.
YieldItem(s) ==
  /\ pc[s] \in {"waiting", "yielding"} /\ outcome[s].kind = "items"
  /\ \E i \in outcome[s].items :
       /\ \A j \in outcome[s].items : i[1] <= j[1]
       /\ yielded' = [yielded EXCEPT ![s] = Append(@, i)]
       /\ outcome' = [outcome EXCEPT ![s].items = @ \ {i}]
  /\ Goto(s, "yielding")
  /\ UNCHANGED <<streamVars, chainVars, from, offset, admitted, polled_run, disturbed>>

\* After the last item of the page.
EndPage(s) ==
  /\ pc[s] \in {"waiting", "yielding"}
  /\ outcome[s].kind = "items" /\ outcome[s].items = {}
  /\ offset' = [offset EXCEPT ![s] = outcome[s].next]
  /\ Goto(s, IF outcome[s].more THEN "polling" ELSE "cooling")
  /\ Forget(s)
  /\ UNCHANGED <<streamVars, chainVars, from, polled_run, yielded, disturbed>>

\* Mutant: a truncated position is polled again.
UpdateFailed_keepsOffset(s) ==
  /\ pc[s] = "waiting"
  /\ outcome[s].kind \in {"truncated", "draining", "completed"}
  /\ UNCHANGED offset
  /\ Goto(s, CASE outcome[s].kind = "truncated" -> "polling"
               [] outcome[s].kind = "draining" -> "cooling"
               [] OTHER -> "follow")
  /\ Forget(s)
  /\ UNCHANGED <<streamVars, chainVars, from, polled_run, yielded, disturbed>>

\* handle.result() raises WorkflowUpdateFailedError with one of the three causes
\* that subscribe handles.
UpdateFailed(s) ==
  /\ pc[s] = "waiting"
  /\ \/ /\ outcome[s].kind = "truncated"
        /\ offset' = [offset EXCEPT ![s] = 0]
        /\ Goto(s, "polling")
     \/ /\ outcome[s].kind = "draining"
        /\ UNCHANGED offset
        /\ Goto(s, "cooling")
     \/ /\ outcome[s].kind = "completed"
        /\ UNCHANGED offset
        /\ Goto(s, "follow")
  /\ Forget(s)
  /\ UNCHANGED <<streamVars, chainVars, from, polled_run, yielded, disturbed>>

\* The update call times out, or it is cancelled: both reach subscribe as
\* WorkflowUpdateRPCTimeoutOrCancelledError.
TimedOutOrCancelled(s) ==
  /\ pc[s] \in {"starting", "waiting"} /\ ~disturbed[s]
  /\ Goto(s, "follow")
  /\ Forget(s)
  /\ disturbed' = [disturbed EXCEPT ![s] = TRUE]
  /\ UNCHANGED <<streamVars, chainVars, from, offset, polled_run, yielded>>

\* The update fails for any other cause, or its call with an RPC error other than
\* NOT_FOUND, or the page cannot be decoded: subscribe raises.
CallRaises(s) ==
  /\ pc[s] \in {"polling", "starting", "waiting"} /\ ~disturbed[s]
  /\ Goto(s, "raised")
  /\ Forget(s)
  /\ disturbed' = [disturbed EXCEPT ![s] = TRUE]
  /\ UNCHANGED <<streamVars, chainVars, from, offset, polled_run, yielded>>

\* Cancelled anywhere else, or closed by its consumer between two items, the
\* generator ends.
Cancelled(s) ==
  /\ pc[s] \in {"polling", "yielding", "cooling", "follow", "missing", "terminal"}
  /\ ~disturbed[s]
  /\ Goto(s, "cancelled")
  /\ disturbed' = [disturbed EXCEPT ![s] = TRUE]
  /\ UNCHANGED <<streamVars, chainVars, from, offset, admitted, outcome, polled_run, yielded>>

Cooled(s) ==
  /\ pc[s] = "cooling"
  /\ Goto(s, "polling")
  /\ UNCHANGED <<streamVars, chainVars, from, offset, admitted, outcome, polled_run, yielded, disturbed>>

\* The status describe reports for the run the client object polled last.
PolledStatus(s) ==
  LET r == polled_run[ClientOf[s]]
  IN  IF r # 0 /\ r < run THEN "CONTINUED_AS_NEW"
      ELSE IF closed THEN "COMPLETED" ELSE "RUNNING"

\* Mutant: NOT_FOUND polls again without a look at the workflow's status.
Follow_repolls(s) ==
  /\ pc[s] \in {"follow", "missing"}
  /\ Goto(s, IF PolledStatus(s) = "CONTINUED_AS_NEW" \/ pc[s] = "missing"
             THEN "polling" ELSE "ended")
  /\ UNCHANGED <<streamVars, chainVars, from, offset, admitted, outcome, polled_run, yielded, disturbed>>

\* _follow_continue_as_new, after a failed update or after NOT_FOUND
Follow(s) ==
  /\ pc[s] \in {"follow", "missing"}
  /\ Goto(s, IF PolledStatus(s) = "CONTINUED_AS_NEW" THEN "polling"
             ELSE IF pc[s] = "follow" THEN "ended" ELSE "terminal")
  /\ UNCHANGED <<streamVars, chainVars, from, offset, admitted, outcome, polled_run, yielded, disturbed>>

\* _workflow_in_terminal_state; NOT_FOUND is raised when it is not
InTerminalState(s) ==
  /\ pc[s] = "terminal"
  /\ Goto(s, IF PolledStatus(s) = "COMPLETED" THEN "ended" ELSE "raised")
  /\ UNCHANGED <<streamVars, chainVars, from, offset, admitted, outcome, polled_run, yielded, disturbed>>

\* A describe that fails counts as "not continued" and as "not terminal".
DescribeFails(s) ==
  /\ pc[s] \in {"follow", "missing", "terminal"} /\ ~disturbed[s]
  /\ Goto(s, CASE pc[s] = "follow" -> "ended"
               [] pc[s] = "missing" -> "terminal"
               [] OTHER -> "raised")
  /\ disturbed' = [disturbed EXCEPT ![s] = TRUE]
  /\ UNCHANGED <<streamVars, chainVars, from, offset, admitted, outcome, polled_run, yielded>>

SubStep(s) ==
  \/ StartUpdate(s) \/ StartUpdateNotFound(s) \/ Started(s) \/ YieldItem(s)
  \/ EndPage(s) \/ UpdateFailed(s) \/ Cooled(s) \/ Follow(s) \/ InTerminalState(s)

Next ==
  \/ \E t \in Topics : WorkflowPublish(t)
  \/ WorkflowTruncate \/ WorkflowDetach \/ WorkflowContinue \/ WorkflowClose
  \/ \E s \in Subs : OnPoll(s) \/ SubStep(s) \/ TimedOutOrCancelled(s) \/ CallRaises(s)
                     \/ Cancelled(s) \/ DescribeFails(s)

\* Fairness: the consumer asks for the next item, the server answers, the
\* workflow's worker runs the poll's handler once its condition holds, and a
\* workflow that has detached its pollers goes on to end the run.
Fairness ==
  /\ \A s \in Subs : WF_vars(OnPoll(s)) /\ WF_vars(SubStep(s))
  /\ WF_vars(detaching /\ (WorkflowContinue \/ WorkflowClose))

Spec == Init /\ [][Next]_vars /\ Fairness

-----------------------------------------------------------------------------
Matches(s, item) == TopicFilter[s] = {} \/ item[1] \in TopicFilter[s]
Offsets(s) == {yielded[s][i][1] : i \in DOMAIN yielded[s]}
Done(s) == pc[s] \in {"ended", "raised", "cancelled"}

\* A subscription yields the matching items of the log in the order of their
\* offsets, none of them twice and each with the offset it was appended at, and
\* skips none: what lies behind its offset, or behind an item it has yielded, was
\* yielded, is of another topic, or has been truncated.  This holds across
\* truncation, capped responses, retried polls and continue-as-new.
YieldsLog ==
  \A s \in Subs :
    /\ \A i \in DOMAIN yielded[s] :
         /\ yielded[s][i][2] = appended[yielded[s][i][1] + 1]
         /\ Matches(s, yielded[s][i][2])
         /\ \A j \in DOMAIN yielded[s] : i < j => yielded[s][i][1] < yielded[s][j][1]
    /\ \A o \in from[s] .. Len(appended) - 1 :
         (o < offset[s] \/ \E q \in Offsets(s) : o < q) =>
           o \in Offsets(s) \/ ~Matches(s, appended[o + 1]) \/ o < base_offset

\* Unless a call failed or it was cancelled, a subscription ends only after the
\* last run of the chain has ended, never because a run continued as new, and it
\* raises nothing.
EndsOnlyWithStream ==
  \A s \in Subs : disturbed[s] \/ (pc[s] # "raised" /\ (pc[s] = "ended" => closed))

\* Every item that stays in the log is yielded in the end, unless the workflow or
\* the subscription ends first: no wait misses a truncation, a rollover or a page.
ReadsOn ==
  \A s \in Subs : \A o \in 0..(MaxItems - 1) :
    (from[s] <= o /\ o < Len(appended) /\ Matches(s, appended[o + 1]))
      ~> (o \in Offsets(s) \/ o < base_offset \/ closed \/ Done(s))

\* A subscription whose last poll was admitted to the last run ends with it.
EndsWithLastRun ==
  \A s \in Subs : (closed /\ polled_run[ClientOf[s]] = run) ~> Done(s)

\* The comment in subscribe: "subscribe exits cleanly on terminal status".  Without
\* the condition above it does not: when the last run ends before a poll reaches
\* it, the polled run is an earlier one, which has continued as new.
EndsWithStream ==
  \A s \in Subs : closed ~> Done(s)

=============================================================================
