-------------------------- MODULE WorkflowInstance --------------------------
(***************************************************************************)
(* One workflow instance (worker/_workflow_instance.py): how an activation *)
(* is applied, and the deterministic event loop that then runs workflow    *)
(* code until nothing is ready.                                            *)
(*                                                                         *)
(* The attributes of the instance are the fields of the record wf, and     *)
(* applying a job is a function from wf to wf.  Workflow code is any       *)
(* sequence of segments of Code: a segment has one effect on the state the *)
(* code shares (the flag gate, or a signal handler set or removed) and     *)
(* then awaits a condition, with or without a timeout, or ends the task;   *)
(* during an eviction it may await a future that nobody resolves.          *)
(* The ready queue holds the handles of the loop in order:                 *)
(*   <<"step", t>>      task t runs until its next await                   *)
(*   <<"cancel", t>>    the deferred Task.cancel of a workflow cancel      *)
(*   <<"timer", t, k>>  the handle of a fired timer, the k-th wait of t    *)
(*   <<"done", t>>      the done callbacks of task t                       *)
(***************************************************************************)
EXTENDS Integers, Sequences, FiniteSets, SequencesExt

CONSTANTS MaxSignals, MaxUpdates,      \* how many jobs the server may send; signals
          MaxQueries,                  \* are numbered in the order of their jobs
          SignalName,                  \* the name of each signal, by its number
          Undecodable,                 \* signals whose input does not decode
          Names,                       \* signal names; Dynamic is not one
          Code,                        \* kind of task -> set of segments
          Defined,                     \* sets of handlers a workflow class may define
          Constructor,                 \* effects of the workflow's __init__
          Modes,                       \* values of the single-batch flag
          MaxAwaits,                   \* kind of task -> bound on its waits
          MaxJobs                      \* bound on the jobs of one activation

(* A task is <<kind, number>>. *)
Main == <<"run", 1>>
Signals == {<<"signal", i>> : i \in 1..MaxSignals}
Updates == {<<"update", i>> : i \in 1..MaxUpdates}
Queries == {<<"query", i>> : i \in 1..MaxQueries}
Dynamic == "dynamic"
Tasks == {Main} \cup Signals \cup Updates \cup Queries

VARIABLES wf,       \* the instance
          running,  \* activate is running
          todo,     \* legacy mode: the jobs of the second set, not applied yet
          checking, \* _run_once's check_conditions
          ran,      \* a handle has run since the conditions were last checked
          failed,   \* the last activation failed the workflow task
          arrived,  \* the number of signals sent
          begun,    \* history: signals in the order their handlers began
          raised,   \* history: a CancelledError was raised in the run method
          dropped   \* history: the legacy mode had a cancellation and no run method yet

vars == <<wf, running, todo, checking, ran, failed, arrived, begun, raised, dropped>>

Kind(t) == t[1]
NameOf(s) == SignalName[s[2]]

NoWait == [fn |-> "none", timed |-> FALSE, before |-> FALSE]

Init ==
    /\ \E handlers \in Defined :
       wf = [single_batch |-> FALSE,
             object |-> FALSE,
             ready |-> <<>>,
             state |-> [t \in Tasks |-> "none"],
             must_cancel |-> {},
             woken |-> [t \in Tasks |-> "no"],
             conditions |-> <<>>,
             wait |-> [t \in Tasks |-> NoWait],
             awaits |-> [t \in Tasks |-> 0],
             pending_timers |-> {},
             signals |-> handlers,
             buffered_signals |-> <<>>,
             in_progress_signals |-> {},
             in_progress_updates |-> {},
             cancel_reason |-> FALSE,
             cancel_pending |-> FALSE,
             deleting |-> FALSE,
             error |-> FALSE,
             gate |-> FALSE,
             ended |-> {},
             responses |-> [t \in Updates \cup Queries |-> <<>>]]
    /\ running = FALSE /\ todo = <<>> /\ checking = FALSE /\ ran = FALSE
    /\ failed = FALSE
    /\ arrived = 0 /\ begun = <<>> /\ raised = FALSE /\ dropped = FALSE

-----------------------------------------------------------------------------
(* Tasks and handles. *)

CallSoon(w, h) == [w EXCEPT !.ready = Append(@, h)]

CreateTask(w, t) ==
    CallSoon([w EXCEPT !.state[t] = "scheduled"], <<"step", t>>)

(* A task whose future is done runs again; reason is what it finds. *)
Wake(w, t, reason) ==
    CallSoon([w EXCEPT !.state[t] = "scheduled",
                       !.woken[t] = reason,
                       !.conditions = SelectSeq(@, LAMBDA c : c # t)],
             <<"step", t>>)

(* asyncio's Task.cancel: the awaited future is cancelled, and a task that  *)
(* is already scheduled finds the cancellation when it runs.                *)
CancelTask(w, t) ==
    LET c == [w EXCEPT !.must_cancel = @ \cup {t}]
    IN  CASE w.state[t] = "waiting" -> Wake(c, t, "no")
          [] w.state[t] = "scheduled" -> c
          [] OTHER -> w

AllHandlersFinished(w) ==
    w.in_progress_updates = {} /\ w.in_progress_signals = {}

Holds(w, fn) == IF fn = "gate" THEN w.gate ELSE AllHandlersFinished(w)

-----------------------------------------------------------------------------
(* Signals: handled by name, by the dynamic handler, or buffered. *)

ProcessSignalJob(w, s) ==
    IF s \in Undecodable THEN w
    ELSE CreateTask([w EXCEPT !.in_progress_signals = @ \cup {s}], s)

ApplySignalWorkflow(w, s) ==
    IF {NameOf(s), Dynamic} \cap w.signals # {}
    THEN ProcessSignalJob(w, s)
    ELSE [w EXCEPT !.buffered_signals = Append(@, s)]

(* The buffer is a dict of lists by name: the dynamic handler takes it name *)
(* by name, in the order in which the names were first buffered.            *)
ByName(buffer) ==
    LET first == SelectSeq([i \in DOMAIN buffer |-> i],
                   LAMBDA i : \A j \in 1..(i - 1) :
                                 NameOf(buffer[j]) # NameOf(buffer[i]))
    IN  FlattenSeq([k \in DOMAIN first |->
            SelectSeq(buffer, LAMBDA s : NameOf(s) = NameOf(buffer[first[k]]))])

(* Mutant: the buffer keeps the signals it hands over. *)
SetSignalHandler_keepsBuffer(w, n, on) ==
    LET taken == SelectSeq(w.buffered_signals, LAMBDA s : n \in {Dynamic, NameOf(s)})
    IN  IF on THEN FoldLeft(ProcessSignalJob, [w EXCEPT !.signals = @ \cup {n}], taken)
        ELSE [w EXCEPT !.signals = @ \ {n}]

SetSignalHandler(w, n, on) ==
    LET taken == IF n = Dynamic THEN ByName(w.buffered_signals)
                 ELSE SelectSeq(w.buffered_signals, LAMBDA s : NameOf(s) = n)
        set == [w EXCEPT !.signals = @ \cup {n},
                         !.buffered_signals = SelectSeq(@, LAMBDA s : ~Contains(taken, s))]
    IN  IF on THEN FoldLeft(ProcessSignalJob, set, taken)
        ELSE [w EXCEPT !.signals = @ \ {n}]

-----------------------------------------------------------------------------
(* The other jobs. *)

(* Mutant: a cancellation listed before the initialization is not kept. *)
ApplyCancelWorkflow_notKept(w) ==
    LET c == [w EXCEPT !.cancel_reason = TRUE]
    IN  IF w.state[Main] # "none" THEN CallSoon(c, <<"cancel", Main>>) ELSE c

ApplyCancelWorkflow(w) ==
    LET c == [w EXCEPT !.cancel_reason = TRUE]
    IN  CASE w.state[Main] # "none" -> CallSoon(c, <<"cancel", Main>>)
          [] w.state[Main] = "none" /\ w.single_batch -> [c EXCEPT !.cancel_pending = TRUE]
          [] OTHER -> c

ApplyInitializeWorkflow(w) ==
    LET c == CreateTask(w, Main)
    IN  IF w.cancel_pending
        THEN CallSoon([c EXCEPT !.cancel_pending = FALSE], <<"cancel", Main>>)
        ELSE c

ApplyFireTimer(w, timer) ==
    IF timer \in w.pending_timers
    THEN CallSoon([w EXCEPT !.pending_timers = @ \ {timer}],
                  <<"timer", timer[1], timer[2]>>)
    ELSE w

ApplyRemoveFromCache(w) ==
    FoldLeft(CancelTask, [w EXCEPT !.deleting = TRUE], SetToSeq(Tasks))

Apply(w, job) ==
    CASE job[1] = "signal_workflow"     -> ApplySignalWorkflow(w, job[2])
      [] job[1] = "do_update"           -> CreateTask(w, job[2])
      [] job[1] = "query_workflow"      -> CreateTask(w, job[2])
      [] job[1] = "initialize_workflow" -> ApplyInitializeWorkflow(w)
      [] job[1] = "cancel_workflow"     -> ApplyCancelWorkflow(w)
      [] job[1] = "fire_timer"          -> ApplyFireTimer(w, job[2])
      [] job[1] = "remove_from_cache"   -> ApplyRemoveFromCache(w)

-----------------------------------------------------------------------------
(* Workflow code. *)

(* Mutant: the update's wrapper does not catch CancelledError. *)
EndUpdate_cancelEscapes(w, u, how) ==
    CASE how = "return" -> [w EXCEPT !.responses[u] = Append(@, "completed")]
      [] how = "failure" -> [w EXCEPT !.responses[u] = Append(@, "rejected")]
      [] how = "cancel" -> w
      [] how \in {"error", "continue_as_new"} -> [w EXCEPT !.error = TRUE]

(* What the wrapper of a task makes of its end: a command, or the error     *)
(* that fails the activation.                                               *)
EndUpdate(w, u, how) ==
    CASE how = "return" -> [w EXCEPT !.responses[u] = Append(@, "completed")]
      [] how \in {"failure", "cancel"} -> [w EXCEPT !.responses[u] = Append(@, "rejected")]
      [] how \in {"error", "continue_as_new"} -> [w EXCEPT !.error = TRUE]

EndTopLevel(w, t, how) ==
    LET complete(c) == [w EXCEPT !.ended = @ \cup {<<t, c>>}]
    IN  CASE how = "return" -> IF t = Main THEN complete("complete") ELSE w
          [] how = "cancel" -> complete(IF w.cancel_reason THEN "cancel" ELSE "fail")
          [] how = "failure" -> complete("fail")
          [] how = "continue_as_new" -> complete("continue_as_new")
          [] how = "error" -> [w EXCEPT !.error = TRUE]

(* A task that is over has its done callbacks scheduled. *)
TaskOver(w, t) ==
    CallSoon([w EXCEPT !.state[t] = "done", !.in_progress_updates = @ \ {t}], <<"done", t>>)

EndTask(w, t, how) ==
    CASE w.deleting -> TaskOver(w, t)
      [] ~w.deleting /\ t \in Updates -> EndUpdate(TaskOver(w, t), t, how)
      [] ~w.deleting /\ t \notin Updates -> EndTopLevel(TaskOver(w, t), t, how)

(* workflow.wait_condition: the future joins the conditions, and a timeout  *)
(* starts a timer of its own.                                               *)
WaitCondition(w, t, fn, timed) ==
    LET k == w.awaits[t] + 1
    IN  [w EXCEPT !.state[t] = "waiting",
                  !.conditions = Append(@, t),
                  !.wait[t] = [fn |-> fn, timed |-> timed, before |-> w.cancel_reason],
                  !.awaits[t] = k,
                  !.pending_timers = @ \cup (IF timed THEN {<<t, k>>} ELSE {})]

(* wait_condition raises CancelledError when the workflow's cancellation was *)
(* requested after the wait began, whatever the wait itself came to.         *)
CancellationArrived(w, t) ==
    w.single_batch /\ ~w.wait[t].before /\ w.cancel_reason

Raised(w, t) ==
    IF t \in w.must_cancel \/ CancellationArrived(w, t) THEN "cancel"
    ELSE IF w.woken[t] = "timeout" THEN "failure" ELSE "none"

(* Mutant: the timer of a wait that is over stays pending. *)
AwaitOver_leavesTimer(w, t) ==
    [w EXCEPT !.must_cancel = @ \ {t}, !.woken[t] = "no", !.wait[t] = NoWait]

(* The await is over: the task's timer, if any, is cancelled. *)
AwaitOver(w, t) ==
    [w EXCEPT !.must_cancel = @ \ {t},
              !.woken[t] = "no",
              !.wait[t] = NoWait,
              !.pending_timers = @ \ {<<t, w.awaits[t]>>}]

Effect(w, eff) ==
    CASE eff[1] = "gate" -> [w EXCEPT !.gate = eff[2]]
      [] eff[1] = "handler" -> SetSignalHandler(w, eff[2], eff[3])
      [] OTHER -> w

(* A wait for a future of the code's own: only a cancellation ends it.      *)
AwaitFuture(w, t) ==
    [w EXCEPT !.state[t] = "waiting", !.wait[t] = [NoWait EXCEPT !.fn = "future"]]

(* Mutant: calls into the runtime go on while the instance is deleted. *)
RunSegment_whileDeleting(w, t, seg) ==
    LET e == Effect(w, seg.eff)
    IN  CASE seg.then[1] = "future" -> AwaitFuture(w, t)
          [] seg.then[1] = "end" -> EndTask(e, t, seg.then[2])
          [] seg.then[1] = "wait" -> WaitCondition(e, t, seg.then[2], seg.then[3])

(* One segment of the code of task t.  While deleting, the first call into  *)
(* the runtime raises (_assert_not_read_only), which ends the task; or the  *)
(* code swallows this too and awaits something else.                        *)
RunSegment(w, t, seg) ==
    LET e == Effect(w, seg.eff)
    IN  CASE seg.then[1] = "future" -> AwaitFuture(w, t)
          [] seg.then[1] # "future" /\ w.deleting -> EndTask(w, t, "return")
          [] seg.then[1] = "end" /\ ~w.deleting -> EndTask(e, t, seg.then[2])
          [] seg.then[1] = "wait" /\ ~w.deleting -> WaitCondition(e, t, seg.then[2], seg.then[3])

Segments(t) ==
    {seg \in Code[Kind(t)] :
        /\ seg.then[1] = "wait" => wf.awaits[t] < MaxAwaits[Kind(t)]
        /\ seg.then[1] = "future" => wf.deleting}

-----------------------------------------------------------------------------
(* The event loop: _run_once takes the handles one by one. *)

Popped == [wf EXCEPT !.ready = Tail(@)]

NextIs(h) ==
    /\ running /\ (wf.error => wf.deleting)
    /\ wf.ready # <<>>
    /\ Head(wf.ready) = h

Loop == ran' = TRUE /\ UNCHANGED <<running, todo, checking, failed, arrived, dropped>>

RunCancel ==
    /\ NextIs(<<"cancel", Main>>)
    /\ wf' = CancelTask(Popped, Main)
    /\ Loop /\ UNCHANGED <<begun, raised>>

(* A timer's handle ends the wait it belongs to, if that wait still waits. *)
RunTimer(t, k) ==
    /\ NextIs(<<"timer", t, k>>)
    /\ wf' = IF wf.state[t] = "waiting" /\ wf.wait[t].timed /\ wf.awaits[t] = k
             THEN Wake(Popped, t, "timeout") ELSE Popped
    /\ Loop /\ UNCHANGED <<begun, raised>>

RunDone(t) ==
    /\ NextIs(<<"done", t>>)
    /\ wf' = [Popped EXCEPT !.state[t] = "removed", !.in_progress_signals = @ \ {t}]
    /\ Loop /\ UNCHANGED <<begun, raised>>

(* The first step of a task cancelled before it ran: none of its code runs. *)
NeverBegun(t) ==
    /\ NextIs(<<"step", t>>) /\ wf.awaits[t] = 0 /\ t \in wf.must_cancel
    /\ wf' = TaskOver(Popped, t)
    /\ Loop /\ UNCHANGED <<begun, raised>>

First(t) == NextIs(<<"step", t>>) /\ wf.awaits[t] = 0 /\ t \notin wf.must_cancel

BeginMain ==
    /\ First(Main)
    /\ \E seg \in Segments(Main) : wf' = RunSegment(Popped, Main, seg)
    /\ Loop /\ UNCHANGED <<begun, raised>>

BeginSignal(s) ==
    /\ First(s)
    /\ \E seg \in Segments(s) : wf' = RunSegment(Popped, s, seg)
    /\ begun' = Append(begun, s)
    /\ Loop /\ UNCHANGED raised

(* run_update up to acceptance: no handler, arguments that do not decode or *)
(* a validator that raises reject the update in its first response; a       *)
(* validator that calls what is not read-only fails the task.               *)
RejectUpdate(u) ==
    /\ First(u)
    /\ wf' = TaskOver([Popped EXCEPT !.responses[u] = Append(@, "rejected")], u)
    /\ Loop /\ UNCHANGED <<begun, raised>>

ValidatorNotReadOnly(u) ==
    /\ First(u)
    /\ wf' = EndTask(Popped, u, "error")
    /\ Loop /\ UNCHANGED <<begun, raised>>

AcceptUpdate(u) ==
    /\ First(u)
    /\ \E seg \in Segments(u) :
         wf' = RunSegment([Popped EXCEPT !.in_progress_updates = @ \cup {u},
                                         !.responses[u] = Append(@, "accepted")], u, seg)
    /\ Loop /\ UNCHANGED <<begun, raised>>

(* A query's handler runs read-only; its result or its error is the answer. *)
AnswerQuery(q) ==
    /\ First(q)
    /\ wf' = TaskOver([Popped EXCEPT !.responses[q] = Append(@, "answered")], q)
    /\ Loop /\ UNCHANGED <<begun, raised>>

Resumed(t, error) ==
    /\ NextIs(<<"step", t>>) /\ wf.awaits[t] > 0
    /\ Raised(wf, t) = error

Resume(t) ==
    /\ Resumed(t, "none")
    /\ \E seg \in Segments(t) : wf' = RunSegment(AwaitOver(Popped, t), t, seg)
    /\ Loop /\ UNCHANGED <<begun, raised>>

(* What the wait raises is caught by the code that waits, or ends the task. *)
Catch(t) ==
    /\ \E error \in {"cancel", "failure"} :
         /\ Resumed(t, error)
         /\ raised' = (raised \/ (t = Main /\ error = "cancel"))
    /\ \E seg \in Segments(t) : wf' = RunSegment(AwaitOver(Popped, t), t, seg)
    /\ Loop /\ UNCHANGED begun

Propagate(t) ==
    /\ \E error \in {"cancel", "failure"} :
         /\ Resumed(t, error)
         /\ raised' = (raised \/ (t = Main /\ error = "cancel"))
         /\ wf' = EndTask(AwaitOver(Popped, t), t, error)
    /\ Loop /\ UNCHANGED begun

(* Nothing is ready: the conditions that now hold wake their tasks. *)
CheckConditions ==
    LET wake(w, t) == IF Holds(wf, wf.wait[t].fn) THEN Wake(w, t, "true") ELSE w
    IN  /\ running /\ (wf.error => wf.deleting) /\ wf.ready = <<>> /\ ran
        /\ wf' = IF checking THEN FoldLeft(wake, wf, wf.conditions) ELSE wf
        /\ ran' = FALSE
        /\ UNCHANGED <<running, todo, checking, failed, arrived, begun, raised, dropped>>

-----------------------------------------------------------------------------
(* activate: the jobs are applied by sets, and the loop runs after all of   *)
(* them (single batch) or after each set (legacy).                          *)

Distinct(S, n) == {s \in BoundedSeq(S, n) : IsInjective(s)}

SignalsOf(jobs) == SelectSeq(jobs, LAMBDA j : j[1] = "signal_workflow")

SignalsAndUpdates ==
    {jobs \in Distinct({<<"signal_workflow", s>> : s \in Signals}
                       \cup {<<"do_update", u>> : u \in {v \in Updates : wf.state[v] = "none"}}, MaxJobs) :
        \A i \in DOMAIN SignalsOf(jobs) : SignalsOf(jobs)[i][2][2] = arrived + i}

NonQueries ==
    LET cancel == IF wf.cancel_reason THEN {} ELSE {<<"cancel_workflow">>}
        fire == {<<"fire_timer", timer>> : timer \in wf.pending_timers}
        init == <<"initialize_workflow">>
    IN  IF wf.state[Main] = "none"
        THEN {<<init>>, <<init, <<"cancel_workflow">>>>, <<<<"cancel_workflow">>, init>>}
        ELSE Distinct(cancel \cup fire, MaxJobs)

(* The jobs applied before the loop first runs, and those left for later. *)
FirstSet(batch, first, second) == IF batch \/ first = <<>> THEN first \o second ELSE first
LeftSet(batch, first, second) == IF batch \/ first = <<>> THEN <<>> ELSE second

(* Without _single_batch_activation a cancellation before the initialization *)
(* finds no task to cancel and is not kept.                                 *)
CancelDropped(batch, second) ==
    ~batch /\ second = <<<<"cancel_workflow">>, <<"initialize_workflow">>>>

Running(check) == running' = TRUE /\ checking' = check /\ ran' = FALSE

Live == ~running /\ ~failed /\ ~wf.deleting /\ wf.ended = {}

(* The loop's first run builds the workflow object: its constructor may set *)
(* handlers, which then take the signals already buffered.                  *)
Constructed == IF wf.object THEN {<<"none">>} ELSE Constructor

Activate(batch, first, second) ==
    LET w == [wf EXCEPT !.single_batch = batch]
    IN  /\ Live /\ first \o second # <<>> /\ (wf.single_batch => batch)
        /\ \E eff \in Constructed :
             wf' = Effect([FoldLeft(Apply, w, FirstSet(batch, first, second))
                              EXCEPT !.object = TRUE], eff)
        /\ todo' = LeftSet(batch, first, second)
        /\ dropped' = (dropped \/ CancelDropped(batch, second))
        /\ arrived' = arrived + Len(SignalsOf(first))
        /\ Running(TRUE)
        /\ UNCHANGED <<failed, begun, raised>>

(* The constructor raises: the workflow fails, or the workflow task does. *)
ConstructorFails(batch, first, second) ==
    LET w == FoldLeft(Apply, [wf EXCEPT !.single_batch = batch], FirstSet(batch, first, second))
    IN  /\ Live /\ ~wf.object
        /\ \/ failed' = TRUE /\ wf' = w
           \/ failed' = failed /\ wf' = [w EXCEPT !.ended = {<<Main, "fail">>}]
        /\ arrived' = arrived + Len(SignalsOf(first))
        /\ UNCHANGED <<running, todo, checking, ran, begun, raised, dropped>>

(* Mutant: conditions are only checked after signals and updates. *)
NextJobSet_unchecked ==
    /\ running /\ ~wf.error /\ wf.ready = <<>> /\ ~ran /\ todo # <<>>
    /\ wf' = FoldLeft(Apply, wf, todo) /\ todo' = <<>>
    /\ Running(FALSE)
    /\ UNCHANGED <<failed, arrived, begun, raised, dropped>>

(* The legacy mode applies the second set when the first has been run. *)
NextJobSet ==
    /\ running /\ ~wf.error /\ wf.ready = <<>> /\ ~ran /\ todo # <<>>
    /\ wf' = FoldLeft(Apply, wf, todo) /\ todo' = <<>>
    /\ Running(TRUE)
    /\ UNCHANGED <<failed, arrived, begun, raised, dropped>>

Query(q) ==
    /\ ~running /\ ~failed /\ ~wf.deleting /\ wf.object /\ wf.state[q] = "none"
    /\ wf' = Apply(wf, <<"query_workflow", q>>)
    /\ Running(FALSE)
    /\ UNCHANGED <<todo, failed, arrived, begun, raised, dropped>>

Remaining == {t \in Tasks : wf.state[t] \notin {"none", "removed"}}

(* The eviction job, sent again when it failed. *)
Evict ==
    /\ ~running /\ (wf.object \/ failed \/ wf.ended # {})
    /\ wf.deleting => Remaining # {}
    /\ wf' = Apply([wf EXCEPT !.error = FALSE], <<"remove_from_cache">>)
    /\ Running(TRUE)
    /\ UNCHANGED <<todo, failed, arrived, begun, raised, dropped>>

(* Nothing is ready.  An eviction with tasks Remaining raises here, which   *)
(* leaves the instance as it is for the next eviction job.                  *)
Finish ==
    /\ running /\ (wf.error => wf.deleting) /\ wf.ready = <<>> /\ ~ran /\ todo = <<>>
    /\ running' = FALSE
    /\ UNCHANGED <<wf, todo, checking, ran, failed, arrived, begun, raised, dropped>>

(* The error a handle left ends the loop: what is still ready stays there. *)
FailActivation ==
    /\ running /\ wf.error /\ ~wf.deleting
    /\ running' = FALSE /\ failed' = TRUE /\ todo' = <<>>
    /\ UNCHANGED <<wf, checking, ran, arrived, begun, raised, dropped>>

Next ==
    \/ Live /\ \E batch \in Modes, first \in SignalsAndUpdates, second \in NonQueries :
                 Activate(batch, first, second) \/ ConstructorFails(batch, first, second)
    \/ (\E q \in Queries : Query(q)) \/ Evict
    \/ RunCancel \/ (\E t \in Tasks \ Queries : \E k \in 1..MaxAwaits[Kind(t)] : RunTimer(t, k))
    \/ \E t \in Tasks : RunDone(t) \/ NeverBegun(t)
    \/ BeginMain \/ (\E s \in Signals : BeginSignal(s))
    \/ \E u \in Updates : RejectUpdate(u) \/ ValidatorNotReadOnly(u) \/ AcceptUpdate(u)
    \/ \E q \in Queries : AnswerQuery(q)
    \/ \E t \in {Main} \cup Signals \cup Updates : Resume(t) \/ Catch(t) \/ Propagate(t)
    \/ CheckConditions \/ NextJobSet \/ Finish \/ FailActivation

Spec == Init /\ [][Next]_vars

-----------------------------------------------------------------------------
(* Properties.  Settled: the last activation succeeded and the instance is *)
(* in the cache.                                                           *)

Settled == ~running /\ ~failed /\ ~wf.deleting /\ wf.object

OfName(s, n) == SelectSeq(s, LAMBDA x : NameOf(x) = n /\ x \notin Undecodable)

(* Signals of one name reach their handler in the order of their jobs, each *)
(* once; when an activation is over, a signal that no handler has begun is  *)
(* still in the buffer, behind the ones that were begun.  Handlers come and *)
(* go (set_signal_handler), named and dynamic, while signals arrive.        *)
SignalsHandled ==
    \A n \in Names :
        LET sent == OfName([i \in 1..arrived |-> <<"signal", i>>], n)
        IN  /\ IsPrefix(OfName(begun, n), sent)
            /\ Settled => OfName(begun, n) \o OfName(wf.buffered_signals, n) = sent

(* An update is accepted or rejected in the activation that brings it, is   *)
(* answered at most once after that, and counts as in progress exactly      *)
(* while its handler runs; a query is answered in its activation.           *)
UpdatesAnswered ==
    /\ \A u \in Updates :
         /\ wf.responses[u] \in {<<>>, <<"rejected">>, <<"accepted">>,
                                 <<"accepted", "completed">>, <<"accepted", "rejected">>}
         /\ Settled => /\ (wf.state[u] = "none") <=> (wf.responses[u] = <<>>)
                       /\ (wf.state[u] = "waiting") <=> (wf.responses[u] = <<"accepted">>)
                       /\ (wf.state[u] = "waiting") <=> (u \in wf.in_progress_updates)
    /\ \A q \in Queries : Settled => Len(wf.responses[q]) = (IF wf.state[q] = "none" THEN 0 ELSE 1)

(* No wakeup is lost: when an activation is over, no task waits for a       *)
(* condition that holds.                                                    *)
NoMissedCondition ==
    Settled => \A i \in DOMAIN wf.conditions : ~Holds(wf, wf.wait[wf.conditions[i]].fn)

(* A cancellation of the workflow is raised in its run method in the        *)
(* activation that brings it, also when that activation starts the          *)
(* workflow; a run method that has ended does not see it, nor one that the  *)
(* legacy mode starts after the cancellation in the same activation.        *)
CancelRaised ==
    Settled /\ wf.cancel_reason => raised \/ wf.state[Main] = "removed" \/ dropped

(* The timers still pending when an activation is over are those of the     *)
(* waits still waiting: no wait leaves a timer behind, and no timer fired   *)
(* or cancelled for one wait touches the timer of another.                  *)
TimersMatchWaits ==
    Settled => wf.pending_timers =
                 {<<t, wf.awaits[t]>> : t \in {x \in Tasks : wf.state[x] = "waiting" /\ wf.wait[x].timed}}

(* "If we're deleting, there better be no more tasks": an eviction leaves   *)
(* no task but those whose code swallowed the cancellation to await         *)
(* something of its own, also after an activation that failed half way and  *)
(* when the eviction is tried again.                                        *)
EvictionEndsTasks ==
    ~running /\ wf.deleting => \A t \in Remaining : wf.wait[t].fn = "future"

(* "Only detect a new request so workflows can catch cancellation and keep  *)
(* going": while the run method goes on after catching the cancellation, no *)
(* command reports the workflow as cancelled.                               *)
CaughtCancelKeepsGoing ==
    raised /\ wf.state[Main] = "waiting" => \A t \in Tasks : <<t, "cancel">> \notin wf.ended

=============================================================================
