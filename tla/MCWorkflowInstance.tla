------------------------- MODULE MCWorkflowInstance -------------------------
(* Two signals of one name, one update and one query. *)
EXTENDS WorkflowInstance

MCSignalName == <<"a", "a">>
MCNames == {"a"}
MCDefined == {{}, {"a"}}
MCMaxAwaits == [run |-> 2, signal |-> 1, update |-> 1]
MCConstructor == {<<"none">>, <<"handler", "a", TRUE>>}

Nothing == <<"none">>
Wait(fn, timed) == <<"wait", fn, timed>>
End(how) == <<"end", how>>

(* Code that outlives an eviction. *)
Survive == [eff : {Nothing}, then : {<<"future">>}]

(* The run method sets and removes handlers and waits; handlers work the    *)
(* gate and may wait, and the ends cover the cases of the wrappers: a wait   *)
(* that times out is the failure of its task.                               *)
MCCode ==
    [run |-> [eff : {<<"handler", "a", TRUE>>, <<"handler", "a", FALSE>>,
                     <<"handler", Dynamic, TRUE>>, <<"gate", FALSE>>},
              then : {Wait("gate", TRUE)}]
             \cup [eff : {Nothing},
                   then : {Wait("finished", FALSE), End("return"), End("continue_as_new")}]
             \cup Survive,
     signal |-> [eff : {<<"gate", TRUE>>}, then : {End("return")}]
             \cup [eff : {Nothing}, then : {Wait("gate", FALSE), End("error")}]
             \cup Survive,
     update |-> [eff : {Nothing}, then : {End("return"), Wait("gate", TRUE)}]]

=============================================================================
