------------------------------ MODULE StreamLog ------------------------------
(***************************************************************************)
(* What a workflow stream promises its publishers, with nothing of how it  *)
(* is done: an append-only log to which the items of each publisher are    *)
(* added at most once and in the order in which they were published.  An   *)
(* item may be left out for good (a batch that could not be delivered); it *)
(* never comes twice and never after a later item of its publisher.        *)
(*                                                                         *)
(* StreamPublisher, with its retries, lost answers, duplicated signals and *)
(* continue-as-new, implements this specification.                         *)
(***************************************************************************)
EXTENDS Naturals, Sequences

CONSTANT
  Publishers        \* the publisher ids

VARIABLES
  published,        \* how many items each publisher has published
  appended          \* everything ever appended to the log

vars == <<published, appended>>

\* The n-th item of publisher p is <<p, n>>; a batch is a run of its items.
Batch(p, lo, hi) == [i \in 1..(hi - lo + 1) |-> <<p, lo + i - 1>>]

Init ==
  /\ published = [p \in Publishers |-> 0]
  /\ appended = <<>>

Publish(p) ==
  /\ published' = [published EXCEPT ![p] = @ + 1]
  /\ UNCHANGED appended

Deliver(p, lo, hi) ==
  /\ \A i \in DOMAIN appended : appended[i][1] = p => appended[i][2] < lo
  /\ appended' = appended \o Batch(p, lo, hi)
  /\ UNCHANGED published

Next ==
  \E p \in Publishers :
    \/ Publish(p)
    \/ \E lo, hi \in 1..published[p] : lo <= hi /\ Deliver(p, lo, hi)

Spec == Init /\ [][Next]_vars

=============================================================================
