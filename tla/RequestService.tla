---------------------------- MODULE RequestService ----------------------------
(***************************************************************************)
(* What PikeWorker promises its callers, with the subprocess, the queue    *)
(* and the timers hidden: accepted requests are numbered in order, the     *)
(* promise of each settles at most once and for good, one response line    *)
(* settles one promise, and the loss of the worker takes every open        *)
(* request with it.  Live adds that every accepted request settles.        *)
(***************************************************************************)
EXTENDS Integers, FiniteSets

CONSTANT MaxId

VARIABLES accepted, outcome

svars == <<accepted, outcome>>
Ids == 1..MaxId
Settled == {"answered", "cancelled", "failed", "timeout"}

Init == accepted = 0 /\ outcome = [i \in Ids |-> "none"]

Answer(i) ==
  /\ outcome[i] = "open"
  /\ outcome' = [outcome EXCEPT ![i] = "answered"]
  /\ UNCHANGED accepted

\* The requests this step rejects.
Lost == {i \in Ids : outcome[i] \notin Settled /\ outcome'[i] \in {"failed", "timeout"}}

\* Any other handler: it may accept one request, resolve cancelled ones and
\* reject either a single request or every open one.
Handle ==
  /\ accepted' \in {accepted, accepted + 1}
  /\ \A i \in Ids :
       \/ i > accepted' /\ outcome'[i] = "none"
       \/ i <= accepted /\ outcome[i] \in Settled /\ outcome'[i] = outcome[i]
       \/ /\ i <= accepted' /\ outcome[i] \in {"none", "open"}
          /\ outcome'[i] \in {"open", "cancelled", "failed", "timeout"}
  /\ \/ \A i, j \in Lost : i = j
     \/ \A i \in Ids : ~(outcome[i] = "open" /\ outcome'[i] = "open")

Next == Handle \/ \E i \in Ids : Answer(i)

Spec == Init /\ [][Next]_svars

Live == \A i \in Ids : (outcome[i] = "open") ~> (outcome[i] \in Settled)
===============================================================================
