----------------------------- MODULE JobService -----------------------------
(***************************************************************************)
(* What a thread pool promises its clients, with no threads, mutex or      *)
(* condition variables in it: accepted jobs are started in the order they  *)
(* were accepted and run once; the service closes only when nothing is     *)
(* pending and gives up its resources only when nothing is running.        *)
(***************************************************************************)
EXTENDS Naturals, Sequences

CONSTANTS Jobs, Capacity

VARIABLES pending, active, finished, refused, phase

vars == <<pending, active, finished, refused, phase>>

Fresh(j) ==
  /\ j \notin active \cup finished \cup refused
  /\ \A i \in DOMAIN pending : pending[i] # j

Init ==
  /\ pending = <<>>
  /\ active = {}
  /\ finished = {}
  /\ refused = {}
  /\ phase = "open"

Accept(j) ==
  /\ phase = "open" /\ Fresh(j)
  /\ Len(pending) < Capacity
  /\ pending' = Append(pending, j)
  /\ UNCHANGED <<active, finished, refused, phase>>

Refuse(j) ==
  /\ phase # "released" /\ Fresh(j)
  /\ refused' = refused \cup {j}
  /\ UNCHANGED <<pending, active, finished, phase>>

Start ==
  /\ phase = "open" /\ pending # <<>>
  /\ active' = active \cup {Head(pending)}
  /\ pending' = Tail(pending)
  /\ UNCHANGED <<finished, refused, phase>>

Finish(j) ==
  /\ j \in active
  /\ active' = active \ {j}
  /\ finished' = finished \cup {j}
  /\ UNCHANGED <<pending, refused, phase>>

Close ==
  /\ phase = "open" /\ pending = <<>>
  /\ phase' = "closed"
  /\ UNCHANGED <<pending, active, finished, refused>>

Release ==
  /\ phase = "closed" /\ active = {}
  /\ phase' = "released"
  /\ UNCHANGED <<pending, active, finished, refused>>

Next ==
  \/ \E j \in Jobs : Accept(j) \/ Refuse(j) \/ Finish(j)
  \/ Start \/ Close \/ Release

Spec == Init /\ [][Next]_vars

(* A pending job is started and a started one finishes. *)
Fairness ==
  /\ WF_vars(Start)
  /\ \A j \in Jobs : WF_vars(Finish(j))

FairSpec == Spec /\ Fairness
=============================================================================
