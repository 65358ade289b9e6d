---------------------------- MODULE TimerService ----------------------------
(***************************************************************************)
(* What a timer promises its users, with no list in it: an armed timer     *)
(* fires once, not before its time, and never ahead of one that expires    *)
(* earlier; a cancelled one does not fire, and handlers run one at a time. *)
(* Where a handler may arm a timer with no delay there is one exception.   *)
(***************************************************************************)
EXTENDS Naturals

CONSTANTS
  Timers, NULL,
  Delays,          \* the delays passed when no handler runs
  HandlerDelays    \* the delays handlers pass

VARIABLES
  status, expiry, clock,
  running          \* the timer whose handler runs

vars == <<status, expiry, clock, running>>

Armed == {t \in Timers : status[t] = "armed"}

Init ==
  /\ status = [t \in Timers |-> "off"]
  /\ expiry = [t \in Timers |-> 0]
  /\ clock \in Nat
  /\ running = NULL

Arm(t) ==
  /\ t \notin Armed
  /\ status' = [status EXCEPT ![t] = "armed"]
  /\ \E d \in IF running = NULL THEN Delays ELSE HandlerDelays :
       expiry' = [expiry EXCEPT ![t] = clock + d]
  /\ UNCHANGED <<clock, running>>

Cancel(t) ==
  /\ t \in Armed
  /\ status' = [status EXCEPT ![t] = "off"]
  /\ UNCHANGED <<expiry, clock, running>>

Fire(t) ==
  /\ running = NULL
  /\ t \in Armed
  /\ expiry[t] <= clock
  /\ \A u \in Armed : expiry[t] <= expiry[u]
  /\ status' = [status EXCEPT ![t] = "fired"]
  /\ running' = t
  /\ UNCHANGED <<expiry, clock>>

Return ==
  /\ running # NULL
  /\ running' = NULL
  /\ UNCHANGED <<status, expiry, clock>>

(* The exception: a timer armed for the time at which the running one was   *)
(* due may be dropped in its place, and the running one fires once more.    *)
(* Only an arming with no delay comes that early.                           *)
Exchange(u) ==
  /\ running # NULL /\ 0 \in HandlerDelays
  /\ u \in Armed /\ expiry[u] = expiry[running]
  /\ status' = [status EXCEPT ![u] = "dropped", ![running] = "armed"]
  /\ running' = NULL
  /\ UNCHANGED <<expiry, clock>>

(* The clock has steps of its own size, and only goes forward. *)
Advance ==
  /\ clock' \in Nat /\ clock' > clock
  /\ UNCHANGED <<status, expiry, running>>

Next ==
  \/ Advance \/ Return
  \/ \E t \in Timers : Arm(t) \/ Cancel(t) \/ Fire(t) \/ Exchange(t)

Spec == Init /\ [][Next]_vars
=============================================================================
