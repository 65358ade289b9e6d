----------------------------- MODULE ConnLease -----------------------------
(***************************************************************************)
(* What a connection pool promises its users: a thread is lent a           *)
(* connection that nobody else has, keeps it until it gives it back, and   *)
(* the pool closes only connections that are not lent.  DBPool implements  *)
(* this, and DBClient builds on it.                                        *)
(***************************************************************************)
EXTENDS FiniteSets

CONSTANTS Threads, Conns, NULL

VARIABLES
  idle,     \* open connections that nobody uses
  lease     \* the connection each thread has, or NULL

leaseVars == <<idle, lease>>

Leased == {lease[t] : t \in Threads} \ {NULL}

LeaseInit ==
  /\ idle = {}
  /\ lease = [t \in Threads |-> NULL]

(* The pool opens a connection in advance. *)
OpenIdle(c) ==
  /\ c \in Conns \ (idle \cup Leased)
  /\ idle' = idle \cup {c}
  /\ UNCHANGED lease

Lend(t, c) ==
  /\ lease[t] = NULL
  /\ c \in idle
  /\ idle' = idle \ {c}
  /\ lease' = [lease EXCEPT ![t] = c]

(* There is no idle connection: one is opened for the thread. *)
LendNew(t, c) ==
  /\ lease[t] = NULL
  /\ idle = {}
  /\ c \in Conns \ Leased
  /\ lease' = [lease EXCEPT ![t] = c]
  /\ UNCHANGED idle

GiveBack(t) ==
  /\ lease[t] # NULL
  /\ idle' = idle \cup {lease[t]}
  /\ lease' = [lease EXCEPT ![t] = NULL]

CloseAll ==
  /\ Leased = {}
  /\ idle' = {}
  /\ UNCHANGED lease

LeaseNext ==
  \/ \E c \in Conns : OpenIdle(c)
  \/ \E t \in Threads, c \in Conns : Lend(t, c) \/ LendNew(t, c)
  \/ \E t \in Threads : GiveBack(t)
  \/ CloseAll

LeaseSpec == LeaseInit /\ [][LeaseNext]_leaseVars
=============================================================================
