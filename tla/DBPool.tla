------------------------------- MODULE DBPool -------------------------------
(***************************************************************************)
(* The connection pool of DBPool.cpp: threads take a DBConn from           *)
(* m_free_list, or open a new one while fewer than m_db_max_conn_cnt       *)
(* exist, use it and give it back.  Every access to the list and to the    *)
(* count is made under m_free_notify, and GetDBConn keeps the lock while   *)
(* it connects, so a critical section is one action.                       *)
(***************************************************************************)
EXTENDS Integers, Sequences, FiniteSets, Functions

CONSTANTS
  Threads,         \* threads that use the pool
  Conns,           \* the DBConn objects operator new may hand out
  NULL,            \* the NULL DBConn pointer
  MaxConn,         \* m_db_max_conn_cnt, any int the command line gives
  NullReleasers,   \* threads that call RelConn even when GetDBConn gave NULL
  Rounds           \* bound: GetDBConn calls per thread

ASSUME ConnAssumption == NULL \notin Conns /\ IsFiniteSet(Conns)
ASSUME ThreadAssumption == IsFiniteSet(Threads)
ASSUME MaxConnAssumption == MaxConn \in Int
ASSUME ReleaserAssumption == NullReleasers \subseteq Threads
ASSUME RoundsAssumption == Rounds \in Nat

VARIABLES
  m_free_list,
  m_db_cur_conn_cnt,
  live,      \* the DBConn objects that exist
  phase,     \* how far the owner has brought the pool
  pc,        \* where each thread is
  conn,      \* the pointer GetDBConn gave each thread
  calls      \* GetDBConn calls each thread has made

poolVars == <<m_free_list, m_db_cur_conn_cnt, live>>
vars == <<poolVars, phase, pc, conn, calls>>

Phases == {"constructed", "ready", "failed", "deleted"}
ThreadStates == {"idle", "get", "wait", "using"}

(* m_db_max_conn_cnt comes from argv: below 1 it still lets Init open one.  *)
ConnLimit == IF MaxConn > 1 THEN MaxConn ELSE 1

TypeOK ==
  /\ m_free_list \in Seq(Conns \cup {NULL})
  /\ m_db_cur_conn_cnt \in 1..ConnLimit
  /\ live \in SUBSET Conns
  /\ phase \in Phases
  /\ pc \in [Threads -> ThreadStates]
  /\ conn \in [Threads -> Conns \cup {NULL}]
  /\ calls \in [Threads -> 0..Rounds]

(* The constructor sets the count to 1 for the connection Init will open.   *)
Init ==
  /\ m_free_list = <<>>
  /\ m_db_cur_conn_cnt = 1
  /\ live = {}
  /\ phase = "constructed"
  /\ pc = [t \in Threads |-> "idle"]
  /\ conn = [t \in Threads |-> NULL]
  /\ calls = [t \in Threads |-> 0]

(* Deliberate mistakes for the definition named in each comment.            *)
NobodySignalled(list) == {{}}                         \* Signalled: forgotten
SignalledIfFirst(list) ==                             \* Signalled: only when
  LET asleep == {t \in Threads : pc[t] = "wait"}      \* the list was empty
  IN  IF asleep = {} \/ list # <<>> THEN {{}} ELSE {{t} : t \in asleep}
OneTooMany == m_db_cur_conn_cnt > MaxConn             \* AtLimit: off by one
NotPopped == m_free_list                              \* PoppedList: front kept

(* pthread_cond_signal: one waiter, if there is one.  list is the free list *)
(* the signaller found.                                                     *)
Signalled(list) ==
  LET asleep == {t \in Threads : pc[t] = "wait"}
  IN  IF asleep = {} THEN {{}} ELSE {{t} : t \in asleep}

AtLimit == m_db_cur_conn_cnt >= MaxConn
PoppedList == Tail(m_free_list)
CountedConn == m_db_cur_conn_cnt + 1

(* RelConn puts a pointer back unless it is in the list already. *)
Returned(c) ==
  IF c \in Range(m_free_list) THEN m_free_list ELSE Append(m_free_list, c)

-----------------------------------------------------------------------------
(* DBPool::Init opens the first connection. *)
PoolInit(c) ==
  /\ phase = "constructed" /\ c \in Conns \ live
  /\ phase' = "ready"
  /\ m_free_list' = Append(m_free_list, c)
  /\ live' = live \cup {c}
  /\ UNCHANGED <<m_db_cur_conn_cnt, pc, conn, calls>>

(* mysql_real_connect failed: the caller gives the pool up. *)
PoolInitFail ==
  /\ phase = "constructed"
  /\ phase' = "failed"
  /\ UNCHANGED <<poolVars, pc, conn, calls>>

GetCall(t) ==
  /\ phase = "ready"
  /\ pc[t] = "idle" /\ calls[t] < Rounds
  /\ pc' = [pc EXCEPT ![t] = "get"]
  /\ calls' = [calls EXCEPT ![t] = @ + 1]
  /\ UNCHANGED <<poolVars, phase, conn>>

GetWait(t) ==
  /\ pc[t] = "get"
  /\ m_free_list = <<>> /\ AtLimit
  /\ pc' = [pc EXCEPT ![t] = "wait"]
  /\ UNCHANGED <<poolVars, phase, conn, calls>>

GetReturn(t, c) ==
  /\ pc' = [pc EXCEPT ![t] = "using"]
  /\ conn' = [conn EXCEPT ![t] = c]

GetPop(t) ==
  /\ pc[t] = "get"
  /\ m_free_list # <<>>
  /\ GetReturn(t, Head(m_free_list))
  /\ m_free_list' = PoppedList
  /\ UNCHANGED <<m_db_cur_conn_cnt, live, phase, calls>>

(* The new connection is pushed, counted, and popped by the same thread.    *)
GetConnect(t, c) ==
  /\ pc[t] = "get"
  /\ m_free_list = <<>> /\ ~AtLimit
  /\ c \in Conns \ live
  /\ live' = live \cup {c}
  /\ m_db_cur_conn_cnt' = CountedConn
  /\ GetReturn(t, c)
  /\ UNCHANGED <<m_free_list, phase, calls>>

GetConnectFail(t) ==
  /\ pc[t] = "get"
  /\ m_free_list = <<>> /\ ~AtLimit
  /\ GetReturn(t, NULL)
  /\ UNCHANGED <<poolVars, phase, calls>>

(* workUsePool and main call RelConn without looking at the pointer,        *)
(* testOneConnect only when GetDBConn gave a connection.                    *)
MayRelease(t) == conn[t] # NULL \/ t \in NullReleasers

RelConn(t) ==
  /\ pc[t] = "using"
  /\ MayRelease(t)
  /\ m_free_list' = Returned(conn[t])
  /\ \E signalled \in Signalled(m_free_list) :
       pc' = [u \in Threads |-> IF u = t THEN "idle"
                                ELSE IF u \in signalled THEN "get" ELSE pc[u]]
  /\ conn' = [conn EXCEPT ![t] = NULL]
  /\ UNCHANGED <<m_db_cur_conn_cnt, live, phase, calls>>

NothingToRelease(t) ==
  /\ pc[t] = "using"
  /\ ~MayRelease(t)
  /\ pc' = [pc EXCEPT ![t] = "idle"]
  /\ UNCHANGED <<poolVars, phase, conn, calls>>

(* pthread_cond_wait may return unsignalled; GetDBConn tests again. *)
SpuriousWakeup(t) ==
  /\ pc[t] = "wait"
  /\ pc' = [pc EXCEPT ![t] = "get"]
  /\ UNCHANGED <<poolVars, phase, conn, calls>>

(* ~DBPool deletes what is in the list. *)
PoolDelete ==
  /\ phase = "ready"
  /\ phase' = "deleted"
  /\ live' = live \ Range(m_free_list)
  /\ m_free_list' = <<>>
  /\ UNCHANGED <<m_db_cur_conn_cnt, pc, conn, calls>>

(* The owner deletes the pool when its users are done: main_ThreadPool after *)
(* ThreadPool_Destroy, testOneConnect after its own RelConn.                *)
UsersDone == \A t \in Threads : pc[t] = "idle"

GetStep(t) ==
  \/ GetWait(t) \/ GetPop(t) \/ GetConnectFail(t)
  \/ \E c \in Conns : GetConnect(t, c)

ThreadStep(t) == GetStep(t) \/ RelConn(t) \/ NothingToRelease(t)

Next ==
  \/ \E c \in Conns : PoolInit(c)
  \/ PoolInitFail \/ (UsersDone /\ PoolDelete)
  \/ \E t \in Threads : GetCall(t) \/ ThreadStep(t) \/ SpuriousWakeup(t)

Spec == Init /\ [][Next]_vars

(* A thread inside GetDBConn or between it and RelConn goes on. *)
Fairness == \A t \in Threads : WF_vars(ThreadStep(t))

FairSpec == Spec /\ Fairness

-----------------------------------------------------------------------------
(* Properties *)

Held == {conn[t] : t \in Threads} \ {NULL}
Free == Range(m_free_list) \ {NULL}

(* A connection has one user at a time: no two threads hold the same one    *)
(* and none that is held is in the list, which has no pointer twice.        *)
ExclusiveUse ==
  /\ \A t, u \in Threads : conn[t] = conn[u] /\ conn[t] # NULL => t = u
  /\ Held \cap Free = {}
  /\ \A i, k \in DOMAIN m_free_list : m_free_list[i] = m_free_list[k] => i = k

(* Every open connection is in the list or in use, and m_db_cur_conn_cnt,   *)
(* which the constructor and two functions maintain, counts them.           *)
ConnAccounting ==
  phase = "ready" =>
    /\ live = Free \cup Held
    /\ m_db_cur_conn_cnt = Cardinality(live)

(* A thread sleeps in GetDBConn only while every free connection has        *)
(* another thread on its way to it and no further one may be opened.        *)
NoMissedWakeup ==
  (\E t \in Threads : pc[t] = "wait") =>
    /\ Len(m_free_list) <= Cardinality({t \in Threads : pc[t] = "get"})
    /\ AtLimit

(* Seen from its users the pool lends connections: it implements ConnLease. *)
Lease == INSTANCE ConnLease WITH idle <- Free, lease <- conn
LeaseSpec == Lease!LeaseSpec

(* ~DBPool leaves no connection behind. *)
NoLeakedConnection == phase = "deleted" => live = {}

(* No connection is lost or opened beyond the limit, from Init to ~DBPool.  *)
AllAccountedFor ==
  ConnAccounting /\ NoLeakedConnection /\ m_db_cur_conn_cnt <= ConnLimit

(* GetDBConn answers NULL only when it had to open a connection and could   *)
(* not: the failure of one thread's connect is not handed on to others.     *)
NullOnlyOnFailure ==
  [][\A t \in Threads :
       pc[t] = "get" /\ pc'[t] = "using" /\ conn'[t] = NULL
         => m_free_list = <<>> /\ ~AtLimit]_vars

(* A thread that finds no free connection gets one, or NULL, in the end.    *)
GetReturns ==
  \A t \in Threads : (pc[t] \in {"get", "wait"}) ~> (pc[t] = "using")
=============================================================================
