------------------------------ MODULE PoolApp ------------------------------
(***************************************************************************)
(* main_ThreadPool.cpp: main opens the connection pool, prepares the       *)
(* table, submits task_num jobs to a thread pool, destroys the thread pool *)
(* and then the connection pool.  With use_pool each job is workUsePool:   *)
(* take a connection, insert a row, give the connection back; without, it  *)
(* is WorkNoPool, which does so with a pool of its own.                    *)
(*                                                                         *)
(* The module composes ThreadPool and DBPool: a step is a step of one of   *)
(* them with the other at rest, except JobEnd, in which a callback's last  *)
(* call, RelConn, and the worker's return from the callback coincide.      *)
(***************************************************************************)
EXTENDS ThreadPool

CONSTANTS
  main,       \* the only client of the thread pool
  Conns, NULL, MaxConn

(* The jobs are the values of i in main's loop. *)
ASSUME LoopAssumption == Jobs \subseteq Int
ASSUME MainAssumption == Clients = {main} /\ Destroyers = {main} /\ main \notin Workers
ASSUME FiniteAssumption ==
  /\ IsFiniteSet(Jobs) /\ IsFiniteSet(Workers) /\ IsFiniteSet(Conns)
  /\ NULL \notin Conns /\ MaxConn \in Int

VARIABLES
  m_free_list, m_db_cur_conn_cnt, live, phase, pc, conn, calls,  \* of DBPool
  mainAt,     \* the line main has reached
  use_pool,   \* the third argument of the program
  private,    \* workers whose job has a pool of its own, with one connection
  privateEnds \* how many such pools each worker is done with

Users == Workers \cup {main}

(* A worker calls GetDBConn once per job and main once. *)
DB == INSTANCE DBPool WITH
  Threads <- Users, NullReleasers <- Users, Rounds <- Cardinality(Jobs) + 1

threadVars == vars      \* of ThreadPool
dbVars == <<m_free_list, m_db_cur_conn_cnt, live, phase, pc, conn, calls>>
privateVars == <<use_pool, private, privateEnds>>
appVars == <<threadVars, dbVars, mainAt, privateVars>>

MainStates == {"start", "prepare", "createThreads", "submit", "destroy", "exit"}

AppInit ==
  /\ Init /\ DB!Init
  /\ mainAt = "start"
  /\ use_pool \in BOOLEAN
  /\ private = {} /\ privateEnds = [w \in Workers |-> 0]

(* Deliberate mistakes for the definition named in each comment. *)
DeleteFirst == TRUE                                \* ThreadPoolGone: wrong order
PoolKept(w) == UNCHANGED <<private, privateEnds>>  \* PrivateDelete: forgotten

(* The for loop over task_num is over and its last AddJob has returned.     *)
AllSubmitted == \A j \in Jobs : ret[j] # "none"

ThreadPoolGone == client[main] = "destroyed"

-----------------------------------------------------------------------------
(* main *)

OpenPool ==
  /\ mainAt = "start"
  /\ \/ (\E c \in Conns : DB!PoolInit(c)) /\ mainAt' = "prepare"
     \/ DB!PoolInitFail /\ mainAt' = "exit"
  /\ UNCHANGED <<threadVars, privateVars>>

(* Drop and create the table on a connection of the pool. *)
PrepareTable ==
  /\ mainAt = "prepare"
  /\ \/ DB!GetCall(main) /\ calls[main] = 0 /\ UNCHANGED mainAt
     \/ DB!GetStep(main) /\ UNCHANGED mainAt
     \/ DB!RelConn(main) /\ mainAt' = "createThreads"
  /\ UNCHANGED <<threadVars, privateVars>>

(* Threadpool::Init starts the workers, or fails and main returns at once.  *)
CreateThreads ==
  /\ mainAt = "createThreads"
  /\ mainAt' \in {"submit", "exit"}
  /\ UNCHANGED <<threadVars, dbVars, privateVars>>

(* The result of AddJob is not looked at. *)
Submit ==
  /\ mainAt = "submit"
  /\ \/ \E i \in Jobs : AddJobCall(main, i) /\ \A k \in Jobs : k < i => ret[k] # "none"
     \/ AddStep(main)
  /\ UNCHANGED <<dbVars, mainAt, privateVars>>

CallDestroy ==
  /\ mainAt = "submit"
  /\ AllSubmitted
  /\ DestroyCall(main)
  /\ mainAt' = "destroy"
  /\ UNCHANGED <<dbVars, privateVars>>

InDestroy ==
  /\ mainAt = "destroy"
  /\ DestroyStep(main)
  /\ UNCHANGED <<dbVars, mainAt, privateVars>>

(* delete pthreadpool; delete pool; return 0 *)
DeletePools ==
  /\ mainAt = "destroy"
  /\ ThreadPoolGone
  /\ DB!PoolDelete
  /\ mainAt' = "exit"
  /\ UNCHANGED <<threadVars, privateVars>>

MainStep ==
  \/ OpenPool \/ PrepareTable \/ CreateThreads
  \/ Submit \/ CallDestroy \/ InDestroy \/ DeletePools

-----------------------------------------------------------------------------
(* The workers *)

ThreadsExist == mainAt \in {"submit", "destroy"}

WorkerLoop(w) ==
  /\ ThreadsExist
  /\ WorkerWait(w) \/ WorkerExit(w) \/ WorkerTake(w)
  /\ UNCHANGED <<dbVars, mainAt, privateVars>>

(* workUsePool *)
JobBegin(w) ==
  /\ use_pool /\ worker[w] = "running"
  /\ DB!GetCall(w)
  /\ UNCHANGED <<threadVars, mainAt, privateVars>>

JobGet(w) ==
  /\ DB!GetStep(w)
  /\ UNCHANGED <<threadVars, mainAt, privateVars>>

JobEnd(w) ==
  /\ DB!RelConn(w)
  /\ WorkerFinish(w)
  /\ UNCHANGED <<mainAt, privateVars>>

(* WorkNoPool: a pool for this job, which nobody else uses, so that its     *)
(* GetDBConn finds the connection that Init has opened.                     *)
PrivateInit(w) ==
  /\ ~use_pool /\ worker[w] = "running" /\ w \notin private
  /\ private' = private \cup {w}
  /\ UNCHANGED <<threadVars, dbVars, mainAt, use_pool, privateEnds>>

(* The return in between leaves the pool object behind. *)
PrivateInitFail(w) ==
  /\ ~use_pool /\ w \notin private
  /\ privateEnds' = [privateEnds EXCEPT ![w] = @ + 1]
  /\ WorkerFinish(w)
  /\ UNCHANGED <<dbVars, mainAt, use_pool, private>>

(* RelConn and delete pdbpool, which closes the connection. *)
PrivateDelete(w) ==
  /\ private' = private \ {w}
  /\ privateEnds' = [privateEnds EXCEPT ![w] = @ + 1]

PrivateEnd(w) ==
  /\ w \in private
  /\ PrivateDelete(w)
  /\ WorkerFinish(w)
  /\ UNCHANGED <<dbVars, mainAt, use_pool>>

JobStep(w) ==
  \/ JobBegin(w) \/ JobGet(w) \/ JobEnd(w)
  \/ PrivateInit(w) \/ PrivateInitFail(w) \/ PrivateEnd(w)

(* Any of the waits of both pools may return unsignalled. *)
WakeSpuriously ==
  \/ /\ SpuriousClient(main) \/ \E w \in Workers : SpuriousWorker(w)
     /\ UNCHANGED <<dbVars, mainAt, privateVars>>
  \/ /\ SpuriousWakeups
     /\ \E u \in Users : DB!SpuriousWakeup(u)
     /\ UNCHANGED <<threadVars, mainAt, privateVars>>

AppTerminated == mainAt = "exit" /\ UNCHANGED appVars

AppNext ==
  \/ MainStep
  \/ \E w \in Workers : WorkerLoop(w) \/ JobStep(w)
  \/ WakeSpuriously
  \/ AppTerminated

AppSpec == AppInit /\ [][AppNext]_appVars

(* main and every worker that can go on do. *)
AppFairness ==
  /\ WF_appVars(MainStep)
  /\ \A w \in Workers : WF_appVars(WorkerLoop(w) \/ JobStep(w))

AppFairSpec == AppSpec /\ AppFairness

-----------------------------------------------------------------------------
(* Properties *)

(* The program uses the connection pool as DBPool's specification expects:  *)
(* in particular it deletes the pool only when no worker is inside a call   *)
(* or holds a connection.                                                   *)
UsesConnPool == DB!Spec

(* Each task that has run was run by one worker, which for each of its      *)
(* tasks asked the pool for a connection once or had a pool of its own.     *)
OneConnectionPerTask ==
  \E doneBy \in [{j \in Jobs : runs[j] = 1} -> Workers] :
    \A w \in Workers :
      Cardinality({j \in DOMAIN doneBy : doneBy[j] = w}) = calls[w] + privateEnds[w]

(* When main has deleted the pools, every task it submitted and AddJob      *)
(* accepted has run once, with one connection of the pool or a pool of its  *)
(* own, which was deleted unless its Init failed, and every connection is   *)
(* closed.                                                                  *)
TasksServed ==
  phase = "deleted" =>
    /\ live = {} /\ private = {}
    /\ \A j \in Jobs : ret[j] \in {"accepted", "refused"}
    /\ \A j \in Jobs : ret[j] = "accepted" <=> runs[j] = 1
    /\ OneConnectionPerTask

(* main returns. *)
ProgramEnds == <>(mainAt = "exit")
=============================================================================
