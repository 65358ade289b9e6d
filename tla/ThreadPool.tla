----------------------------- MODULE ThreadPool -----------------------------
(***************************************************************************)
(* The thread pool of ThreadPool.h: m_threadnum worker threads that run    *)
(* threadpoll_function, client threads that call ThreadPool_AddJob and     *)
(* ThreadPool_Destroy, one mutex and three condition variables.            *)
(*                                                                         *)
(* Every shared field is read and written with m_mutex held, so the code   *)
(* between pthread_mutex_lock (or the return of a pthread_cond_wait) and   *)
(* the next pthread_mutex_unlock or pthread_cond_wait is one action.  The  *)
(* steps Destroy takes after its unlock are actions of their own.          *)
(***************************************************************************)
EXTENDS Integers, Sequences, FiniteSets, Functions

CONSTANTS
  Workers,       \* the m_threadnum threads Init asks pthread_create for
  MayNotStart,   \* the workers whose pthread_create may fail (never checked)
  Clients,       \* threads that call the pool
  Destroyers,    \* the clients that may call ThreadPool_Destroy
  Jobs,          \* AddJob calls, each with its own struct job
  QueueMaxNum,   \* m_QueueMaxNum
  Orderly,       \* TRUE: clients stop calling AddJob before Destroy is called
  SpuriousWakeups, \* TRUE: pthread_cond_wait may return unnotified
  NoJob          \* the NULL job pointer

ASSUME ClientAssumption == Destroyers \subseteq Clients
ASSUME WorkerAssumption == MayNotStart \subseteq Workers
ASSUME QueueAssumption  == QueueMaxNum \in Nat
ASSUME JobAssumption    == NoJob \notin Jobs
ASSUME ModeAssumption   == Orderly \in BOOLEAN /\ SpuriousWakeups \in BOOLEAN

VARIABLES
  m_queue,          \* the list from m_head to m_tail, in order
  m_CurQueueJobNum,
  m_PoolIsClose,
  mutexLive,        \* FALSE once pthread_mutex_destroy has run
  worker,           \* where each worker thread is
  pjob,             \* the job a worker has taken and not yet freed
  client,           \* where each client thread is
  arg,              \* the job a client is passing to AddJob
  ret,              \* what AddJob returned for each job
  runs,             \* how often each job's callback has returned
  accepted,         \* history: jobs in the order AddJob linked them
  taken             \* history: jobs in the order workers unlinked them

queueVars == <<m_queue, m_CurQueueJobNum, m_PoolIsClose, accepted, taken>>
vars == <<queueVars, mutexLive, worker, pjob, client, arg, ret, runs>>

WorkerStates == {"unstarted", "ready", "notEmpty", "running", "exited"}

(* "destroy" is Destroy at its first lock, "recheck" Destroy woken inside   *)
(* its wait loop; "undefined" is a thread that has run into undefined       *)
(* behaviour and of which nothing more is said.                             *)
ClientStates == {"idle", "add", "notFull",
                 "destroy", "recheck", "queueEmpty", "wakeWorkers",
                 "wakeAdders", "join", "teardown", "destroyed",
                 "returned", "undefined"}

DestroyStates == ClientStates \ {"idle", "add", "notFull"}

TypeOK ==
  /\ m_queue \in Seq(Jobs)
  /\ m_CurQueueJobNum \in 0..QueueMaxNum
  /\ m_PoolIsClose \in BOOLEAN
  /\ mutexLive \in BOOLEAN
  /\ worker \in [Workers -> WorkerStates]
  /\ pjob \in [Workers -> Jobs \cup {NoJob}]
  /\ client \in [Clients -> ClientStates]
  /\ arg \in [Clients -> Jobs \cup {NoJob}]
  /\ ret \in [Jobs -> {"none", "calling", "accepted", "refused"}]
  /\ runs \in [Jobs -> Nat]
  /\ accepted \in Seq(Jobs)
  /\ taken \in Seq(Jobs)

-----------------------------------------------------------------------------
(* Threadpool::Init.  It returns before the pool is used, so the workers    *)
(* that did start are at the top of their loop; those whose pthread_create  *)
(* failed leave an uninitialised m_pthreads entry behind.                   *)
Init ==
  /\ m_queue = <<>>
  /\ m_CurQueueJobNum = 0
  /\ m_PoolIsClose = FALSE
  /\ mutexLive = TRUE
  /\ \E failed \in SUBSET MayNotStart :
       worker = [w \in Workers |-> IF w \in failed THEN "unstarted" ELSE "ready"]
  /\ pjob = [w \in Workers |-> NoJob]
  /\ client = [c \in Clients |-> "idle"]
  /\ arg = [c \in Clients |-> NoJob]
  /\ ret = [j \in Jobs |-> "none"]
  /\ runs = [j \in Jobs |-> 0]
  /\ accepted = <<>>
  /\ taken = <<>>

(* Deliberate mistakes, each the size of a slip in ThreadPool.h, that the   *)
(* properties below are shown to catch when they replace the definition     *)
(* named in the comment.                                                    *)
SignalledWorkers ==    \* WokenWorkers: signal instead of broadcast
  LET asleep == {w \in Workers : worker[w] = "notEmpty"}
  IN  IF asleep = {} THEN worker
      ELSE [worker EXCEPT ![CHOOSE w \in asleep : TRUE] = "ready"]
NoWokenWorkers == worker                           \* WokenWorkers: forgotten
NoSignalQueueEmpty == {{}}                         \* SignalQueueEmpty: forgotten
StopsBeingFullLate(n) == n = QueueMaxNum           \* StopsBeingFull: off by one
LinkedAtHead(j) == <<j>> \o m_queue                \* Linked: at the wrong end
NotUnlinked(n) == IF n = 0 THEN <<>> ELSE m_queue  \* Unlinked: head not moved
NothingToDrain(n) == TRUE                          \* Drained: wait forgotten
NoJoin == TRUE                                     \* AllJoined: join forgotten

(* pthread_cond_broadcast(&m_cond_QueueNotEmpty) *)
WokenWorkers ==
  [w \in Workers |-> IF worker[w] = "notEmpty" THEN "ready" ELSE worker[w]]

(* pthread_cond_broadcast(&m_cond_QueueNotFull) *)
WokenAdders ==
  [c \in Clients |-> IF client[c] = "notFull" THEN "add" ELSE client[c]]

(* pthread_cond_signal(&m_cond_QueueEmpty) wakes one waiter if there is one *)
SignalQueueEmpty ==
  LET waiters == {d \in Clients : client[d] = "queueEmpty"}
  IN  IF waiters = {} THEN {{}} ELSE {{d} : d \in waiters}

(* The tests on m_CurQueueJobNum, and the pointer surgery on the list. *)
QueueFull(n) == n = QueueMaxNum
StopsBeingFull(n) == n = QueueMaxNum - 1
Drained(n) == n = 0
Linked(j) == Append(m_queue, j)
Unlinked(n) == IF n = 0 THEN <<>> ELSE Tail(m_queue)

-----------------------------------------------------------------------------
(* threadpoll_function *)

WorkerWait(w) ==
  /\ worker[w] = "ready" /\ mutexLive
  /\ m_CurQueueJobNum = 0 /\ ~m_PoolIsClose
  /\ worker' = [worker EXCEPT ![w] = "notEmpty"]
  /\ UNCHANGED <<queueVars, mutexLive, pjob, client, arg, ret, runs>>

WorkerExit(w) ==
  /\ worker[w] = "ready" /\ mutexLive
  /\ m_PoolIsClose
  /\ worker' = [worker EXCEPT ![w] = "exited"]
  /\ UNCHANGED <<queueVars, mutexLive, pjob, client, arg, ret, runs>>

(* Unlink the head, signal QueueEmpty when none is left and broadcast       *)
(* NotFull when the queue stops being full.                                 *)
WorkerTake(w) ==
  /\ worker[w] = "ready" /\ mutexLive
  /\ m_CurQueueJobNum # 0 /\ ~m_PoolIsClose
  /\ m_CurQueueJobNum' = m_CurQueueJobNum - 1
  /\ pjob' = [pjob EXCEPT ![w] = Head(m_queue)]
  /\ m_queue' = Unlinked(m_CurQueueJobNum')
  /\ taken' = Append(taken, Head(m_queue))
  /\ worker' = [worker EXCEPT ![w] = "running"]
  /\ \E signalled \in IF m_CurQueueJobNum' = 0 THEN SignalQueueEmpty ELSE {{}} :
       LET woken == IF StopsBeingFull(m_CurQueueJobNum')
                    THEN WokenAdders ELSE client
       IN  client' = [c \in Clients |-> IF c \in signalled THEN "recheck" ELSE woken[c]]
  /\ UNCHANGED <<m_PoolIsClose, accepted, mutexLive, arg, ret, runs>>

(* The callback returns and the job is freed, outside the mutex. *)
WorkerFinish(w) ==
  /\ worker[w] = "running"
  /\ runs' = [runs EXCEPT ![pjob[w]] = @ + 1]
  /\ pjob' = [pjob EXCEPT ![w] = NoJob]
  /\ worker' = [worker EXCEPT ![w] = "ready"]
  /\ UNCHANGED <<queueVars, mutexLive, client, arg, ret>>

-----------------------------------------------------------------------------
(* ThreadPool_AddJob *)

AddJobCall(c, j) ==
  /\ client[c] = "idle" /\ ret[j] = "none"
  /\ Orderly => \A d \in Clients : client[d] \notin DestroyStates
  /\ client' = [client EXCEPT ![c] = "add"]
  /\ arg' = [arg EXCEPT ![c] = j]
  /\ ret' = [ret EXCEPT ![j] = "calling"]
  /\ UNCHANGED <<queueVars, mutexLive, worker, pjob, runs>>

AddJobReturn(c, value) ==
  /\ client' = [client EXCEPT ![c] = "idle"]
  /\ arg' = [arg EXCEPT ![c] = NoJob]
  /\ ret' = [ret EXCEPT ![arg[c]] = value]

AddWait(c) ==
  /\ client[c] = "add" /\ mutexLive
  /\ QueueFull(m_CurQueueJobNum) /\ ~m_PoolIsClose
  /\ client' = [client EXCEPT ![c] = "notFull"]
  /\ UNCHANGED <<queueVars, mutexLive, worker, pjob, arg, ret, runs>>

(* The pool is closed, or malloc returns NULL: -1 and nothing queued. *)
AddRefuse(c) ==
  /\ client[c] = "add" /\ mutexLive
  /\ m_PoolIsClose \/ ~QueueFull(m_CurQueueJobNum)
  /\ AddJobReturn(c, "refused")
  /\ UNCHANGED <<queueVars, mutexLive, worker, pjob, runs>>

AddEnqueue(c) ==
  /\ client[c] = "add" /\ mutexLive
  /\ ~QueueFull(m_CurQueueJobNum) /\ ~m_PoolIsClose
  /\ m_queue' = Linked(arg[c])
  /\ worker' = IF m_queue = <<>> THEN WokenWorkers ELSE worker
  /\ m_CurQueueJobNum' = m_CurQueueJobNum + 1
  /\ accepted' = Append(accepted, arg[c])
  /\ AddJobReturn(c, "accepted")
  /\ UNCHANGED <<m_PoolIsClose, taken, mutexLive, pjob, runs>>

-----------------------------------------------------------------------------
(* ThreadPool_Destroy *)

DestroyCall(d) ==
  /\ client[d] = "idle"
  /\ Orderly => \A c \in Clients : client[c] = "idle"
  /\ client' = [client EXCEPT ![d] = "destroy"]
  /\ UNCHANGED <<queueVars, mutexLive, worker, pjob, arg, ret, runs>>

DestroyAlreadyClosed(d) ==
  /\ client[d] = "destroy" /\ mutexLive
  /\ m_PoolIsClose
  /\ client' = [client EXCEPT ![d] = "returned"]
  /\ UNCHANGED <<queueVars, mutexLive, worker, pjob, arg, ret, runs>>

(* The test of the wait loop: reached from the top of Destroy when the      *)
(* pool is not closed, and again after each wait, whatever the flag says.   *)
AtEmptyTest(d) ==
  /\ mutexLive
  /\ \/ client[d] = "destroy" /\ ~m_PoolIsClose
     \/ client[d] = "recheck"

DestroyWait(d) ==
  /\ AtEmptyTest(d)
  /\ ~Drained(m_CurQueueJobNum)
  /\ client' = [client EXCEPT ![d] = "queueEmpty"]
  /\ UNCHANGED <<queueVars, mutexLive, worker, pjob, arg, ret, runs>>

DestroyClose(d) ==
  /\ AtEmptyTest(d)
  /\ Drained(m_CurQueueJobNum)
  /\ m_PoolIsClose' = TRUE
  /\ client' = [client EXCEPT ![d] = "wakeWorkers"]
  /\ UNCHANGED <<m_queue, m_CurQueueJobNum, accepted, taken,
                 mutexLive, worker, pjob, arg, ret, runs>>

DestroyWakeWorkers(d) ==
  /\ client[d] = "wakeWorkers"
  /\ worker' = WokenWorkers
  /\ client' = [client EXCEPT ![d] = "wakeAdders"]
  /\ UNCHANGED <<queueVars, mutexLive, pjob, arg, ret, runs>>

DestroyWakeAdders(d) ==
  /\ client[d] = "wakeAdders"
  /\ client' = [WokenAdders EXCEPT ![d] = "join"]
  /\ UNCHANGED <<queueVars, mutexLive, worker, pjob, arg, ret, runs>>

(* pthread_join on every worker in turn returns once all have exited. *)
AllJoined == \A w \in Workers : worker[w] = "exited"

AlreadyJoined == \E d \in Clients : client[d] \in {"teardown", "destroyed"}

DestroyJoin(d) ==
  /\ client[d] = "join" /\ ~AlreadyJoined
  /\ AllJoined
  /\ client' = [client EXCEPT ![d] = "teardown"]
  /\ UNCHANGED <<queueVars, mutexLive, worker, pjob, arg, ret, runs>>

(* Joining a thread that never started, or one another Destroy has joined. *)
DestroyJoinUndefined(d) ==
  /\ client[d] = "join"
  /\ AlreadyJoined \/ \E w \in Workers : worker[w] = "unstarted"
  /\ client' = [client EXCEPT ![d] = "undefined"]
  /\ UNCHANGED <<queueVars, mutexLive, worker, pjob, arg, ret, runs>>

(* Destroy the mutex and the conditions, free m_pthreads and what is left   *)
(* of the list.                                                             *)
DestroyTeardown(d) ==
  /\ client[d] = "teardown"
  /\ mutexLive' = FALSE
  /\ m_queue' = <<>>
  /\ client' = [client EXCEPT ![d] = "destroyed"]
  /\ UNCHANGED <<m_CurQueueJobNum, m_PoolIsClose, accepted, taken,
                 worker, pjob, arg, ret, runs>>

(* A client that locks the mutex after it was destroyed. *)
UseAfterDestroy(c) ==
  /\ client[c] \in {"add", "destroy", "recheck"} /\ ~mutexLive
  /\ client' = [client EXCEPT ![c] = "undefined"]
  /\ UNCHANGED <<queueVars, mutexLive, worker, pjob, arg, ret, runs>>

-----------------------------------------------------------------------------
(* pthread_cond_wait may return without a signal; the code re-tests.        *)
SpuriousWorker(w) ==
  /\ SpuriousWakeups
  /\ worker[w] = "notEmpty"
  /\ worker' = [worker EXCEPT ![w] = "ready"]
  /\ UNCHANGED <<queueVars, mutexLive, pjob, client, arg, ret, runs>>

SpuriousClient(c) ==
  /\ SpuriousWakeups
  /\ client[c] \in {"notFull", "queueEmpty"}
  /\ client' = [client EXCEPT ![c] = IF @ = "notFull" THEN "add" ELSE "recheck"]
  /\ UNCHANGED <<queueVars, mutexLive, worker, pjob, arg, ret, runs>>

(* Every thread has come to rest: the only intended way to stop. *)
Terminated ==
  /\ \A c \in Clients : client[c] \in {"idle", "destroyed", "returned"}
  /\ \E d \in Clients : client[d] = "destroyed"
  /\ \A w \in Workers : worker[w] = "exited"
  /\ UNCHANGED vars

WorkerStep(w) ==
  WorkerWait(w) \/ WorkerExit(w) \/ WorkerTake(w) \/ WorkerFinish(w)

AddStep(c) == AddWait(c) \/ AddRefuse(c) \/ AddEnqueue(c)

DestroyStep(d) ==
  \/ DestroyAlreadyClosed(d) \/ DestroyWait(d) \/ DestroyClose(d)
  \/ DestroyWakeWorkers(d) \/ DestroyWakeAdders(d)
  \/ DestroyJoin(d) \/ DestroyJoinUndefined(d) \/ DestroyTeardown(d)

Next ==
  \/ \E w \in Workers : WorkerStep(w) \/ SpuriousWorker(w)
  \/ \E c \in Clients, j \in Jobs : AddJobCall(c, j)
  \/ \E c \in Clients : AddStep(c) \/ UseAfterDestroy(c) \/ SpuriousClient(c)
  \/ \E d \in Destroyers : DestroyCall(d) \/ DestroyStep(d)
  \/ Terminated

Spec == Init /\ [][Next]_vars

(* A thread that can run does run: no thread is barred from the mutex       *)
(* forever and every callback returns.  Nobody is obliged to call the pool. *)
Fairness ==
  /\ \A w \in Workers : WF_vars(WorkerStep(w))
  /\ \A c \in Clients : WF_vars(AddStep(c) \/ UseAfterDestroy(c) \/ DestroyStep(c))

FairSpec == Spec /\ Fairness

-----------------------------------------------------------------------------
(* Properties *)

(* The queue loses, invents and reorders nothing: what AddJob has linked is *)
(* what the workers have unlinked followed by what the list still holds,    *)
(* m_CurQueueJobNum counts the list, and the bound is respected.            *)
QueueAccounting ==
  /\ accepted = taken \o m_queue
  /\ m_CurQueueJobNum = Len(m_queue)
  /\ m_CurQueueJobNum <= QueueMaxNum

(* A job AddJob returned 0 for is queued, held by one worker or has run     *)
(* once, and only one of these; a job it returned -1 for never runs.        *)
ExactlyOnce ==
  /\ \A j \in Jobs : ret[j] = "accepted" <=> j \in Range(accepted)
  /\ \A i, k \in DOMAIN accepted : accepted[i] = accepted[k] => i = k
  /\ \A w \in Workers : pjob[w] # NoJob => pjob[w] \in Range(taken)
  /\ \A v, w \in Workers : pjob[v] = pjob[w] /\ pjob[v] # NoJob => v = w
  /\ \A j \in Jobs :
       runs[j] = IF j \in Range(taken) /\ \A w \in Workers : pjob[w] # j
                 THEN 1 ELSE 0

BroadcastPending(from) ==
  m_PoolIsClose /\ \E d \in Clients : client[d] \in from

(* At most one thread is ever inside ThreadPool_Destroy. *)
SoleDestroyer == Orderly \/ \A d, e \in Destroyers : d = e

(* Nobody sleeps through the event it waits for.  AddJob broadcasts         *)
(* NotEmpty only when the list was empty and a worker broadcasts NotFull    *)
(* only at m_QueueMaxNum - 1, so a worker asleep means an empty queue and a *)
(* client asleep in AddJob a full one, unless a closing broadcast is due;   *)
(* a lone Destroy asleep means jobs are queued.                             *)
NoMissedWakeup ==
  /\ (\E w \in Workers : worker[w] = "notEmpty") =>
        /\ m_queue = <<>>
        /\ m_PoolIsClose => BroadcastPending({"wakeWorkers"})
  /\ (\E c \in Clients : client[c] = "notFull") =>
        \/ Len(m_queue) = QueueMaxNum /\ ~m_PoolIsClose
        \/ BroadcastPending({"wakeWorkers", "wakeAdders"})
  /\ SoleDestroyer =>
        \A d \in Clients : client[d] = "queueEmpty" => m_queue # <<>>

(* Destroy releases the pool only when every worker has exited and every    *)
(* accepted job has run, so its last loop finds no job to free unrun.       *)
DrainedBeforeRelease ==
  (\E d \in Clients : client[d] \in {"teardown", "destroyed"}) =>
     /\ \A w \in Workers : worker[w] = "exited"
     /\ \A j \in Jobs : ret[j] = "accepted" => runs[j] = 1

(* With clients that stop before Destroy, no thread is inside the pool, or  *)
(* on its way to m_mutex, once the mutex is destroyed.                      *)
MutexOutlivesUsers ==
  Orderly /\ ~mutexLive =>
     /\ \A w \in Workers : worker[w] = "exited"
     /\ \A c \in Clients : client[c] \in {"idle", "destroyed"}

(* The pool implements the service: AddJob's link and refusal, a worker's   *)
(* unlink and free, Destroy's close and teardown are its steps.             *)
Service == INSTANCE JobService WITH
  Capacity <- QueueMaxNum,
  pending  <- m_queue,
  active   <- {pjob[w] : w \in Workers} \ {NoJob},
  finished <- {j \in Jobs : runs[j] > 0},
  refused  <- {j \in Jobs : ret[j] = "refused"},
  phase    <- IF ~mutexLive THEN "released"
              ELSE IF m_PoolIsClose THEN "closed" ELSE "open"

ServiceSpec == Service!Spec

Started == {w \in Workers : worker[w] # "unstarted"}

(* If one worker started, every job AddJob accepts is run, even though      *)
(* AddJob does not signal when the list is not empty.                       *)
AcceptedJobsRun ==
  \A j \in Jobs : (ret[j] = "accepted" /\ Started # {}) ~> (runs[j] = 1)

(* A client blocked in AddJob on a full queue comes back (or finds the pool *)
(* destroyed under it).                                                     *)
AddReturns ==
  \A c \in Clients :
    (client[c] \in {"add", "notFull"} /\ Started # {} /\ QueueMaxNum > 0)
      ~> (client[c] \in {"idle", "undefined"})

(* If every worker started, Destroy drains, joins and returns, unless       *)
(* another client calls it as well.                                         *)
DestroyReturns ==
  \A d \in Clients :
    (client[d] = "destroy" /\ Started = Workers /\ Workers # {})
      ~> (client[d] = "destroyed" \/ \E e \in Clients \ {d} : client[e] \in DestroyStates)
=============================================================================
