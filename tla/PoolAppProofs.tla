--------------------------- MODULE PoolAppProofs ---------------------------
(***************************************************************************)
(* Theorems of PoolApp, from those of the two pools it composes: the       *)
(* program uses each as its specification expects, the thread pool's       *)
(* mutex outlives its users, and every accepted task is served once.       *)
(***************************************************************************)
EXTENDS PoolApp, ThreadPoolProofs, FiniteSetTheorems

(* DBPool with the proofs about it.                                         *)
DBP == INSTANCE DBPoolProofs WITH
  Threads <- Users, NullReleasers <- Users, Rounds <- Cardinality(Jobs) + 1

(* How far main has come, and what that says of its calls.                  *)
MainProgress ==
  /\ mainAt \in MainStates
  /\ mainAt \in {"prepare", "createThreads", "submit", "destroy"} => phase = "ready"
  /\ phase = "deleted" => mainAt = "exit" /\ ThreadPoolGone
  /\ mainAt = "destroy" \/ phase = "deleted" =>
       AllSubmitted /\ client[main] \notin {"idle", "add", "notFull"}
  /\ \A j \in Jobs : ret[j] = "calling" => client[main] \in {"add", "notFull"} /\ arg[main] = j
  /\ pc[main] # "idle" => mainAt = "prepare"

(* Only a job that is running uses a connection of the pool, or has a pool  *)
(* of its own, according to the program's argument.                         *)
JobsUse ==
  /\ use_pool \in BOOLEAN /\ private \subseteq Workers /\ privateEnds \in [Workers -> Nat]
  /\ \A w \in Workers : pc[w] # "idle" => use_pool /\ worker[w] = "running"
  /\ \A w \in private : ~use_pool /\ worker[w] = "running"

(* 1 for a worker that has asked for a connection in the job it is running. *)
Asking(w) == IF pc[w] = "idle" THEN 0 ELSE 1

DoneBy(doneBy, w) == {j \in DOMAIN doneBy : doneBy[j] = w}

Attributed ==
  \E doneBy \in [{j \in Jobs : runs[j] = 1} -> Workers] :
    \A w \in Workers :
      Cardinality(DoneBy(doneBy, w)) + Asking(w) = calls[w] + privateEnds[w]

AppInv == MainProgress /\ JobsUse /\ Attributed

AllInv == IInv /\ DBP!IInv /\ AppInv

-----------------------------------------------------------------------------
(* Each step is one of the thread pool's and one of the connection pool's. *)

LEMMA StepsOfThreadPool == AppNext => [Next]_vars
<1> SUFFICES ASSUME AppNext PROVE [Next]_vars OBVIOUS
<1>1. main \in Clients /\ main \in Destroyers BY MainAssumption
<1>2. CASE MainStep
  BY <1>1, <1>2
  DEF MainStep, OpenPool, PrepareTable, CreateThreads, Submit, CallDestroy, InDestroy,
      DeletePools, threadVars, Next
<1>3. ASSUME NEW w \in Workers, WorkerLoop(w) \/ JobStep(w) PROVE [Next]_vars
  BY <1>3
  DEF WorkerLoop, JobStep, JobBegin, JobGet, JobEnd, PrivateInit, PrivateInitFail, PrivateEnd,
      threadVars, Next, WorkerStep
<1>4. CASE WakeSpuriously BY <1>1, <1>4 DEF WakeSpuriously, threadVars, Next
<1>5. CASE AppTerminated BY <1>5 DEF AppTerminated, appVars, threadVars
<1> QED BY <1>2, <1>3, <1>4, <1>5 DEF AppNext

LEMMA StepsOfConnPool == IInv /\ AppInv /\ AppNext => [DB!Next]_dbVars
<1> SUFFICES ASSUME IInv, AppInv, AppNext PROVE [DB!Next]_dbVars OBVIOUS
<1>1. main \in Users /\ Workers \subseteq Users BY DEF Users
<1>2. ASSUME DeletePools PROVE DB!UsersDone /\ DB!PoolDelete
  <2>1. mainAt = "destroy" /\ client[main] = "destroyed" /\ DB!PoolDelete
    BY <1>2 DEF DeletePools, ThreadPoolGone
  <2>2. pc[main] = "idle" BY <2>1 DEF AppInv, MainProgress
  <2>3. \A w \in Workers : worker[w] = "exited"
    BY <2>1, MainAssumption DEF IInv, DrainedBeforeRelease
  <2>4. \A w \in Workers : pc[w] = "idle" BY <2>3 DEF AppInv, JobsUse
  <2> QED BY <2>1, <2>2, <2>4 DEF DB!UsersDone, Users
<1>3. CASE MainStep
  BY <1>1, <1>2, <1>3
  DEF MainStep, OpenPool, PrepareTable, CreateThreads, Submit, CallDestroy, InDestroy,
      DB!Next, DB!ThreadStep
<1>4. ASSUME NEW w \in Workers, WorkerLoop(w) \/ JobStep(w) PROVE [DB!Next]_dbVars
  BY <1>1, <1>4
  DEF WorkerLoop, JobStep, JobBegin, JobGet, JobEnd, PrivateInit, PrivateInitFail, PrivateEnd,
      DB!Next, DB!ThreadStep
<1>5. CASE WakeSpuriously BY <1>5 DEF WakeSpuriously, DB!Next
<1>6. CASE AppTerminated BY <1>6 DEF AppTerminated, appVars
<1> QED BY <1>3, <1>4, <1>5, <1>6 DEF AppNext

(* The instance with proofs is the instance without.                        *)
LEMMA SamePool ==
  /\ DB!Init <=> DBP!Init
  /\ [DB!Next]_dbVars <=> [DBP!Next]_(DBP!vars)
<1>1. DB!Init <=> DBP!Init BY DEF DB!Init, DBP!Init
<1>2. DB!Next <=> DBP!Next
  BY DEF DB!Next, DB!PoolInit, DB!PoolInitFail, DB!UsersDone, DB!PoolDelete, DB!GetCall,
         DB!ThreadStep, DB!GetStep, DB!GetWait, DB!GetPop, DB!GetConnect, DB!GetConnectFail,
         DB!GetReturn, DB!RelConn, DB!NothingToRelease, DB!SpuriousWakeup, DB!MayRelease,
         DB!Returned, DB!Signalled, DB!AtLimit, DB!PoppedList, DB!CountedConn, DB!poolVars,
         DB!Range,
         DBP!Next, DBP!PoolInit, DBP!PoolInitFail, DBP!UsersDone, DBP!PoolDelete, DBP!GetCall,
         DBP!ThreadStep, DBP!GetStep, DBP!GetWait, DBP!GetPop, DBP!GetConnect, DBP!GetConnectFail,
         DBP!GetReturn, DBP!RelConn, DBP!NothingToRelease, DBP!SpuriousWakeup, DBP!MayRelease,
         DBP!Returned, DBP!Signalled, DBP!AtLimit, DBP!PoppedList, DBP!CountedConn, DBP!poolVars,
         DBP!Range
<1>3. dbVars' = dbVars <=> (DBP!vars)' = DBP!vars BY DEF dbVars, DBP!vars, DBP!poolVars
<1> QED BY <1>1, <1>2, <1>3

(* What DBPool assumes of its constants holds of the program's.             *)
LEMMA PoolAssumptions ==
  /\ NULL \notin Conns /\ DBP!IsFiniteSet(Conns) /\ DBP!IsFiniteSet(Users)
  /\ MaxConn \in Int /\ Cardinality(Jobs) + 1 \in Nat
<1>1. IsFiniteSet(Conns) <=> DBP!IsFiniteSet(Conns) BY DEF IsFiniteSet, DBP!IsFiniteSet
<1>2. IsFiniteSet(Users) <=> DBP!IsFiniteSet(Users) BY DEF IsFiniteSet, DBP!IsFiniteSet
<1>3. IsFiniteSet(Users) BY FiniteAssumption, FS_AddElement DEF Users
<1>4. Cardinality(Jobs) \in Nat BY FiniteAssumption, FS_CardinalityType
<1> QED BY <1>1, <1>2, <1>3, <1>4, FiniteAssumption

LEMMA PoolInvariant ==
  /\ DB!Init => DBP!IInv
  /\ DBP!IInv /\ [DB!Next]_dbVars => DBP!IInv'
  BY PoolAssumptions, SamePool, DBP!InitEstablishesIInv, DBP!NextKeepsIInv

-----------------------------------------------------------------------------
(* What the steps of the two pools do to what the program's invariant says. *)

(* Every other user of the connection pool stays idle, or stays busy.       *)
OthersIdleSame(t) == \A u \in Users \ {t} : pc'[u] = "idle" <=> pc[u] = "idle"

LEMMA UserStates ==
  ASSUME DBP!IInv
  PROVE  pc \in [Users -> {"idle", "get", "wait", "using"}] /\ calls \in [Users -> Nat]
<1>1. Cardinality(Jobs) + 1 \in Nat BY PoolAssumptions
<1>2. calls \in [Users -> 0..(Cardinality(Jobs) + 1)] BY DEF DBP!IInv, DBP!TypeOK
<1>3. pc \in [Users -> {"idle", "get", "wait", "using"}]
  BY DEF DBP!IInv, DBP!TypeOK, DBP!ThreadStates
<1> QED BY <1>1, <1>2, <1>3

LEMMA AsksForConnection ==
  ASSUME DBP!IInv, NEW t \in Users, DB!GetCall(t)
  PROVE  /\ pc[t] = "idle" /\ pc'[t] # "idle" /\ OthersIdleSame(t)
         /\ phase' = phase
         /\ calls'[t] = calls[t] + 1 /\ \A u \in Users \ {t} : calls'[u] = calls[u]
  BY UserStates DEF DB!GetCall, OthersIdleSame

LEMMA GoesOnAsking ==
  ASSUME DBP!IInv, NEW t \in Users, DB!GetStep(t) \/ DB!SpuriousWakeup(t)
  PROVE  /\ pc[t] # "idle" /\ pc'[t] # "idle" /\ OthersIdleSame(t)
         /\ phase' = phase /\ calls' = calls
  BY UserStates
  DEF DB!GetStep, DB!GetWait, DB!GetPop, DB!GetConnect, DB!GetConnectFail, DB!GetReturn,
      DB!SpuriousWakeup, OthersIdleSame, DB!poolVars

LEMMA GivesConnectionBack ==
  ASSUME DBP!IInv, NEW t \in Users, DB!RelConn(t)
  PROVE  /\ pc[t] # "idle" /\ pc'[t] = "idle" /\ OthersIdleSame(t)
         /\ phase' = phase /\ calls' = calls
<1>1. pc \in [Users -> {"idle", "get", "wait", "using"}] BY UserStates
<1>2. PICK signalled \in DB!Signalled(m_free_list) :
        pc' = [u \in Users |-> IF u = t THEN "idle"
                               ELSE IF u \in signalled THEN "get" ELSE pc[u]]
  BY DEF DB!RelConn
<1>3. \A u \in signalled : pc[u] = "wait" BY DEF DB!Signalled
<1>4. pc[t] = "using" /\ phase' = phase /\ calls' = calls BY DEF DB!RelConn
<1> QED BY <1>1, <1>2, <1>3, <1>4 DEF OthersIdleSame

(* A step of the thread pool other than the end of a job ends no job and    *)
(* gives no job a pool.                                                     *)
RunningSame == \A u \in Workers : worker'[u] = "running" <=> worker[u] = "running"

LEMMA AddingOrNot ==
  ASSUME TypeOK, SpuriousClient(main) \/ \E w \in Workers : SpuriousWorker(w)
  PROVE  /\ RunningSame /\ ret' = ret /\ runs' = runs /\ arg' = arg
         /\ client'[main] \in {"add", "notFull"} <=> client[main] \in {"add", "notFull"}
         /\ client'[main] = "idle" <=> client[main] = "idle"
         /\ client[main] = "destroyed" => client'[main] = "destroyed"
<1>1. main \in Clients BY MainAssumption
<1> QED BY <1>1 DEF TypeOK, SpuriousClient, SpuriousWorker, RunningSame, WorkerStates, ClientStates

LEMMA LoopSteps ==
  ASSUME TypeOK, NEW w \in Workers, WorkerWait(w) \/ WorkerExit(w) \/ WorkerTake(w)
  PROVE  /\ \A u \in Workers : worker[u] = "running" => worker'[u] = "running"
         /\ ret' = ret /\ runs' = runs /\ arg' = arg
         /\ client'[main] \in {"add", "notFull"} <=> client[main] \in {"add", "notFull"}
         /\ client'[main] = "idle" <=> client[main] = "idle"
         /\ client[main] = "destroyed" => client'[main] = "destroyed"
<1>1. main \in Clients /\ Clients = {main} BY MainAssumption
<1>2. CASE WorkerWait(w) \/ WorkerExit(w)
  BY <1>1, <1>2 DEF TypeOK, WorkerWait, WorkerExit, WorkerStates
<1>3. CASE WorkerTake(w)
  <2>1. \A u \in Workers : worker[u] = "running" => worker'[u] = "running"
    BY <1>3 DEF TypeOK, WorkerTake
  <2>2. PICK signalled \in IF m_CurQueueJobNum' = 0 THEN SignalQueueEmpty ELSE {{}} :
          LET woken == IF StopsBeingFull(m_CurQueueJobNum') THEN WokenAdders ELSE client
          IN  client' = [c \in Clients |-> IF c \in signalled THEN "recheck" ELSE woken[c]]
    BY <1>3 DEF WorkerTake
  <2>3. \A c \in signalled : client[c] = "queueEmpty" BY <2>2 DEF SignalQueueEmpty
  <2>4. \/ client'[main] = client[main]
        \/ client[main] = "queueEmpty" /\ client'[main] = "recheck"
        \/ client[main] = "notFull" /\ client'[main] = "add"
    <3> DEFINE woken == IF StopsBeingFull(m_CurQueueJobNum') THEN WokenAdders ELSE client
    <3>1. woken[main] = client[main] \/ (client[main] = "notFull" /\ woken[main] = "add")
      BY <1>1 DEF WokenAdders
    <3>2. client' = [c \in Clients |-> IF c \in signalled THEN "recheck" ELSE woken[c]]
      BY <2>2
    <3>3. main \in Clients BY <1>1
    <3> HIDE DEF woken
    <3>4. client'[main] = IF main \in signalled THEN "recheck" ELSE woken[main] BY <3>2, <3>3
    <3>5. main \in signalled => client[main] = "queueEmpty" BY <2>3
    <3> QED BY <3>1, <3>4, <3>5
  <2>5. ret' = ret /\ runs' = runs /\ arg' = arg BY <1>3 DEF WorkerTake
  <2> QED BY <2>1, <2>4, <2>5
<1> QED BY <1>2, <1>3

(* The end of a job.                                                        *)
LEMMA JobEnds ==
  ASSUME IInv, NEW w \in Workers, WorkerFinish(w)
  PROVE  /\ worker[w] = "running" /\ \A u \in Workers \ {w} : worker'[u] = worker[u]
         /\ client' = client /\ ret' = ret /\ arg' = arg
         /\ pjob[w] \in Jobs /\ runs[pjob[w]] = 0
         /\ runs' = [runs EXCEPT ![pjob[w]] = 1]
<1>1. TypeOK /\ HandOver /\ ExactlyOnce BY DEF IInv
<1>2. worker[w] = "running" /\ runs' = [runs EXCEPT ![pjob[w]] = @ + 1]
      /\ client' = client /\ ret' = ret /\ arg' = arg /\ worker' = [worker EXCEPT ![w] = "ready"]
  BY DEF WorkerFinish
<1>3. pjob[w] \in Jobs BY <1>1, <1>2 DEF HandOver, TypeOK
<1>4. runs[pjob[w]] = 0 BY <1>1, <1>3 DEF ExactlyOnce
<1> QED BY <1>1, <1>2, <1>3, <1>4 DEF TypeOK

(* What main's calls to the thread pool do.                                 *)
LEMMA AddingSteps ==
  ASSUME TypeOK, MainProgress, AddStep(main)
  PROVE  /\ RunningSame /\ runs' = runs
         /\ \A j \in Jobs : ret[j] # "none" => ret'[j] # "none"
         /\ \A j \in Jobs : ret'[j] = "calling" =>
              client'[main] \in {"add", "notFull"} /\ arg'[main] = j
<1>1. main \in Clients BY MainAssumption
<1>2. CASE AddWait(main)
  BY <1>1, <1>2 DEF TypeOK, MainProgress, AddWait, RunningSame
<1>3. CASE AddRefuse(main)
  BY <1>1, <1>3 DEF TypeOK, MainProgress, AddRefuse, AddJobReturn, RunningSame
<1>4. CASE AddEnqueue(main)
  BY <1>1, <1>4
  DEF TypeOK, MainProgress, AddEnqueue, AddJobReturn, RunningSame, WokenWorkers
<1> QED BY <1>2, <1>3, <1>4 DEF AddStep

LEMMA DestroySteps ==
  ASSUME TypeOK, DestroyStep(main)
  PROVE  /\ RunningSame /\ runs' = runs /\ ret' = ret /\ arg' = arg
         /\ client'[main] \notin {"idle", "add", "notFull"}
<1>1. main \in Clients BY MainAssumption
<1>2. CASE DestroyAlreadyClosed(main) \/ DestroyWait(main) \/ DestroyClose(main)
  BY <1>1, <1>2 DEF TypeOK, DestroyAlreadyClosed, DestroyWait, DestroyClose, RunningSame
<1>3. CASE DestroyWakeWorkers(main) \/ DestroyWakeAdders(main)
  BY <1>1, <1>3
  DEF TypeOK, DestroyWakeWorkers, DestroyWakeAdders, RunningSame, WokenWorkers, WokenAdders
<1>4. CASE DestroyJoin(main) \/ DestroyJoinUndefined(main) \/ DestroyTeardown(main)
  BY <1>1, <1>4
  DEF TypeOK, DestroyJoin, DestroyJoinUndefined, DestroyTeardown, RunningSame
<1> QED BY <1>2, <1>3, <1>4 DEF DestroyStep

-----------------------------------------------------------------------------
(* Every task done is some worker's, with one connection each. *)

LEMMA StaysAttributed ==
  ASSUME Attributed, runs' = runs, privateEnds' = privateEnds,
         \A w \in Workers : (pc'[w] = "idle" <=> pc[w] = "idle") /\ calls'[w] = calls[w]
  PROVE  Attributed'
<1>1. PICK doneBy \in [{j \in Jobs : runs[j] = 1} -> Workers] :
        \A w \in Workers :
          Cardinality(DoneBy(doneBy, w)) + Asking(w) = calls[w] + privateEnds[w]
  BY DEF Attributed
<1>2. \A w \in Workers : Asking(w)' = Asking(w) BY DEF Asking
<1>3. \A w \in Workers :
        Cardinality(DoneBy(doneBy, w)) + Asking(w)' = calls'[w] + privateEnds'[w]
  BY <1>1, <1>2
<1>4. doneBy \in [{j \in Jobs : runs'[j] = 1} -> Workers] BY <1>1
<1> QED BY <1>3, <1>4 DEF Attributed, DoneBy

LEMMA AskedIsAttributed ==
  ASSUME DBP!IInv, JobsUse, Attributed, NEW w \in Workers, DB!GetCall(w), runs' = runs,
         privateEnds' = privateEnds
  PROVE  Attributed'
<1>1. PICK doneBy \in [{j \in Jobs : runs[j] = 1} -> Workers] :
        \A u \in Workers :
          Cardinality(DoneBy(doneBy, u)) + Asking(u) = calls[u] + privateEnds[u]
  BY DEF Attributed
<1>2. w \in Users /\ Workers \subseteq Users BY DEF Users
<1>3. /\ pc[w] = "idle" /\ pc'[w] # "idle" /\ calls'[w] = calls[w] + 1
      /\ \A u \in Workers \ {w} : (pc'[u] = "idle" <=> pc[u] = "idle") /\ calls'[u] = calls[u]
  BY <1>2, AsksForConnection DEF OthersIdleSame
<1>4. ASSUME NEW u \in Workers
      PROVE  Cardinality(DoneBy(doneBy, u)) + Asking(u)' = calls'[u] + privateEnds'[u]
  <2>1. DoneBy(doneBy, u) \in SUBSET Jobs BY DEF DoneBy
  <2>2. Cardinality(DoneBy(doneBy, u)) \in Nat
    BY <2>1, FiniteAssumption, FS_Subset, FS_CardinalityType
  <2>3. calls[u] \in Nat /\ privateEnds[u] \in Nat BY <1>2, UserStates DEF JobsUse
  <2>4. CASE u = w BY <1>1, <1>3, <2>2, <2>3, <2>4 DEF Asking
  <2>5. CASE u # w BY <1>1, <1>3, <2>5 DEF Asking
  <2> QED BY <2>4, <2>5
<1>5. doneBy \in [{j \in Jobs : runs'[j] = 1} -> Workers] BY <1>1
<1> QED BY <1>4, <1>5 DEF Attributed, DoneBy

(* A worker ends a job for which it had asked for a connection, or had a    *)
(* pool of its own.                                                         *)
LEMMA EndIsAttributed ==
  ASSUME IInv, DBP!IInv, JobsUse, Attributed, NEW w \in Workers, WorkerFinish(w),
         \A u \in Workers : calls'[u] = calls[u],
         \A u \in Workers \ {w} :
           (pc'[u] = "idle" <=> pc[u] = "idle") /\ privateEnds'[u] = privateEnds[u],
         \/ pc[w] # "idle" /\ pc'[w] = "idle" /\ privateEnds'[w] = privateEnds[w]
         \/ (pc'[w] = "idle" <=> pc[w] = "idle") /\ privateEnds'[w] = privateEnds[w] + 1
  PROVE  Attributed'
<1>1. PICK doneBy \in [{j \in Jobs : runs[j] = 1} -> Workers] :
        \A u \in Workers :
          Cardinality(DoneBy(doneBy, u)) + Asking(u) = calls[u] + privateEnds[u]
  BY DEF Attributed
<1> DEFINE job == pjob[w]
           now == [j \in {i \in Jobs : runs'[i] = 1} |-> IF j = job THEN w ELSE doneBy[j]]
<1>2. job \in Jobs /\ runs[job] = 0 /\ runs' = [runs EXCEPT ![job] = 1] /\ runs \in [Jobs -> Nat]
  BY JobEnds DEF IInv, TypeOK
<1>3. {i \in Jobs : runs'[i] = 1} = {i \in Jobs : runs[i] = 1} \cup {job}
      /\ job \notin {i \in Jobs : runs[i] = 1}
  BY <1>2
<1> HIDE DEF job
<1>4. now \in [{i \in Jobs : runs'[i] = 1} -> Workers] BY <1>1, <1>3
<1>5. DoneBy(now, w) = DoneBy(doneBy, w) \cup {job} /\ job \notin DoneBy(doneBy, w)
      /\ \A u \in Workers \ {w} : DoneBy(now, u) = DoneBy(doneBy, u)
  BY <1>1, <1>3 DEF DoneBy
<1>6. ASSUME NEW u \in Workers
      PROVE  Cardinality(DoneBy(now, u)) + Asking(u)' = calls'[u] + privateEnds'[u]
  <2>1. IsFiniteSet(DoneBy(doneBy, u)) /\ Cardinality(DoneBy(doneBy, u)) \in Nat
    <3>1. DoneBy(doneBy, u) \in SUBSET Jobs BY DEF DoneBy
    <3> QED BY <3>1, FiniteAssumption, FS_Subset, FS_CardinalityType
  <2>2. calls[u] \in Nat /\ privateEnds[u] \in Nat
    <3>1. u \in Users BY DEF Users
    <3> QED BY <3>1, UserStates DEF JobsUse
  <2>3. CASE u = w
    <3>1. Cardinality(DoneBy(now, u)) = Cardinality(DoneBy(doneBy, u)) + 1
      BY <1>5, <2>1, <2>3, FS_AddElement
    <3>2. Cardinality(DoneBy(doneBy, u)) + Asking(u) = calls[u] + privateEnds[u] BY <1>1
    <3> HIDE DEF now
    <3> QED BY <2>1, <2>2, <2>3, <3>1, <3>2 DEF Asking
  <2>4. CASE u # w
    <3>1. DoneBy(now, u) = DoneBy(doneBy, u) BY <1>5, <2>4
    <3>2. Asking(u)' = Asking(u) BY <2>4 DEF Asking
    <3> QED BY <1>1, <2>4, <3>1, <3>2
  <2> QED BY <2>3, <2>4
<1> QED BY <1>4, <1>6 DEF Attributed, DoneBy

-----------------------------------------------------------------------------
(* The steps of the program, one by one. *)

(* A step that is none of main's.                                           *)
LEMMA MainStays ==
  ASSUME MainProgress, mainAt' = mainAt, phase' = phase, ret' = ret, arg' = arg,
         client'[main] \in {"add", "notFull"} <=> client[main] \in {"add", "notFull"},
         client'[main] = "idle" <=> client[main] = "idle",
         client[main] = "destroyed" => client'[main] = "destroyed",
         pc'[main] = "idle" <=> pc[main] = "idle"
  PROVE  MainProgress'
  BY DEF MainProgress, AllSubmitted, ThreadPoolGone

(* A step that begins and ends no job.                                      *)
LEMMA UseStays ==
  ASSUME JobsUse, UNCHANGED privateVars,
         \A u \in Workers : worker[u] = "running" => worker'[u] = "running",
         \A u \in Workers : pc'[u] = "idle" <=> pc[u] = "idle"
  PROVE  JobsUse'
  BY DEF JobsUse, privateVars

LEMMA NothingKeeps == ASSUME AllInv, UNCHANGED appVars PROVE AppInv'
<1>1. UNCHANGED <<client, ret, arg, worker, runs, phase, pc, calls, mainAt, privateVars>>
  BY DEF appVars, threadVars, vars, dbVars
<1>2. MainProgress' BY <1>1, MainStays DEF AllInv, AppInv
<1>3. JobsUse' BY <1>1, UseStays DEF AllInv, AppInv
<1>4. Attributed' BY <1>1, StaysAttributed DEF AllInv, AppInv, privateVars
<1> QED BY <1>2, <1>3, <1>4 DEF AppInv

LEMMA OpenPoolKeeps == ASSUME AllInv, OpenPool PROVE AppInv'
<1>1. /\ mainAt = "start" /\ pc' = pc /\ calls' = calls /\ UNCHANGED <<threadVars, privateVars>>
      /\ \/ mainAt' = "prepare" /\ phase' = "ready"
         \/ mainAt' = "exit" /\ phase' = "failed"
  BY DEF OpenPool, DB!PoolInit, DB!PoolInitFail
<1>2. UNCHANGED <<client, ret, arg, worker, runs>> BY <1>1 DEF threadVars, vars
<1>3. MainProgress'
  BY <1>1, <1>2 DEF AllInv, AppInv, MainProgress, MainStates, AllSubmitted
<1>4. JobsUse' BY <1>1, <1>2, UseStays DEF AllInv, AppInv
<1>5. Attributed' BY <1>1, <1>2, StaysAttributed DEF AllInv, AppInv, privateVars
<1> QED BY <1>3, <1>4, <1>5 DEF AppInv

LEMMA PrepareTableKeeps == ASSUME AllInv, PrepareTable PROVE AppInv'
<1>1. mainAt = "prepare" /\ UNCHANGED <<threadVars, privateVars>> BY DEF PrepareTable
<1>2. UNCHANGED <<client, ret, arg, worker, runs>> BY <1>1 DEF threadVars, vars
<1>3. main \in Users /\ Workers \subseteq Users \ {main} BY MainAssumption DEF Users
<1>4. /\ phase' = phase /\ OthersIdleSame(main)
      /\ \A u \in Users \ {main} : calls'[u] = calls[u]
      /\ \/ mainAt' = "prepare"
         \/ mainAt' = "createThreads" /\ pc'[main] = "idle"
  BY <1>1, <1>3, AsksForConnection, GoesOnAsking, GivesConnectionBack DEF AllInv, PrepareTable
<1>5. \A u \in Workers : (pc'[u] = "idle" <=> pc[u] = "idle") /\ calls'[u] = calls[u]
  BY <1>3, <1>4 DEF OthersIdleSame
<1>6. MainProgress'
  BY <1>1, <1>2, <1>4 DEF AllInv, AppInv, MainProgress, MainStates, AllSubmitted
<1>7. JobsUse' BY <1>1, <1>2, <1>5, UseStays DEF AllInv, AppInv
<1>8. Attributed' BY <1>1, <1>2, <1>5, StaysAttributed DEF AllInv, AppInv, privateVars
<1> QED BY <1>6, <1>7, <1>8 DEF AppInv

LEMMA CreateThreadsKeeps == ASSUME AllInv, CreateThreads PROVE AppInv'
<1>1. /\ mainAt = "createThreads" /\ mainAt' \in {"submit", "exit"}
      /\ UNCHANGED <<client, ret, arg, worker, runs, phase, pc, calls, privateVars>>
  BY DEF CreateThreads, threadVars, vars, dbVars
<1>2. MainProgress' BY <1>1 DEF AllInv, AppInv, MainProgress, MainStates, AllSubmitted
<1>3. JobsUse' BY <1>1, UseStays DEF AllInv, AppInv
<1>4. Attributed' BY <1>1, StaysAttributed DEF AllInv, AppInv, privateVars
<1> QED BY <1>2, <1>3, <1>4 DEF AppInv

LEMMA SubmitKeeps == ASSUME AllInv, Submit PROVE AppInv'
<1>1. mainAt = "submit" /\ UNCHANGED <<phase, pc, calls, mainAt, privateVars>>
  BY DEF Submit, dbVars
<1>2. main \in Clients /\ TypeOK BY MainAssumption DEF AllInv, IInv
<1> DEFINE adds ==
      /\ RunningSame /\ runs' = runs
      /\ \A j \in Jobs : ret'[j] = "calling" =>
           client'[main] \in {"add", "notFull"} /\ arg'[main] = j
<1>3. adds
  <2>1. ASSUME NEW i \in Jobs, AddJobCall(main, i) PROVE adds
    BY <1>2, <2>1 DEF TypeOK, AddJobCall, RunningSame, AllInv, AppInv, MainProgress
  <2>2. CASE AddStep(main) BY <1>2, <2>2, AddingSteps DEF AllInv, AppInv
  <2> HIDE DEF adds
  <2> QED BY <2>1, <2>2 DEF Submit
<1>4. MainProgress' BY <1>1, <1>3 DEF AllInv, AppInv, MainProgress
<1>5. JobsUse' BY <1>1, <1>3, UseStays DEF AllInv, AppInv, RunningSame
<1>6. Attributed' BY <1>1, <1>3, StaysAttributed DEF AllInv, AppInv, privateVars
<1> QED BY <1>4, <1>5, <1>6 DEF AppInv

LEMMA CallDestroyKeeps == ASSUME AllInv, CallDestroy PROVE AppInv'
<1>1. /\ mainAt = "submit" /\ mainAt' = "destroy" /\ AllSubmitted
      /\ client[main] = "idle" /\ client' = [client EXCEPT ![main] = "destroy"]
      /\ UNCHANGED <<ret, arg, worker, runs, phase, pc, calls, privateVars>>
  BY DEF CallDestroy, DestroyCall, dbVars
<1>2. client'[main] = "destroy" BY <1>1, MainAssumption DEF AllInv, IInv, TypeOK
<1>3. MainProgress' BY <1>1, <1>2 DEF AllInv, AppInv, MainProgress, MainStates, AllSubmitted
<1>4. JobsUse' BY <1>1, UseStays DEF AllInv, AppInv
<1>5. Attributed' BY <1>1, StaysAttributed DEF AllInv, AppInv, privateVars
<1> QED BY <1>3, <1>4, <1>5 DEF AppInv

LEMMA InDestroyKeeps == ASSUME AllInv, InDestroy PROVE AppInv'
<1>1. /\ mainAt = "destroy" /\ DestroyStep(main)
      /\ UNCHANGED <<phase, pc, calls, mainAt, privateVars>>
  BY DEF InDestroy, dbVars
<1>2. /\ RunningSame /\ runs' = runs /\ ret' = ret /\ arg' = arg
      /\ client'[main] \notin {"idle", "add", "notFull"}
  BY <1>1, DestroySteps DEF AllInv, IInv
<1>3. MainProgress' BY <1>1, <1>2 DEF AllInv, AppInv, MainProgress, AllSubmitted
<1>4. JobsUse' BY <1>1, <1>2, UseStays DEF AllInv, AppInv, RunningSame
<1>5. Attributed' BY <1>1, <1>2, StaysAttributed DEF AllInv, AppInv, privateVars
<1> QED BY <1>3, <1>4, <1>5 DEF AppInv

LEMMA DeletePoolsKeeps == ASSUME AllInv, DeletePools PROVE AppInv'
<1>1. /\ mainAt = "destroy" /\ mainAt' = "exit" /\ ThreadPoolGone /\ phase' = "deleted"
      /\ UNCHANGED <<client, ret, arg, worker, runs, pc, calls, privateVars>>
  BY DEF DeletePools, DB!PoolDelete, threadVars, vars
<1>2. MainProgress'
  BY <1>1 DEF AllInv, AppInv, MainProgress, MainStates, AllSubmitted, ThreadPoolGone
<1>3. JobsUse' BY <1>1, UseStays DEF AllInv, AppInv
<1>4. Attributed' BY <1>1, StaysAttributed DEF AllInv, AppInv, privateVars
<1> QED BY <1>2, <1>3, <1>4 DEF AppInv

LEMMA WorkerLoopKeeps == ASSUME AllInv, NEW w \in Workers, WorkerLoop(w) PROVE AppInv'
<1>1. /\ WorkerWait(w) \/ WorkerExit(w) \/ WorkerTake(w)
      /\ UNCHANGED <<phase, pc, calls, mainAt, privateVars>>
  BY DEF WorkerLoop, dbVars
<1> DEFINE stays ==
      /\ \A u \in Workers : worker[u] = "running" => worker'[u] = "running"
      /\ ret' = ret /\ runs' = runs /\ arg' = arg
      /\ client'[main] \in {"add", "notFull"} <=> client[main] \in {"add", "notFull"}
      /\ client'[main] = "idle" <=> client[main] = "idle"
      /\ client[main] = "destroyed" => client'[main] = "destroyed"
<1>2. stays BY <1>1, LoopSteps DEF AllInv, IInv
<1>3. MainProgress' BY <1>1, <1>2, MainStays DEF AllInv, AppInv
<1>4. JobsUse' BY <1>1, <1>2, UseStays DEF AllInv, AppInv
<1>5. Attributed' BY <1>1, <1>2, StaysAttributed DEF AllInv, AppInv, privateVars
<1> QED BY <1>3, <1>4, <1>5 DEF AppInv

(* A step inside GetDBConn.                                                 *)
LEMMA UserGoesOn ==
  ASSUME AllInv, NEW t \in Users, DB!GetStep(t) \/ DB!SpuriousWakeup(t),
         UNCHANGED <<threadVars, mainAt, privateVars>>
  PROVE  AppInv'
<1>1. UNCHANGED <<client, ret, arg, worker, runs>> BY DEF threadVars, vars
<1>2. main \in Users /\ Workers \subseteq Users BY DEF Users
<1>3. phase' = phase /\ calls' = calls /\ \A u \in Users : pc'[u] = "idle" <=> pc[u] = "idle"
  BY GoesOnAsking DEF AllInv, OthersIdleSame
<1>4. MainProgress' BY <1>1, <1>2, <1>3, MainStays DEF AllInv, AppInv
<1>5. JobsUse' BY <1>1, <1>2, <1>3, UseStays DEF AllInv, AppInv
<1>6. Attributed' BY <1>1, <1>2, <1>3, StaysAttributed DEF AllInv, AppInv, privateVars
<1> QED BY <1>4, <1>5, <1>6 DEF AppInv

LEMMA WakeSpuriouslyKeeps == ASSUME AllInv, WakeSpuriously PROVE AppInv'
<1>1. ASSUME SpuriousClient(main) \/ \E w \in Workers : SpuriousWorker(w),
             UNCHANGED <<dbVars, mainAt, privateVars>>
      PROVE  AppInv'
  <2>1. UNCHANGED <<phase, pc, calls, mainAt, privateVars>> BY <1>1 DEF dbVars
  <2>2. /\ RunningSame /\ ret' = ret /\ runs' = runs /\ arg' = arg
        /\ client'[main] \in {"add", "notFull"} <=> client[main] \in {"add", "notFull"}
        /\ client'[main] = "idle" <=> client[main] = "idle"
        /\ client[main] = "destroyed" => client'[main] = "destroyed"
    BY <1>1, AddingOrNot DEF AllInv, IInv
  <2>3. MainProgress' BY <2>1, <2>2, MainStays DEF AllInv, AppInv
  <2>4. JobsUse' BY <2>1, <2>2, UseStays DEF AllInv, AppInv, RunningSame
  <2>5. Attributed' BY <2>1, <2>2, StaysAttributed DEF AllInv, AppInv, privateVars
  <2> QED BY <2>3, <2>4, <2>5 DEF AppInv
<1>2. ASSUME NEW u \in Users, DB!SpuriousWakeup(u), UNCHANGED <<threadVars, mainAt, privateVars>>
      PROVE  AppInv'
  BY <1>2, UserGoesOn
<1> QED BY <1>1, <1>2 DEF WakeSpuriously

LEMMA JobGetKeeps == ASSUME AllInv, NEW w \in Workers, JobGet(w) PROVE AppInv'
  BY UserGoesOn DEF JobGet, Users

LEMMA JobBeginKeeps == ASSUME AllInv, NEW w \in Workers, JobBegin(w) PROVE AppInv'
<1>1. /\ use_pool /\ worker[w] = "running" /\ DB!GetCall(w)
      /\ UNCHANGED <<client, ret, arg, worker, runs, mainAt, privateVars>>
  BY DEF JobBegin, threadVars, vars
<1>2. w \in Users /\ main \in Users \ {w} /\ Workers \subseteq Users
  BY MainAssumption DEF Users
<1>3. phase' = phase /\ \A u \in Users \ {w} : pc'[u] = "idle" <=> pc[u] = "idle"
  BY <1>1, <1>2, AsksForConnection DEF AllInv, OthersIdleSame
<1>4. MainProgress' BY <1>1, <1>2, <1>3, MainStays DEF AllInv, AppInv
<1>5. JobsUse' BY <1>1, <1>2, <1>3 DEF AllInv, AppInv, JobsUse, privateVars
<1>6. Attributed' BY <1>1, AskedIsAttributed DEF AllInv, AppInv, privateVars
<1> QED BY <1>4, <1>5, <1>6 DEF AppInv

LEMMA JobEndKeeps == ASSUME AllInv, NEW w \in Workers, JobEnd(w) PROVE AppInv'
<1>1. DB!RelConn(w) /\ WorkerFinish(w) /\ UNCHANGED <<mainAt, privateVars>> BY DEF JobEnd
<1>2. w \in Users /\ main \in Users \ {w} /\ Workers \subseteq Users
  BY MainAssumption DEF Users
<1>3. /\ pc[w] # "idle" /\ pc'[w] = "idle" /\ phase' = phase /\ calls' = calls
      /\ \A u \in Users \ {w} : pc'[u] = "idle" <=> pc[u] = "idle"
  BY <1>1, <1>2, GivesConnectionBack DEF AllInv, OthersIdleSame
<1>4. /\ \A u \in Workers \ {w} : worker'[u] = worker[u]
      /\ UNCHANGED <<client, ret, arg>>
  BY <1>1, JobEnds DEF AllInv
<1>5. MainProgress' BY <1>1, <1>2, <1>3, <1>4, MainStays DEF AllInv, AppInv
<1>6. JobsUse' BY <1>1, <1>2, <1>3, <1>4 DEF AllInv, AppInv, JobsUse, privateVars
<1>7. Attributed' BY <1>1, <1>2, <1>3, EndIsAttributed DEF AllInv, AppInv, privateVars
<1> QED BY <1>5, <1>6, <1>7 DEF AppInv

LEMMA PrivateInitKeeps == ASSUME AllInv, NEW w \in Workers, PrivateInit(w) PROVE AppInv'
<1>1. /\ ~use_pool /\ worker[w] = "running" /\ private' = private \cup {w}
      /\ UNCHANGED <<client, ret, arg, worker, runs, phase, pc, calls, mainAt, use_pool>>
      /\ privateEnds' = privateEnds
  BY DEF PrivateInit, threadVars, vars, dbVars
<1>2. MainProgress' BY <1>1, MainStays DEF AllInv, AppInv
<1>3. JobsUse' BY <1>1 DEF AllInv, AppInv, JobsUse
<1>4. Attributed' BY <1>1, StaysAttributed DEF AllInv, AppInv
<1> QED BY <1>2, <1>3, <1>4 DEF AppInv

(* A job with a pool of its own ends, whether or not its Init succeeded.    *)
LEMMA PrivateEndKeeps ==
  ASSUME AllInv, NEW w \in Workers, PrivateInitFail(w) \/ PrivateEnd(w)
  PROVE  AppInv'
<1>1. /\ ~use_pool /\ WorkerFinish(w) /\ private' \in {private, private \ {w}} /\ w \notin private'
      /\ privateEnds' = [privateEnds EXCEPT ![w] = @ + 1]
      /\ UNCHANGED <<phase, pc, calls, mainAt, use_pool>>
  BY DEF PrivateInitFail, PrivateEnd, PrivateDelete, dbVars, AllInv, AppInv, JobsUse
<1>2. /\ \A u \in Workers \ {w} : worker'[u] = worker[u]
      /\ UNCHANGED <<client, ret, arg>>
  BY <1>1, JobEnds DEF AllInv
<1>3. /\ privateEnds' \in [Workers -> Nat] /\ privateEnds'[w] = privateEnds[w] + 1
      /\ \A u \in Workers \ {w} : privateEnds'[u] = privateEnds[u]
  BY <1>1 DEF AllInv, AppInv, JobsUse
<1>4. MainProgress' BY <1>1, <1>2, MainStays DEF AllInv, AppInv
<1>5. JobsUse' BY <1>1, <1>2, <1>3 DEF AllInv, AppInv, JobsUse
<1>6. Attributed' BY <1>1, <1>3, EndIsAttributed DEF AllInv, AppInv
<1> QED BY <1>4, <1>5, <1>6 DEF AppInv

-----------------------------------------------------------------------------
(* The program's inductive invariant. *)

LEMMA AppInitEstablishes == AppInit => AllInv
<1> SUFFICES ASSUME AppInit PROVE AllInv OBVIOUS
<1>1. IInv BY InitEstablishesIInv DEF AppInit
<1>2. DBP!IInv BY PoolInvariant DEF AppInit
<1>3. /\ client = [c \in Clients |-> "idle"] /\ ret = [j \in Jobs |-> "none"]
      /\ runs = [j \in Jobs |-> 0] /\ mainAt = "start" /\ phase = "constructed"
      /\ pc = [u \in Users |-> "idle"] /\ calls = [u \in Users |-> 0]
      /\ use_pool \in BOOLEAN /\ private = {} /\ privateEnds = [w \in Workers |-> 0]
  BY DEF AppInit, Init, DB!Init
<1>4. main \in Users /\ Workers \subseteq Users BY DEF Users
<1>5. MainProgress BY <1>3, <1>4 DEF MainProgress, MainStates
<1>6. JobsUse BY <1>3, <1>4 DEF JobsUse
<1>7. Attributed
  <2> DEFINE none == {j \in Jobs : runs[j] = 1}
             doneBy == [j \in none |-> main]
  <2>1. none = {} BY <1>3
  <2>2. doneBy \in [none -> Workers] BY <2>1
  <2>3. \A w \in Workers : DoneBy(doneBy, w) = {} BY <2>1 DEF DoneBy
  <2>4. \A w \in Workers : Asking(w) = 0 /\ calls[w] = 0 /\ privateEnds[w] = 0
    BY <1>3, <1>4 DEF Asking
  <2>5. \A w \in Workers :
          Cardinality(DoneBy(doneBy, w)) + Asking(w) = calls[w] + privateEnds[w]
    BY <2>3, <2>4, FS_EmptySet
  <2> HIDE DEF doneBy
  <2> QED BY <2>2, <2>5 DEF Attributed
<1> QED BY <1>1, <1>2, <1>5, <1>6, <1>7 DEF AllInv, AppInv

LEMMA AppNextKeeps == AllInv /\ [AppNext]_appVars => AllInv'
<1> SUFFICES ASSUME AllInv, [AppNext]_appVars PROVE AllInv' OBVIOUS
<1>1. CASE AppNext
  <2>1. IInv' BY <1>1, StepsOfThreadPool, NextKeepsIInv DEF AllInv
  <2>2. DBP!IInv' BY <1>1, StepsOfConnPool, PoolInvariant DEF AllInv
  <2>3. ASSUME MainStep PROVE AppInv'
    BY <2>3, OpenPoolKeeps, PrepareTableKeeps, CreateThreadsKeeps, SubmitKeeps,
       CallDestroyKeeps, InDestroyKeeps, DeletePoolsKeeps DEF MainStep
  <2>4. ASSUME NEW w \in Workers, WorkerLoop(w) \/ JobStep(w) PROVE AppInv'
    BY <2>4, WorkerLoopKeeps, JobBeginKeeps, JobGetKeeps, JobEndKeeps, PrivateInitKeeps,
       PrivateEndKeeps DEF JobStep
  <2>5. ASSUME WakeSpuriously PROVE AppInv' BY <2>5, WakeSpuriouslyKeeps
  <2>6. ASSUME AppTerminated PROVE AppInv' BY <2>6, NothingKeeps DEF AppTerminated
  <2>7. AppInv' BY <1>1, <2>3, <2>4, <2>5, <2>6 DEF AppNext
  <2> QED BY <2>1, <2>2, <2>7 DEF AllInv
<1>2. CASE UNCHANGED appVars
  <2>1. UNCHANGED vars /\ UNCHANGED dbVars BY <1>2 DEF appVars, threadVars
  <2>2. IInv' BY <2>1, NextKeepsIInv DEF AllInv
  <2>3. DBP!IInv' BY <2>1, PoolInvariant DEF AllInv
  <2> QED BY <1>2, <2>2, <2>3, NothingKeeps DEF AllInv
<1> QED BY <1>1, <1>2

LEMMA AppKeepsAllInv == AppSpec => []AllInv
  BY AppInitEstablishes, AppNextKeeps, PTL DEF AppSpec

-----------------------------------------------------------------------------
(* Main results. *)

(* The program uses the thread pool as ThreadPool's specification expects,  *)
(* so what is proved of every use of the pool holds of this one.            *)
THEOREM UsesThreadPool == AppSpec => Spec
<1>1. AppInit => Init BY DEF AppInit
<1>2. [AppNext]_appVars => [Next]_vars BY StepsOfThreadPool DEF appVars, threadVars
<1> QED BY <1>1, <1>2, PTL DEF AppSpec, Spec

(* When main_ThreadPool destroys the thread pool's mutex, no worker and no  *)
(* call of main is inside the pool.                                         *)
THEOREM MutexOutlivesUsersInApp == AppSpec => []MutexOutlivesUsers
  BY UsesThreadPool, MutexOutlivesUsersHolds, PTL

(* main_ThreadPool uses the connection pool as DBPool's specification       *)
(* expects: it deletes the pool only when no worker is inside GetDBConn or  *)
(* holds a connection, because ThreadPool_Destroy has joined them all.      *)
THEOREM UsesConnPoolHolds == AppSpec => UsesConnPool
<1>1. AppInit => DB!Init BY DEF AppInit
<1>2. AllInv /\ [AppNext]_appVars => [DB!Next]_(DB!vars)
  <2>1. dbVars' = dbVars <=> (DB!vars)' = DB!vars BY DEF dbVars, DB!vars, DB!poolVars
  <2>2. AllInv /\ AppNext => [DB!Next]_dbVars BY StepsOfConnPool DEF AllInv
  <2>3. appVars' = appVars => dbVars' = dbVars BY DEF appVars
  <2> QED BY <2>1, <2>2, <2>3
<1> QED BY <1>1, <1>2, AppKeepsAllInv, PTL DEF AppSpec, UsesConnPool, DB!Spec

(* When main_ThreadPool has deleted the pools, every task AddJob accepted   *)
(* has run exactly once, with one connection of the pool or one pool of its *)
(* own, and every connection of the pool is closed.                         *)
THEOREM TasksServedHolds == AppSpec => []TasksServed
<1>1. AllInv => TasksServed
  <2> SUFFICES ASSUME AllInv, phase = "deleted"
               PROVE  /\ live = {} /\ private = {}
                      /\ \A j \in Jobs : ret[j] \in {"accepted", "refused"}
                      /\ \A j \in Jobs : ret[j] = "accepted" <=> runs[j] = 1
                      /\ OneConnectionPerTask
    BY DEF TasksServed
  <2>1. live = {} BY DEF AllInv, DBP!IInv, DBP!Usage
  <2>2. client[main] = "destroyed" /\ AllSubmitted /\ main \in Clients
    BY MainAssumption DEF AllInv, AppInv, MainProgress, ThreadPoolGone
  <2>3. /\ \A w \in Workers : worker[w] = "exited"
        /\ \A j \in Jobs : ret[j] = "accepted" => runs[j] = 1
    BY <2>2 DEF AllInv, IInv, DrainedBeforeRelease
  <2>4. private = {} /\ \A w \in Workers : pc[w] = "idle"
    BY <2>3 DEF AllInv, AppInv, JobsUse
  <2>5. \A j \in Jobs : ret[j] \in {"accepted", "refused"}
    <3>1. \A j \in Jobs : ret[j] # "none" /\ ret[j] # "calling"
      BY <2>2 DEF AllSubmitted, AllInv, AppInv, MainProgress
    <3> QED BY <3>1 DEF AllInv, IInv, TypeOK
  <2>6. ASSUME NEW j \in Jobs, runs[j] = 1 PROVE ret[j] = "accepted"
    <3>1. j \in Range(taken) BY <2>6 DEF AllInv, IInv, ExactlyOnce
    <3>2. Range(accepted) = Range(taken) \cup Range(m_queue)
      BY RangeConcatenation DEF AllInv, IInv, TypeOK, QueueAccounting
    <3> QED BY <3>1, <3>2 DEF AllInv, IInv, ExactlyOnce
  <2>7. OneConnectionPerTask
    <3>1. PICK doneBy \in [{j \in Jobs : runs[j] = 1} -> Workers] :
            \A w \in Workers :
              Cardinality(DoneBy(doneBy, w)) + Asking(w) = calls[w] + privateEnds[w]
      BY DEF AllInv, AppInv, Attributed
    <3>2. ASSUME NEW w \in Workers
          PROVE  Cardinality(DoneBy(doneBy, w)) = calls[w] + privateEnds[w]
      <4>1. Asking(w) = 0 BY <2>4 DEF Asking
      <4>2. DoneBy(doneBy, w) \in SUBSET Jobs BY DEF DoneBy
      <4>3. Cardinality(DoneBy(doneBy, w)) \in Nat
        BY <4>2, FiniteAssumption, FS_Subset, FS_CardinalityType
      <4> QED BY <3>1, <4>1, <4>3
    <3> QED BY <3>2 DEF OneConnectionPerTask, DoneBy
  <2> QED BY <2>1, <2>3, <2>4, <2>5, <2>6, <2>7
<1> QED BY <1>1, AppKeepsAllInv, PTL
=============================================================================
