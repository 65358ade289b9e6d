-------------------------- MODULE ThreadPoolProofs --------------------------
(***************************************************************************)
(* Proofs about ThreadPool for any sets of workers, clients and jobs and   *)
(* any queue bound.                                                        *)
(***************************************************************************)
EXTENDS ThreadPool, SequenceTheorems, TLAPS

-----------------------------------------------------------------------------
(* The list of jobs: link at the tail, unlink the head.                    *)

(* Nothing is in the list twice. *)
NoRepeats(s) == \A i, k \in DOMAIN s : s[i] = s[k] => i = k

(* What is linked at the tail of a list is in it, besides what was.         *)
LEMMA RangeOfAppend ==
  ASSUME NEW S, NEW s \in Seq(S), NEW e \in S
  PROVE  Range(Append(s, e)) = Range(s) \cup {e}
PROOF
<1>1. /\ Append(s, e) \in Seq(S) /\ Len(Append(s, e)) = Len(s) + 1
      /\ \A i \in 1..Len(s) : Append(s, e)[i] = s[i]
      /\ Append(s, e)[Len(s) + 1] = e
  BY AppendProperties
<1>2. Len(s) \in Nat
  OBVIOUS
<1>3. Range(s) = {s[i] : i \in 1..Len(s)}
  BY DEF Range
<1>4. Range(Append(s, e)) = {Append(s, e)[i] : i \in 1..(Len(s) + 1)}
  BY <1>1 DEF Range
<1> QED
  BY <1>1, <1>2, <1>3, <1>4

(* Appending something new repeats nothing. *)
LEMMA AppendFresh ==
  ASSUME NEW S, NEW s \in Seq(S), NEW e \in S, e \notin Range(s), NoRepeats(s)
  PROVE  NoRepeats(Append(s, e))
  BY AppendProperties, LenProperties, RangeEquality DEF NoRepeats

(* The head moves from one list to the end of another. *)
LEMMA HeadMovesOver ==
  ASSUME NEW S, NEW s \in Seq(S), NEW q \in Seq(S), q # <<>>
  PROVE  Append(s, Head(q)) \o Tail(q) = s \o q
PROOF
<1>1. /\ Head(q) \in S /\ Tail(q) \in Seq(S) /\ Len(Tail(q)) = Len(q) - 1
      /\ \A i \in 1..Len(Tail(q)) : Tail(q)[i] = q[i+1]
      /\ Head(q) = q[1] /\ Len(q) \in Nat \ {0} /\ Len(s) \in Nat
  BY HeadTailProperties, EmptySeq
<1> DEFINE t == Append(s, Head(q)) \o Tail(q)
           u == s \o q
<1>2. /\ Append(s, Head(q)) \in Seq(S) /\ Len(Append(s, Head(q))) = Len(s) + 1
      /\ \A i \in 1..Len(s) : Append(s, Head(q))[i] = s[i]
      /\ Append(s, Head(q))[Len(s) + 1] = Head(q)
  BY <1>1, AppendProperties
<1>3. /\ t \in Seq(S) /\ Len(t) = Len(s) + 1 + Len(Tail(q))
      /\ \A i \in 1..(Len(s) + 1 + Len(Tail(q))) : t[i] =
            IF i <= Len(s) + 1 THEN Append(s, Head(q))[i] ELSE Tail(q)[i - (Len(s) + 1)]
  BY <1>1, <1>2, ConcatProperties
<1>4. /\ u \in Seq(S) /\ Len(u) = Len(s) + Len(q)
      /\ \A i \in 1..(Len(s) + Len(q)) : u[i] =
            IF i <= Len(s) THEN s[i] ELSE q[i - Len(s)]
  BY ConcatProperties
<1>5. \A i \in 1..Len(t) : t[i] = u[i]
  BY <1>1, <1>2, <1>3, <1>4
<1>6. t \in Seq(S) /\ u \in Seq(S) /\ Len(t) = Len(u)
  BY <1>1, <1>3, <1>4
<1> HIDE DEF t, u
<1>7. t = u
  BY <1>5, <1>6, SeqEqual
<1> QED
  BY <1>7 DEF t, u

(* What is appended to a list is appended to the list with a prefix. *)
LEMMA TailGoesOver ==
  ASSUME NEW S, NEW s \in Seq(S), NEW q \in Seq(S), NEW e \in S
  PROVE  s \o Append(q, e) = Append(s \o q, e)
PROOF
<1>1. Append(q, e) = q \o <<e>> /\ Append(s \o q, e) = (s \o q) \o <<e>>
  BY AppendIsConcat, ConcatProperties
<1>2. <<e>> \in Seq(S)
  OBVIOUS
<1> QED
  BY <1>1, <1>2, ConcatAssociative

(* The head of the second list is new to the first. *)
LEMMA HeadIsFresh ==
  ASSUME NEW S, NEW s \in Seq(S), NEW q \in Seq(S), q # <<>>,
         NoRepeats(s \o q)
  PROVE  Head(q) \notin Range(s)
PROOF
<1>1. /\ Len(q) \in Nat \ {0} /\ Len(s) \in Nat /\ Head(q) = q[1]
      /\ s \o q \in Seq(S) /\ Len(s \o q) = Len(s) + Len(q)
  BY EmptySeq, ConcatProperties, LenProperties
<1>2. \A i \in 1..(Len(s) + Len(q)) :
         (s \o q)[i] = IF i <= Len(s) THEN s[i] ELSE q[i - Len(s)]
  BY ConcatProperties
<1>3. DOMAIN (s \o q) = 1..(Len(s) + Len(q))
  BY <1>1
<1>4. SUFFICES ASSUME NEW i \in 1..Len(s), s[i] = Head(q)  PROVE FALSE
  BY RangeEquality
<1>5. (s \o q)[i] = s[i] /\ (s \o q)[Len(s) + 1] = q[1]
  BY <1>1, <1>2
<1>6. i \in DOMAIN (s \o q) /\ Len(s) + 1 \in DOMAIN (s \o q) /\ i # Len(s) + 1
  BY <1>1, <1>3
<1> QED
  BY <1>1, <1>4, <1>5, <1>6 DEF NoRepeats

-----------------------------------------------------------------------------

Adding == {"add", "notFull"}

(* Program counters agree with the pointers the threads hold. *)
HandOver ==
  /\ \A w \in Workers : worker[w] = "running" <=> pjob[w] # NoJob
  /\ \A c \in Clients : client[c] \in Adding =>
       arg[c] \in Jobs /\ ret[arg[c]] = "calling"
  /\ \A c, e \in Clients :
       client[c] \in Adding /\ client[e] \in Adding /\ arg[c] = arg[e] => c = e

(* How far Destroy has come, and what that says of everyone else. *)
CloseOrder ==
  /\ m_PoolIsClose => m_queue = <<>>
  /\ \A w \in Workers : worker[w] = "exited" => m_PoolIsClose
  /\ \A d \in Clients :
       client[d] \in {"wakeWorkers", "wakeAdders", "join", "teardown", "destroyed"}
         => m_PoolIsClose
  /\ ~mutexLive => \E d \in Clients : client[d] = "destroyed"
  /\ \A d \in Clients : client[d] \in DestroyStates \ {"undefined"} => d \in Destroyers
  /\ Orderly => \A c, d \in Clients :
       client[d] \in DestroyStates /\ c # d => client[c] = "idle"

IInv ==
  /\ TypeOK
  /\ QueueAccounting
  /\ HandOver
  /\ ExactlyOnce
  /\ CloseOrder
  /\ NoMissedWakeup
  /\ DrainedBeforeRelease

-----------------------------------------------------------------------------
(* What one critical section of a worker, of AddJob or of Destroy keeps.    *)

LEMMA CountedEmpty ==
  ASSUME TypeOK, QueueAccounting
  PROVE  m_queue = <<>> <=> m_CurQueueJobNum = 0
PROOF
  BY EmptySeq DEF TypeOK, QueueAccounting

(* A step that touches neither the queue nor the record of what has run.    *)
LEMMA QueueUntouched ==
  ASSUME QueueAccounting, ExactlyOnce, UNCHANGED <<queueVars, pjob, ret, runs>>
  PROVE  QueueAccounting' /\ ExactlyOnce'
PROOF
  BY DEF QueueAccounting, ExactlyOnce, queueVars

LEMMA WorkerWaitKeeps ==
  ASSUME IInv, NEW w \in Workers, WorkerWait(w)
  PROVE  IInv'
PROOF
<1>1. TypeOK'
  BY DEF IInv, TypeOK, WorkerStates, ClientStates, WorkerWait, queueVars
<1>2. HandOver'
  BY DEF IInv, HandOver, TypeOK, Adding, WorkerWait, queueVars
<1>3. CloseOrder'
  BY DEF IInv, CloseOrder, TypeOK, DestroyStates, ClientStates, WorkerWait,
         queueVars
<1>4. NoMissedWakeup'
  BY CountedEmpty DEF IInv, NoMissedWakeup, TypeOK, QueueAccounting, CloseOrder,
         BroadcastPending, SoleDestroyer, DestroyStates, ClientStates, WorkerWait,
         queueVars
<1>5. DrainedBeforeRelease'
  BY DEF IInv, DrainedBeforeRelease, TypeOK, HandOver, ExactlyOnce, CloseOrder,
         DestroyStates, ClientStates, WorkerWait, queueVars
<1>6. QueueAccounting' /\ ExactlyOnce'
  BY QueueUntouched DEF IInv, WorkerWait
<1> QED
  BY <1>1, <1>2, <1>3, <1>4, <1>5, <1>6 DEF IInv

LEMMA WorkerExitKeeps ==
  ASSUME IInv, NEW w \in Workers, WorkerExit(w)
  PROVE  IInv'
PROOF
<1>1. TypeOK'
  BY DEF IInv, TypeOK, WorkerStates, ClientStates, WorkerExit, queueVars
<1>2. HandOver'
  BY DEF IInv, HandOver, TypeOK, Adding, WorkerExit, queueVars
<1>3. CloseOrder'
  BY DEF IInv, CloseOrder, TypeOK, DestroyStates, ClientStates, WorkerExit,
         queueVars
<1>4. NoMissedWakeup'
  BY DEF IInv, NoMissedWakeup, TypeOK, QueueAccounting, CloseOrder,
         BroadcastPending, SoleDestroyer, DestroyStates, ClientStates, WorkerExit,
         queueVars
<1>5. DrainedBeforeRelease'
  BY DEF IInv, DrainedBeforeRelease, TypeOK, HandOver, ExactlyOnce, CloseOrder,
         DestroyStates, ClientStates, WorkerExit, queueVars
<1>6. QueueAccounting' /\ ExactlyOnce'
  BY QueueUntouched DEF IInv, WorkerExit
<1> QED
  BY <1>1, <1>2, <1>3, <1>4, <1>5, <1>6 DEF IInv

LEMMA WorkerTakeKeeps ==
  ASSUME IInv, NEW w \in Workers, WorkerTake(w)
  PROVE  IInv'
PROOF
<1> DEFINE h == Head(m_queue)
<1>1. /\ m_queue \in Seq(Jobs) /\ m_queue # <<>> /\ taken \in Seq(Jobs)
      /\ h \in Jobs /\ Tail(m_queue) \in Seq(Jobs)
      /\ Len(Tail(m_queue)) = Len(m_queue) - 1 /\ Len(m_queue) \in Nat \ {0}
  BY CountedEmpty, HeadTailProperties, EmptySeq DEF IInv, TypeOK, WorkerTake
<1>2. /\ m_queue' = Tail(m_queue)
      /\ m_CurQueueJobNum' = m_CurQueueJobNum - 1
      /\ m_CurQueueJobNum \in 1..QueueMaxNum
      /\ taken' = Append(taken, h) /\ accepted' = accepted
      /\ pjob' = [pjob EXCEPT ![w] = h] /\ pjob[w] = NoJob /\ h # NoJob
      /\ worker' = [worker EXCEPT ![w] = "running"] /\ worker[w] = "ready"
  <2>1. m_CurQueueJobNum' = 0 => Tail(m_queue) = <<>>
    BY <1>1, EmptySeq DEF IInv, QueueAccounting, WorkerTake
  <2> QED
    BY <1>1, <2>1, JobAssumption, QueueAssumption
       DEF IInv, TypeOK, QueueAccounting, HandOver, WorkerTake, Unlinked
<1>3. /\ taken' \in Seq(Jobs) /\ Range(taken') = Range(taken) \cup {h}
      /\ accepted = taken \o m_queue /\ taken' \o m_queue' = accepted
  BY <1>1, <1>2, RangeOfAppend, HeadMovesOver, AppendProperties DEF
     IInv, QueueAccounting
<1>4. h \notin Range(taken) /\ h \in Range(accepted)
  <2>1. h \notin Range(taken)
    BY <1>1, <1>3, HeadIsFresh DEF IInv, ExactlyOnce, NoRepeats
  <2>2. Range(accepted) = Range(taken') \cup Range(m_queue')
    BY <1>1, <1>2, <1>3, RangeConcatenation
  <2> QED
    BY <2>1, <2>2, <1>3
<1>5. PICK signalled \in IF m_CurQueueJobNum' = 0 THEN SignalQueueEmpty ELSE {{}} :
        client' = [c \in Clients |->
          IF c \in signalled THEN "recheck"
          ELSE (IF StopsBeingFull(m_CurQueueJobNum') THEN WokenAdders ELSE client)[c]]
  BY DEF WorkerTake
<1>6. \A c \in Clients :
        \/ client'[c] = client[c]
        \/ client[c] = "queueEmpty" /\ client'[c] = "recheck"
        \/ client[c] = "notFull" /\ client'[c] = "add"
  BY <1>5 DEF SignalQueueEmpty, WokenAdders
<1>7. /\ m_CurQueueJobNum' = QueueMaxNum - 1 =>
           \A c \in Clients : client'[c] # "notFull"
      /\ m_CurQueueJobNum' = 0 =>
           \A c \in Clients :
             client'[c] = "queueEmpty" =>
               \E e \in Clients : e # c /\ client[e] = "queueEmpty"
  <2>1. m_CurQueueJobNum' = QueueMaxNum - 1 =>
           \A c \in Clients : client'[c] # "notFull"
    BY <1>5 DEF StopsBeingFull, WokenAdders
  <2>2. ASSUME m_CurQueueJobNum' = 0, NEW c \in Clients, client'[c] = "queueEmpty"
        PROVE  \E e \in Clients : e # c /\ client[e] = "queueEmpty"
    <3>1. client[c] = "queueEmpty" /\ c \notin signalled
      BY <1>5, <1>6, <2>2
    <3>2. signalled \in {{d} : d \in {d \in Clients : client[d] = "queueEmpty"}}
      BY <1>5, <2>2, <3>1 DEF SignalQueueEmpty
    <3> QED
      BY <3>1, <3>2
  <2> QED
    BY <2>1, <2>2
<1> HIDE DEF h
<1>8. TypeOK'
  <2>1. client' \in [Clients -> ClientStates]
    BY <1>5, <1>6 DEF IInv, TypeOK, ClientStates
  <2>2. /\ m_queue' \in Seq(Jobs) /\ taken' \in Seq(Jobs) /\ accepted' \in Seq(Jobs)
        /\ m_CurQueueJobNum' \in 0..QueueMaxNum
        /\ pjob' \in [Workers -> Jobs \cup {NoJob}]
        /\ worker' \in [Workers -> WorkerStates]
    BY <1>1, <1>2, <1>3, QueueAssumption DEF IInv, TypeOK, WorkerStates
  <2> QED
    BY <2>1, <2>2 DEF IInv, TypeOK, WorkerTake
<1>9. QueueAccounting'
  <2>1. accepted' = taken' \o m_queue'
    BY <1>2, <1>3
  <2>2. m_CurQueueJobNum' = Len(m_queue')
    BY <1>1, <1>2 DEF IInv, QueueAccounting
  <2>3. m_CurQueueJobNum' <= QueueMaxNum
    BY <1>2, QueueAssumption
  <2> QED
    BY <2>1, <2>2, <2>3 DEF QueueAccounting
<1>10. HandOver'
  BY <1>2, <1>6 DEF IInv, TypeOK, HandOver, Adding, WorkerTake
<1>11. ExactlyOnce'
  <2>1. \A v \in Workers : pjob'[v] = IF v = w THEN h ELSE pjob[v]
    BY <1>2 DEF IInv, TypeOK
  <2>2. \A v \in Workers : pjob[v] # h
    BY <1>2, <1>4 DEF IInv, ExactlyOnce
  <2>3. /\ \A v \in Workers : pjob'[v] # NoJob => pjob'[v] \in Range(taken')
        /\ \A u, v \in Workers : pjob'[u] = pjob'[v] /\ pjob'[u] # NoJob => u = v
    BY <1>3, <2>1, <2>2 DEF IInv, ExactlyOnce
  <2>4. ASSUME NEW j \in Jobs
        PROVE  runs[j] = IF j \in Range(taken') /\ \A v \in Workers : pjob'[v] # j
                         THEN 1 ELSE 0
    <3>1. CASE j = h
      BY <1>4, <2>1, <3>1 DEF IInv, ExactlyOnce
    <3>2. CASE j # h
      BY <1>2, <1>3, <2>1, <3>2, JobAssumption DEF IInv, ExactlyOnce
    <3> QED
      BY <3>1, <3>2
  <2> QED
    BY <1>2, <2>3, <2>4 DEF IInv, ExactlyOnce, WorkerTake
<1>12. CloseOrder'
  BY <1>2, <1>6 DEF IInv, TypeOK, CloseOrder, DestroyStates, ClientStates,
         WorkerTake
<1>13. NoMissedWakeup'
  <2>1. ~m_PoolIsClose /\ ~m_PoolIsClose'
    BY DEF WorkerTake
  <2>2. \A v \in Workers : worker'[v] # "notEmpty"
    BY <1>1, <1>2 DEF IInv, TypeOK, NoMissedWakeup
  <2>3. ASSUME NEW c \in Clients, client'[c] = "notFull"
        PROVE  FALSE
    <3>1. client[c] = "notFull" /\ Len(m_queue) = QueueMaxNum
      BY <1>6, <2>1, <2>3 DEF IInv, NoMissedWakeup, BroadcastPending
    <3>2. m_CurQueueJobNum' = QueueMaxNum - 1
      BY <1>2, <3>1 DEF IInv, QueueAccounting
    <3> QED
      BY <1>7, <2>3, <3>2
  <2>4. ASSUME SoleDestroyer, NEW d \in Clients, client'[d] = "queueEmpty"
        PROVE  m_queue' # <<>>
    <3>1. client[d] = "queueEmpty" /\ \A e \in Clients : client[e] = "queueEmpty" => e = d
      BY <1>6, <2>4 DEF IInv, CloseOrder, DestroyStates, ClientStates, SoleDestroyer
    <3>2. m_CurQueueJobNum' # 0
      BY <1>7, <2>4, <3>1
    <3>3. m_CurQueueJobNum' = Len(m_queue')
      BY <1>9 DEF QueueAccounting
    <3> QED
      BY <3>2, <3>3, EmptySeq
  <2> QED
    BY <2>2, <2>3, <2>4 DEF NoMissedWakeup, SoleDestroyer
<1>14. DrainedBeforeRelease'
  BY <1>2, <1>6 DEF IInv, DrainedBeforeRelease, CloseOrder, WorkerTake
<1> QED
  BY <1>8, <1>9, <1>10, <1>11, <1>12, <1>13, <1>14 DEF IInv

LEMMA WorkerFinishKeeps ==
  ASSUME IInv, NEW w \in Workers, WorkerFinish(w)
  PROVE  IInv'
PROOF
<1>1. TypeOK'
  BY ClientAssumption, JobAssumption, ModeAssumption DEF
     IInv, TypeOK, WorkerStates, ClientStates, WorkerFinish, queueVars, HandOver
<1>2. HandOver'
  BY ClientAssumption, JobAssumption, ModeAssumption DEF
     IInv, HandOver, TypeOK, Adding, WorkerFinish, queueVars
<1>3. CloseOrder'
  BY ClientAssumption, JobAssumption, ModeAssumption DEF
     IInv, CloseOrder, TypeOK, DestroyStates, ClientStates, WorkerFinish, queueVars
<1>4. NoMissedWakeup'
  BY ClientAssumption, JobAssumption, ModeAssumption DEF
     IInv, NoMissedWakeup, TypeOK, QueueAccounting, CloseOrder, BroadcastPending,
         SoleDestroyer, DestroyStates, ClientStates, WorkerFinish, queueVars
<1>5. DrainedBeforeRelease'
  BY DEF IInv, DrainedBeforeRelease, TypeOK, HandOver, ExactlyOnce, CloseOrder,
         DestroyStates, ClientStates, WorkerFinish, queueVars
<1>6. QueueAccounting' /\ ExactlyOnce'
  BY JobAssumption DEF IInv, TypeOK, QueueAccounting, HandOver, ExactlyOnce,
         WorkerFinish, queueVars
<1> QED
  BY <1>1, <1>2, <1>3, <1>4, <1>5, <1>6 DEF IInv

LEMMA AddJobCallKeeps ==
  ASSUME IInv, NEW c \in Clients, NEW j \in Jobs, AddJobCall(c, j)
  PROVE  IInv'
PROOF
<1>1. TypeOK'
  BY DEF IInv, TypeOK, WorkerStates, ClientStates, AddJobCall, queueVars
<1>2. HandOver'
  BY DEF IInv, HandOver, TypeOK, Adding, AddJobCall, queueVars
<1>3. CloseOrder'
  BY DEF IInv, CloseOrder, TypeOK, DestroyStates, ClientStates, AddJobCall,
         queueVars
<1>4. NoMissedWakeup'
  BY DEF IInv, NoMissedWakeup, TypeOK, QueueAccounting, CloseOrder,
         BroadcastPending, SoleDestroyer, DestroyStates, ClientStates, AddJobCall,
         queueVars
<1>5. DrainedBeforeRelease'
  BY DEF IInv, DrainedBeforeRelease, TypeOK, HandOver, ExactlyOnce, CloseOrder,
         DestroyStates, ClientStates, AddJobCall, queueVars
<1>6. QueueAccounting' /\ ExactlyOnce'
  BY DEF IInv, TypeOK, QueueAccounting, ExactlyOnce, AddJobCall, queueVars
<1> QED
  BY <1>1, <1>2, <1>3, <1>4, <1>5, <1>6 DEF IInv

LEMMA AddWaitKeeps ==
  ASSUME IInv, NEW c \in Clients, AddWait(c)
  PROVE  IInv'
PROOF
<1>1. TypeOK'
  BY DEF IInv, TypeOK, WorkerStates, ClientStates, AddWait, queueVars, QueueFull
<1>2. HandOver'
  BY DEF IInv, HandOver, TypeOK, Adding, AddWait, queueVars, QueueFull
<1>3. CloseOrder'
  BY DEF IInv, CloseOrder, TypeOK, DestroyStates, ClientStates, AddWait, queueVars,
         QueueFull
<1>4. NoMissedWakeup'
  BY DEF IInv, NoMissedWakeup, TypeOK, QueueAccounting, CloseOrder,
         BroadcastPending, SoleDestroyer, DestroyStates, ClientStates, AddWait,
         queueVars, QueueFull
<1>5. DrainedBeforeRelease'
  BY DEF IInv, DrainedBeforeRelease, TypeOK, HandOver, ExactlyOnce, CloseOrder,
         DestroyStates, ClientStates, AddWait, queueVars, QueueFull
<1>6. QueueAccounting' /\ ExactlyOnce'
  BY QueueUntouched DEF IInv, AddWait
<1> QED
  BY <1>1, <1>2, <1>3, <1>4, <1>5, <1>6 DEF IInv

LEMMA AddRefuseKeeps ==
  ASSUME IInv, NEW c \in Clients, AddRefuse(c)
  PROVE  IInv'
PROOF
<1>1. TypeOK'
  BY DEF IInv, TypeOK, WorkerStates, ClientStates, AddRefuse, queueVars,
         AddJobReturn, QueueFull
<1>2. HandOver'
  BY DEF IInv, HandOver, TypeOK, Adding, AddRefuse, queueVars, AddJobReturn,
         QueueFull
<1>3. CloseOrder'
  BY DEF IInv, CloseOrder, TypeOK, DestroyStates, ClientStates, AddRefuse,
         queueVars, AddJobReturn, QueueFull
<1>4. NoMissedWakeup'
  BY DEF IInv, NoMissedWakeup, TypeOK, QueueAccounting, CloseOrder,
         BroadcastPending, SoleDestroyer, DestroyStates, ClientStates, AddRefuse,
         queueVars, AddJobReturn, QueueFull
<1>5. DrainedBeforeRelease'
  BY DEF IInv, DrainedBeforeRelease, TypeOK, HandOver, ExactlyOnce, CloseOrder,
         DestroyStates, ClientStates, AddRefuse, queueVars, AddJobReturn, QueueFull
<1>6. QueueAccounting' /\ ExactlyOnce'
  BY DEF IInv, TypeOK, QueueAccounting, HandOver, Adding, ExactlyOnce, AddRefuse,
         AddJobReturn, queueVars
<1> QED
  BY <1>1, <1>2, <1>3, <1>4, <1>5, <1>6 DEF IInv

LEMMA AddEnqueueKeeps ==
  ASSUME IInv, NEW c \in Clients, AddEnqueue(c)
  PROVE  IInv'
PROOF
<1> DEFINE j == arg[c]
<1>1. /\ m_queue \in Seq(Jobs) /\ taken \in Seq(Jobs) /\ accepted \in Seq(Jobs)
      /\ j \in Jobs /\ ret[j] = "calling" /\ j \notin Range(accepted)
  BY DEF IInv, TypeOK, HandOver, Adding, ExactlyOnce, AddEnqueue
<1>2. /\ m_queue' = Append(m_queue, j) /\ accepted' = Append(accepted, j)
      /\ taken' = taken /\ pjob' = pjob /\ runs' = runs
      /\ m_CurQueueJobNum' = m_CurQueueJobNum + 1
      /\ m_CurQueueJobNum \in 0..(QueueMaxNum - 1)
      /\ client' = [client EXCEPT ![c] = "idle"]
      /\ arg' = [arg EXCEPT ![c] = NoJob] /\ ret' = [ret EXCEPT ![j] = "accepted"]
  BY QueueAssumption DEF IInv, TypeOK, AddEnqueue, AddJobReturn, QueueFull, Linked
<1>3. /\ m_queue' \in Seq(Jobs) /\ Len(m_queue') = Len(m_queue) + 1
      /\ accepted' \in Seq(Jobs) /\ Range(accepted') = Range(accepted) \cup {j}
      /\ m_queue' # <<>> /\ Len(m_queue) \in Nat
  <2>1. m_queue' \in Seq(Jobs) /\ Len(m_queue') = Len(m_queue) + 1
    BY <1>1, <1>2, AppendProperties
  <2>2. Len(m_queue) \in Nat /\ m_queue' # <<>>
    BY <1>1, <2>1, LenProperties, EmptySeq
  <2>3. accepted' \in Seq(Jobs) /\ Range(accepted') = Range(accepted) \cup {j}
    BY <1>1, <1>2, AppendProperties, RangeOfAppend
  <2> QED
    BY <2>1, <2>2, <2>3
<1>4. /\ worker' \in [Workers -> WorkerStates]
      /\ \A w \in Workers :
           \/ worker'[w] = worker[w]
           \/ worker[w] = "notEmpty" /\ worker'[w] = "ready"
      /\ m_queue = <<>> => \A w \in Workers : worker'[w] # "notEmpty"
  BY DEF IInv, TypeOK, WorkerStates, AddEnqueue, WokenWorkers
<1> HIDE DEF j
<1>5. TypeOK'
  BY <1>1, <1>2, <1>3, <1>4, QueueAssumption DEF
     IInv, TypeOK, ClientStates, AddEnqueue
<1>6. QueueAccounting'
  <2>1. accepted' = taken' \o m_queue'
    <3>1. taken \o Append(m_queue, j) = Append(taken \o m_queue, j)
      BY <1>1, TailGoesOver
    <3> QED
      BY <1>2, <3>1 DEF IInv, QueueAccounting
  <2> QED
    BY <1>2, <1>3, <2>1, QueueAssumption DEF IInv, QueueAccounting
<1>7. HandOver'
  <2>1. \A w \in Workers : worker'[w] = "running" <=> worker[w] = "running"
    BY <1>4
  <2>2. \A e \in Clients :
          client'[e] \in Adding => e # c /\ client[e] \in Adding /\ arg'[e] = arg[e]
    BY <1>2 DEF IInv, TypeOK, Adding
  <2>3. \A e \in Clients : client'[e] \in Adding => arg[e] # j
    BY <2>2 DEF IInv, HandOver, AddEnqueue, Adding, j
  <2>4. \A e \in Clients : client'[e] \in Adding => ret'[arg'[e]] = "calling"
    BY <1>2, <2>2, <2>3 DEF IInv, TypeOK, HandOver
  <2> QED
    BY <1>2, <2>1, <2>2, <2>4 DEF IInv, HandOver
<1>8. ExactlyOnce'
  <2>1. \A i, k \in DOMAIN accepted' : accepted'[i] = accepted'[k] => i = k
    <3>1. NoRepeats(accepted)
      BY DEF IInv, ExactlyOnce, NoRepeats
    <3>2. NoRepeats(Append(accepted, j))
      BY <1>1, <3>1, AppendFresh
    <3> QED
      BY <1>2, <3>2 DEF NoRepeats
  <2> QED
    BY <1>1, <1>2, <1>3, <2>1 DEF IInv, TypeOK, ExactlyOnce
<1>9. CloseOrder'
  BY <1>2, <1>4 DEF IInv, TypeOK, CloseOrder, DestroyStates, ClientStates,
         AddEnqueue
<1>10. NoMissedWakeup'
  BY <1>2, <1>3, <1>4
     DEF IInv, TypeOK, NoMissedWakeup, QueueAccounting, CloseOrder, BroadcastPending,
         SoleDestroyer, DestroyStates, AddEnqueue
<1>11. DrainedBeforeRelease'
  BY <1>2, <1>4 DEF IInv, TypeOK, DrainedBeforeRelease, CloseOrder, AddEnqueue
<1> QED
  BY <1>5, <1>6, <1>7, <1>8, <1>9, <1>10, <1>11 DEF IInv

LEMMA DestroyCallKeeps ==
  ASSUME IInv, NEW d \in Destroyers, DestroyCall(d)
  PROVE  IInv'
PROOF
<1>1. TypeOK'
  BY DEF IInv, TypeOK, WorkerStates, ClientStates, DestroyCall, queueVars
<1>2. HandOver'
  BY DEF IInv, HandOver, TypeOK, Adding, DestroyCall, queueVars
<1>3. CloseOrder'
  BY DEF IInv, CloseOrder, TypeOK, DestroyStates, ClientStates, DestroyCall,
         queueVars
<1>4. NoMissedWakeup'
  BY DEF IInv, NoMissedWakeup, TypeOK, QueueAccounting, CloseOrder,
         BroadcastPending, SoleDestroyer, DestroyStates, ClientStates, DestroyCall,
         queueVars
<1>5. DrainedBeforeRelease'
  BY DEF IInv, DrainedBeforeRelease, TypeOK, HandOver, ExactlyOnce, CloseOrder,
         DestroyStates, ClientStates, DestroyCall, queueVars
<1>6. QueueAccounting' /\ ExactlyOnce'
  BY QueueUntouched DEF IInv, DestroyCall
<1> QED
  BY <1>1, <1>2, <1>3, <1>4, <1>5, <1>6 DEF IInv

LEMMA DestroyAlreadyClosedKeeps ==
  ASSUME IInv, NEW d \in Destroyers, DestroyAlreadyClosed(d)
  PROVE  IInv'
PROOF
<1>1. TypeOK'
  BY DEF IInv, TypeOK, WorkerStates, ClientStates, DestroyAlreadyClosed, queueVars
<1>2. HandOver'
  BY DEF IInv, HandOver, TypeOK, Adding, DestroyAlreadyClosed, queueVars
<1>3. CloseOrder'
  BY DEF IInv, CloseOrder, TypeOK, DestroyStates, ClientStates,
         DestroyAlreadyClosed, queueVars
<1>4. NoMissedWakeup'
  BY DEF IInv, NoMissedWakeup, TypeOK, QueueAccounting, CloseOrder,
         BroadcastPending, SoleDestroyer, DestroyStates, ClientStates,
         DestroyAlreadyClosed, queueVars
<1>5. DrainedBeforeRelease'
  BY DEF IInv, DrainedBeforeRelease, TypeOK, HandOver, ExactlyOnce, CloseOrder,
         DestroyStates, ClientStates, DestroyAlreadyClosed, queueVars
<1>6. QueueAccounting' /\ ExactlyOnce'
  BY QueueUntouched DEF IInv, DestroyAlreadyClosed
<1> QED
  BY <1>1, <1>2, <1>3, <1>4, <1>5, <1>6 DEF IInv

LEMMA DestroyWaitKeeps ==
  ASSUME IInv, NEW d \in Destroyers, DestroyWait(d)
  PROVE  IInv'
PROOF
<1>1. TypeOK'
  BY DEF IInv, TypeOK, WorkerStates, ClientStates, DestroyWait, queueVars,
         AtEmptyTest, Drained
<1>2. HandOver'
  BY DEF IInv, HandOver, TypeOK, Adding, DestroyWait, queueVars, AtEmptyTest,
         Drained
<1>3. CloseOrder'
  BY DEF IInv, CloseOrder, TypeOK, DestroyStates, ClientStates, DestroyWait,
         queueVars, AtEmptyTest, Drained
<1>4. NoMissedWakeup'
  BY CountedEmpty DEF IInv, NoMissedWakeup, TypeOK, QueueAccounting, CloseOrder,
         BroadcastPending, SoleDestroyer, DestroyStates, ClientStates, DestroyWait,
         queueVars, AtEmptyTest, Drained
<1>5. DrainedBeforeRelease'
  BY DEF IInv, DrainedBeforeRelease, TypeOK, HandOver, ExactlyOnce, CloseOrder,
         DestroyStates, ClientStates, DestroyWait, queueVars, AtEmptyTest, Drained
<1>6. QueueAccounting' /\ ExactlyOnce'
  BY QueueUntouched DEF IInv, DestroyWait
<1> QED
  BY <1>1, <1>2, <1>3, <1>4, <1>5, <1>6 DEF IInv

LEMMA DestroyCloseKeeps ==
  ASSUME IInv, NEW d \in Destroyers, DestroyClose(d)
  PROVE  IInv'
PROOF
<1>1. TypeOK'
  BY DEF IInv, TypeOK, WorkerStates, ClientStates, DestroyClose, queueVars,
         AtEmptyTest, Drained
<1>2. HandOver'
  BY DEF IInv, HandOver, TypeOK, Adding, DestroyClose, queueVars, AtEmptyTest,
         Drained
<1>3. CloseOrder'
  BY CountedEmpty DEF IInv, CloseOrder, TypeOK, DestroyStates, ClientStates,
         DestroyClose, queueVars, AtEmptyTest, Drained
<1>4. NoMissedWakeup'
  BY ClientAssumption DEF IInv, NoMissedWakeup, TypeOK, QueueAccounting,
         CloseOrder, BroadcastPending, SoleDestroyer, DestroyStates, ClientStates,
         DestroyClose, queueVars, AtEmptyTest, Drained
<1>5. DrainedBeforeRelease'
  BY ClientAssumption DEF IInv, DrainedBeforeRelease, TypeOK, HandOver,
         ExactlyOnce, CloseOrder, DestroyStates, ClientStates, DestroyClose,
         queueVars, AtEmptyTest, Drained
<1>6. QueueAccounting' /\ ExactlyOnce'
  BY DEF IInv, QueueAccounting, ExactlyOnce, DestroyClose
<1> QED
  BY <1>1, <1>2, <1>3, <1>4, <1>5, <1>6 DEF IInv

LEMMA DestroyWakeWorkersKeeps ==
  ASSUME IInv, NEW d \in Destroyers, DestroyWakeWorkers(d)
  PROVE  IInv'
PROOF
<1>1. TypeOK'
  BY DEF IInv, TypeOK, WorkerStates, ClientStates, DestroyWakeWorkers, queueVars,
         WokenWorkers
<1>2. HandOver'
  BY DEF IInv, HandOver, TypeOK, Adding, DestroyWakeWorkers, queueVars, WokenWorkers
<1>3. CloseOrder'
  BY DEF IInv, CloseOrder, TypeOK, DestroyStates, ClientStates, DestroyWakeWorkers,
         queueVars, WokenWorkers
<1>4. NoMissedWakeup'
  BY DEF IInv, NoMissedWakeup, TypeOK, QueueAccounting, CloseOrder,
         BroadcastPending, SoleDestroyer, DestroyStates, ClientStates,
         DestroyWakeWorkers, queueVars, WokenWorkers
<1>5. DrainedBeforeRelease'
  BY DEF IInv, DrainedBeforeRelease, TypeOK, HandOver, ExactlyOnce, CloseOrder,
         DestroyStates, ClientStates, DestroyWakeWorkers, queueVars, WokenWorkers
<1>6. QueueAccounting' /\ ExactlyOnce'
  BY QueueUntouched DEF IInv, DestroyWakeWorkers
<1> QED
  BY <1>1, <1>2, <1>3, <1>4, <1>5, <1>6 DEF IInv

LEMMA DestroyWakeAddersKeeps ==
  ASSUME IInv, NEW d \in Destroyers, DestroyWakeAdders(d)
  PROVE  IInv'
PROOF
<1>1. TypeOK'
  BY DEF IInv, TypeOK, WorkerStates, ClientStates, DestroyWakeAdders, queueVars,
         WokenAdders
<1>2. HandOver'
  BY DEF IInv, HandOver, TypeOK, Adding, DestroyWakeAdders, queueVars, WokenAdders
<1>3. CloseOrder'
  BY ModeAssumption DEF IInv, CloseOrder, TypeOK, DestroyStates, ClientStates,
         DestroyWakeAdders, queueVars, WokenAdders
<1>4. NoMissedWakeup'
  BY ModeAssumption DEF IInv, NoMissedWakeup, TypeOK, QueueAccounting, CloseOrder,
         BroadcastPending, SoleDestroyer, DestroyStates, ClientStates,
         DestroyWakeAdders, queueVars, WokenAdders
<1>5. DrainedBeforeRelease'
  BY DEF IInv, DrainedBeforeRelease, TypeOK, HandOver, ExactlyOnce, CloseOrder,
         DestroyStates, ClientStates, DestroyWakeAdders, queueVars, WokenAdders
<1>6. QueueAccounting' /\ ExactlyOnce'
  BY QueueUntouched DEF IInv, DestroyWakeAdders
<1> QED
  BY <1>1, <1>2, <1>3, <1>4, <1>5, <1>6 DEF IInv

LEMMA DestroyJoinKeeps ==
  ASSUME IInv, NEW d \in Destroyers, DestroyJoin(d)
  PROVE  IInv'
PROOF
<1>1. TypeOK'
  BY DEF IInv, TypeOK, WorkerStates, ClientStates, DestroyJoin, queueVars, AllJoined
<1>2. HandOver'
  BY DEF IInv, HandOver, TypeOK, Adding, DestroyJoin, queueVars, AllJoined
<1>3. CloseOrder'
  BY DEF IInv, CloseOrder, TypeOK, DestroyStates, ClientStates, DestroyJoin,
         queueVars, AllJoined
<1>4. NoMissedWakeup'
  BY DEF IInv, NoMissedWakeup, TypeOK, QueueAccounting, CloseOrder,
         BroadcastPending, SoleDestroyer, DestroyStates, ClientStates, DestroyJoin,
         queueVars, AllJoined
<1>5. DrainedBeforeRelease'
  <2>1. accepted = taken
    BY ClientAssumption, ConcatEmptySeq DEF IInv, TypeOK, QueueAccounting,
           CloseOrder, DestroyJoin
  <2>2. \A w \in Workers : worker[w] = "exited" /\ pjob[w] = NoJob
    BY DEF IInv, TypeOK, HandOver, DestroyJoin, AllJoined
  <2>3. \A j \in Jobs : ret[j] = "accepted" => runs[j] = 1
    BY <2>1, <2>2, JobAssumption DEF IInv, ExactlyOnce
  <2> QED
    BY <2>2, <2>3 DEF DrainedBeforeRelease, DestroyJoin
<1>6. QueueAccounting' /\ ExactlyOnce'
  BY QueueUntouched DEF IInv, DestroyJoin
<1> QED
  BY <1>1, <1>2, <1>3, <1>4, <1>5, <1>6 DEF IInv

LEMMA DestroyJoinUndefinedKeeps ==
  ASSUME IInv, NEW d \in Destroyers, DestroyJoinUndefined(d)
  PROVE  IInv'
PROOF
<1>1. TypeOK'
  BY DEF IInv, TypeOK, WorkerStates, ClientStates, DestroyJoinUndefined, queueVars,
         AlreadyJoined
<1>2. HandOver'
  BY DEF IInv, HandOver, TypeOK, Adding, DestroyJoinUndefined, queueVars,
         AlreadyJoined
<1>3. CloseOrder'
  BY DEF IInv, CloseOrder, TypeOK, DestroyStates, ClientStates,
         DestroyJoinUndefined, queueVars, AlreadyJoined
<1>4. NoMissedWakeup'
  BY DEF IInv, NoMissedWakeup, TypeOK, QueueAccounting, CloseOrder,
         BroadcastPending, SoleDestroyer, DestroyStates, ClientStates,
         DestroyJoinUndefined, queueVars, AlreadyJoined
<1>5. DrainedBeforeRelease'
  BY DEF IInv, DrainedBeforeRelease, TypeOK, HandOver, ExactlyOnce, CloseOrder,
         DestroyStates, ClientStates, DestroyJoinUndefined, queueVars,
         AlreadyJoined
<1>6. QueueAccounting' /\ ExactlyOnce'
  BY QueueUntouched DEF IInv, DestroyJoinUndefined
<1> QED
  BY <1>1, <1>2, <1>3, <1>4, <1>5, <1>6 DEF IInv

LEMMA DestroyTeardownKeeps ==
  ASSUME IInv, NEW d \in Destroyers, DestroyTeardown(d)
  PROVE  IInv'
PROOF
<1>1. m_queue' = m_queue /\ m_PoolIsClose
  BY ClientAssumption DEF IInv, CloseOrder, DestroyTeardown
<1>2. TypeOK'
  BY <1>1 DEF IInv, TypeOK, WorkerStates, ClientStates, DestroyTeardown, queueVars
<1>3. HandOver'
  BY <1>1 DEF IInv, HandOver, TypeOK, Adding, DestroyTeardown, queueVars
<1>4. CloseOrder'
  BY <1>1, ClientAssumption DEF IInv, CloseOrder, TypeOK, DestroyStates,
         ClientStates, DestroyTeardown, queueVars
<1>5. NoMissedWakeup'
  BY <1>1, ClientAssumption DEF IInv, NoMissedWakeup, TypeOK, QueueAccounting,
         CloseOrder, BroadcastPending, SoleDestroyer, DestroyStates, ClientStates,
         DestroyTeardown, queueVars
<1>6. DrainedBeforeRelease'
  BY <1>1 DEF IInv, DrainedBeforeRelease, TypeOK, HandOver, ExactlyOnce,
         CloseOrder, DestroyStates, ClientStates, DestroyTeardown, queueVars
<1>7. QueueAccounting' /\ ExactlyOnce'
  BY <1>1, QueueUntouched DEF IInv, DestroyTeardown, queueVars
<1> QED
  BY <1>2, <1>3, <1>4, <1>5, <1>6, <1>7 DEF IInv

LEMMA UseAfterDestroyKeeps ==
  ASSUME IInv, NEW c \in Clients, UseAfterDestroy(c)
  PROVE  IInv'
PROOF
<1>1. TypeOK'
  BY DEF IInv, TypeOK, WorkerStates, ClientStates, UseAfterDestroy, queueVars
<1>2. HandOver'
  BY DEF IInv, HandOver, TypeOK, Adding, UseAfterDestroy, queueVars
<1>3. CloseOrder'
  BY DEF IInv, CloseOrder, TypeOK, DestroyStates, ClientStates, UseAfterDestroy,
         queueVars
<1>4. NoMissedWakeup'
  BY DEF IInv, NoMissedWakeup, TypeOK, QueueAccounting, CloseOrder,
         BroadcastPending, SoleDestroyer, DestroyStates, ClientStates,
         UseAfterDestroy, queueVars
<1>5. DrainedBeforeRelease'
  BY DEF IInv, DrainedBeforeRelease, TypeOK, HandOver, ExactlyOnce, CloseOrder,
         DestroyStates, ClientStates, UseAfterDestroy, queueVars
<1>6. QueueAccounting' /\ ExactlyOnce'
  BY QueueUntouched DEF IInv, UseAfterDestroy
<1> QED
  BY <1>1, <1>2, <1>3, <1>4, <1>5, <1>6 DEF IInv

LEMMA SpuriousWorkerKeeps ==
  ASSUME IInv, NEW w \in Workers, SpuriousWorker(w)
  PROVE  IInv'
PROOF
<1>1. TypeOK'
  BY DEF IInv, TypeOK, WorkerStates, ClientStates, SpuriousWorker, queueVars
<1>2. HandOver'
  BY DEF IInv, HandOver, TypeOK, Adding, SpuriousWorker, queueVars
<1>3. CloseOrder'
  BY DEF IInv, CloseOrder, TypeOK, DestroyStates, ClientStates, SpuriousWorker,
         queueVars
<1>4. NoMissedWakeup'
  BY DEF IInv, NoMissedWakeup, TypeOK, QueueAccounting, CloseOrder,
         BroadcastPending, SoleDestroyer, DestroyStates, ClientStates,
         SpuriousWorker, queueVars
<1>5. DrainedBeforeRelease'
  BY DEF IInv, DrainedBeforeRelease, TypeOK, HandOver, ExactlyOnce, CloseOrder,
         DestroyStates, ClientStates, SpuriousWorker, queueVars
<1>6. QueueAccounting' /\ ExactlyOnce'
  BY QueueUntouched DEF IInv, SpuriousWorker
<1> QED
  BY <1>1, <1>2, <1>3, <1>4, <1>5, <1>6 DEF IInv

LEMMA SpuriousClientKeeps ==
  ASSUME IInv, NEW c \in Clients, SpuriousClient(c)
  PROVE  IInv'
PROOF
<1>1. TypeOK'
  BY DEF IInv, TypeOK, WorkerStates, ClientStates, SpuriousClient, queueVars
<1>2. HandOver'
  BY DEF IInv, HandOver, TypeOK, Adding, SpuriousClient, queueVars
<1>3. CloseOrder'
  BY DEF IInv, CloseOrder, TypeOK, DestroyStates, ClientStates, SpuriousClient,
         queueVars
<1>4. NoMissedWakeup'
  BY DEF IInv, NoMissedWakeup, TypeOK, QueueAccounting, CloseOrder,
         BroadcastPending, SoleDestroyer, DestroyStates, ClientStates,
         SpuriousClient, queueVars
<1>5. DrainedBeforeRelease'
  BY DEF IInv, DrainedBeforeRelease, TypeOK, HandOver, ExactlyOnce, CloseOrder,
         DestroyStates, ClientStates, SpuriousClient, queueVars
<1>6. QueueAccounting' /\ ExactlyOnce'
  BY QueueUntouched DEF IInv, SpuriousClient
<1> QED
  BY <1>1, <1>2, <1>3, <1>4, <1>5, <1>6 DEF IInv

-----------------------------------------------------------------------------
(* The invariant of the proof is inductive. *)

LEMMA InitEstablishesIInv == Init => IInv
PROOF
<1> SUFFICES ASSUME Init  PROVE IInv
  OBVIOUS
<1>1. /\ m_queue = <<>> /\ taken = <<>> /\ accepted = <<>> /\ m_CurQueueJobNum = 0
      /\ m_PoolIsClose = FALSE /\ mutexLive = TRUE /\ runs = [j \in Jobs |-> 0]
      /\ pjob = [w \in Workers |-> NoJob] /\ ret = [j \in Jobs |-> "none"]
      /\ client = [c \in Clients |-> "idle"] /\ arg = [c \in Clients |-> NoJob]
  BY DEF Init
<1>2. /\ worker \in [Workers -> WorkerStates]
      /\ \A w \in Workers : worker[w] \in {"unstarted", "ready"}
  BY DEF Init, WorkerStates
<1>3. TypeOK
  <2>1. /\ m_queue \in Seq(Jobs) /\ taken \in Seq(Jobs) /\ accepted \in Seq(Jobs)
        /\ m_CurQueueJobNum \in 0..QueueMaxNum
    BY <1>1, EmptySeq, QueueAssumption
  <2> QED
    BY <1>1, <1>2, <2>1 DEF TypeOK, ClientStates
<1>4. QueueAccounting
  BY <1>1, EmptySeq, ConcatEmptySeq, QueueAssumption DEF QueueAccounting
<1>5. HandOver /\ CloseOrder /\ NoMissedWakeup /\ DrainedBeforeRelease
  BY <1>1, <1>2
     DEF HandOver, Adding, CloseOrder, DestroyStates, NoMissedWakeup, DrainedBeforeRelease
<1>6. ExactlyOnce
  <2>1. Range(<<>>) = {} /\ DOMAIN <<>> = {}
    BY DEF Range
  <2> QED
    BY <1>1, <2>1 DEF ExactlyOnce
<1> QED
  BY <1>3, <1>4, <1>5, <1>6 DEF IInv

LEMMA NextKeepsIInv == IInv /\ [Next]_vars => IInv'
PROOF
<1> SUFFICES ASSUME IInv, [Next]_vars  PROVE IInv'
  OBVIOUS
<1>1. ASSUME NEW w \in Workers, WorkerStep(w) \/ SpuriousWorker(w)  PROVE IInv'
  BY <1>1, WorkerWaitKeeps, WorkerExitKeeps, WorkerTakeKeeps, WorkerFinishKeeps,
     SpuriousWorkerKeeps DEF WorkerStep
<1>2. ASSUME NEW c \in Clients, NEW j \in Jobs, AddJobCall(c, j)  PROVE IInv'
  BY <1>2, AddJobCallKeeps
<1>3. ASSUME NEW c \in Clients, AddStep(c) \/ UseAfterDestroy(c) \/ SpuriousClient(c)
      PROVE  IInv'
  BY <1>3, AddWaitKeeps, AddRefuseKeeps, AddEnqueueKeeps, UseAfterDestroyKeeps,
     SpuriousClientKeeps DEF AddStep
<1>4. ASSUME NEW d \in Destroyers, DestroyCall(d) \/ DestroyStep(d)  PROVE IInv'
  BY <1>4, DestroyCallKeeps, DestroyAlreadyClosedKeeps, DestroyWaitKeeps,
     DestroyCloseKeeps, DestroyWakeWorkersKeeps, DestroyWakeAddersKeeps,
     DestroyJoinKeeps, DestroyJoinUndefinedKeeps, DestroyTeardownKeeps DEF DestroyStep
<1>5. CASE UNCHANGED vars
  BY <1>5 DEF vars, queueVars, IInv, TypeOK, QueueAccounting, HandOver, Adding,
     ExactlyOnce, CloseOrder, NoMissedWakeup, BroadcastPending, DrainedBeforeRelease
<1> QED
  BY <1>1, <1>2, <1>3, <1>4, <1>5 DEF Next, Terminated

LEMMA SpecKeepsIInv == Spec => []IInv
PROOF
<1> QED
  BY InitEstablishesIInv, NextKeepsIInv, PTL DEF Spec

-----------------------------------------------------------------------------
(* Main results. *)

(* Every field and every thread keeps its type: in particular               *)
(* m_CurQueueJobNum stays within the bound and never goes below zero.       *)
THEOREM TypeCorrect == Spec => []TypeOK
PROOF
<1>1. IInv => TypeOK
  BY DEF IInv
<1> QED
  BY <1>1, SpecKeepsIInv, PTL

(* The list holds exactly the linked jobs that are not yet unlinked.        *)
THEOREM QueueAccountingHolds == Spec => []QueueAccounting
PROOF
<1>1. IInv => QueueAccounting
  BY DEF IInv
<1> QED
  BY <1>1, SpecKeepsIInv, PTL

(* However many workers and clients race, an accepted job runs once.        *)
THEOREM ExactlyOnceHolds == Spec => []ExactlyOnce
PROOF
<1>1. IInv => ExactlyOnce
  BY DEF IInv
<1> QED
  BY <1>1, SpecKeepsIInv, PTL

(* The conditional broadcasts of AddJob and of the worker leave no thread   *)
(* asleep that could go on.                                                 *)
THEOREM NoMissedWakeupHolds == Spec => []NoMissedWakeup
PROOF
<1>1. IInv => NoMissedWakeup
  BY DEF IInv
<1> QED
  BY <1>1, SpecKeepsIInv, PTL

(* Destroy frees the pool only after all workers exited and every accepted  *)
(* job ran, even when clients and other destroyers race with it.            *)
THEOREM DrainedBeforeReleaseHolds == Spec => []DrainedBeforeRelease
PROOF
<1>1. IInv => DrainedBeforeRelease
  BY DEF IInv
<1> QED
  BY <1>1, SpecKeepsIInv, PTL

(* When clients stop before Destroy is called, nobody is left inside the    *)
(* pool when the mutex is destroyed.                                        *)
THEOREM MutexOutlivesUsersHolds == Spec => []MutexOutlivesUsers
PROOF
<1>1. IInv => MutexOutlivesUsers
  <2> SUFFICES ASSUME IInv, Orderly, ~mutexLive
               PROVE  /\ \A w \in Workers : worker[w] = "exited"
                      /\ \A c \in Clients : client[c] \in {"idle", "destroyed"}
    BY DEF MutexOutlivesUsers
  <2>1. PICK d \in Clients : client[d] = "destroyed"
    BY DEF IInv, CloseOrder
  <2>2. \A w \in Workers : worker[w] = "exited"
    BY <2>1 DEF IInv, DrainedBeforeRelease
  <2>3. \A c \in Clients : c # d => client[c] = "idle"
    BY <2>1 DEF IInv, CloseOrder, DestroyStates, ClientStates
  <2> QED
    BY <2>1, <2>2, <2>3
<1> QED
  BY <1>1, SpecKeepsIInv, PTL

-----------------------------------------------------------------------------
(* The pool implements JobService. *)

Active == {pjob[w] : w \in Workers} \ {NoJob}
Finished == {j \in Jobs : runs[j] > 0}
Refused == {j \in Jobs : ret[j] = "refused"}
Phase == IF ~mutexLive THEN "released" ELSE IF m_PoolIsClose THEN "closed" ELSE "open"

ServiceVars == <<m_queue, Active, Finished, Refused, Phase>>

(* A job still being passed to AddJob is new to the service. *)
LEMMA CallingIsFresh ==
  ASSUME IInv, NEW j \in Jobs, ret[j] = "calling"
  PROVE  Service!Fresh(j)
PROOF
<1>1. j \notin Range(accepted)
  BY DEF IInv, ExactlyOnce
<1>2. Range(accepted) = Range(taken) \cup Range(m_queue)
  BY RangeConcatenation DEF IInv, TypeOK, QueueAccounting
<1>3. j \notin Active
  BY <1>1, <1>2 DEF IInv, ExactlyOnce, Active
<1>4. j \notin Finished
  BY <1>1, <1>2 DEF IInv, ExactlyOnce, Finished
<1>5. j \notin Refused
  BY DEF Refused
<1>6. \A i \in DOMAIN m_queue : m_queue[i] # j
  BY <1>1, <1>2 DEF Range
<1> QED
  BY <1>3, <1>4, <1>5, <1>6 DEF Service!Fresh, Active, Finished, Refused

LEMMA TakeStarts ==
  ASSUME IInv, NEW w \in Workers, WorkerTake(w)
  PROVE  Service!Start
PROOF
<1>1. m_queue # <<>> /\ m_queue' = Tail(m_queue)
  <2>1. m_queue # <<>> /\ Len(m_queue) \in Nat \ {0} /\ Tail(m_queue) \in Seq(Jobs)
        /\ Len(Tail(m_queue)) = Len(m_queue) - 1
    BY CountedEmpty, HeadTailProperties, EmptySeq DEF IInv, TypeOK, WorkerTake
  <2>2. m_CurQueueJobNum' = 0 => Tail(m_queue) = <<>>
    BY <2>1, EmptySeq DEF IInv, QueueAccounting, WorkerTake
  <2> QED
    BY <2>1, <2>2 DEF WorkerTake, Unlinked
<1>2. Active' = Active \cup {Head(m_queue)}
  <2>1. Head(m_queue) # NoJob
    BY <1>1, HeadTailProperties, JobAssumption DEF IInv, TypeOK
  <2>2. pjob[w] = NoJob /\ pjob' = [pjob EXCEPT ![w] = Head(m_queue)]
    BY DEF IInv, TypeOK, HandOver, WorkerTake
  <2> QED
    BY <2>1, <2>2 DEF IInv, TypeOK, Active
<1>3. Phase = "open" /\ Phase' = "open" /\ Finished' = Finished /\ Refused' = Refused
  BY DEF WorkerTake, Phase, Finished, Refused
<1> QED
  BY <1>1, <1>2, <1>3 DEF Service!Start, Active, Finished, Refused, Phase

LEMMA FinishFinishes ==
  ASSUME IInv, NEW w \in Workers, WorkerFinish(w)
  PROVE  \E j \in Jobs : Service!Finish(j)
PROOF
<1>0. PICK j \in Jobs : j = pjob[w]
  BY DEF IInv, TypeOK, HandOver, WorkerFinish
<1>1. j \in Jobs /\ j \in Active
  BY <1>0, JobAssumption DEF Active
<1>2. Active' = Active \ {j}
  <2>1. \A v \in Workers : pjob[v] = j => v = w
    BY <1>0, JobAssumption DEF IInv, ExactlyOnce
  <2>2. \A v \in Workers : pjob'[v] = IF v = w THEN NoJob ELSE pjob[v]
    BY DEF IInv, TypeOK, WorkerFinish
  <2> QED
    BY <1>0, <2>1, <2>2, JobAssumption DEF Active
<1>3. Finished' = Finished \cup {j}
  <2>1. runs' = [runs EXCEPT ![j] = @ + 1] /\ runs \in [Jobs -> Nat]
    BY <1>0 DEF IInv, TypeOK, WorkerFinish
  <2> QED
    BY <1>1, <2>1 DEF Finished
<1>4. Phase' = Phase /\ Refused' = Refused /\ m_queue' = m_queue
  BY DEF WorkerFinish, queueVars, Phase, Refused
<1>5. Service!Finish(j)
  BY <1>1, <1>2, <1>3, <1>4 DEF Service!Finish, Active, Finished, Refused, Phase
<1> QED
  BY <1>5

LEMMA EnqueueAccepts ==
  ASSUME IInv, NEW c \in Clients, AddEnqueue(c)
  PROVE  \E j \in Jobs : Service!Accept(j)
PROOF
<1>1. PICK j \in Jobs : j = arg[c] /\ ret[j] = "calling"
  BY DEF IInv, HandOver, Adding, AddEnqueue
<1>2. Service!Fresh(j)
  BY <1>1, CallingIsFresh
<1>3. Len(m_queue) < QueueMaxNum /\ m_queue' = Append(m_queue, j)
  BY <1>1, QueueAssumption DEF IInv, TypeOK, QueueAccounting, AddEnqueue,
         QueueFull, Linked
<1>4. Refused' = Refused
  BY <1>1 DEF IInv, TypeOK, AddEnqueue, AddJobReturn, Refused
<1>5. Phase = "open" /\ Phase' = "open" /\ Active' = Active /\ Finished' = Finished
  BY DEF AddEnqueue, Phase, Active, Finished
<1>6. Service!Accept(j)
  BY <1>2, <1>3, <1>4, <1>5 DEF Service!Accept, Active, Finished, Refused, Phase
<1> QED
  BY <1>6

LEMMA RefuseRefuses ==
  ASSUME IInv, NEW c \in Clients, AddRefuse(c)
  PROVE  \E j \in Jobs : Service!Refuse(j)
PROOF
<1>1. PICK j \in Jobs : j = arg[c] /\ ret[j] = "calling"
  BY DEF IInv, HandOver, Adding, AddRefuse
<1>2. Service!Fresh(j)
  BY <1>1, CallingIsFresh
<1>3. Refused' = Refused \cup {j}
  BY <1>1 DEF IInv, TypeOK, AddRefuse, AddJobReturn, Refused
<1>4. /\ Phase # "released" /\ Phase' = Phase /\ m_queue' = m_queue
      /\ Active' = Active /\ Finished' = Finished
  BY DEF AddRefuse, queueVars, Phase, Active, Finished
<1>5. Service!Refuse(j)
  BY <1>2, <1>3, <1>4 DEF Service!Refuse, Active, Finished, Refused, Phase
<1> QED
  BY <1>5

(* The first Destroy to see an empty queue closes the service, a second one *)
(* finds it closed.                                                         *)
LEMMA CloseCloses ==
  ASSUME IInv, NEW d \in Destroyers, DestroyClose(d)
  PROVE  Service!Close \/ UNCHANGED ServiceVars
PROOF
<1>1. m_queue = <<>> /\ mutexLive /\ mutexLive' /\ m_PoolIsClose'
  BY CountedEmpty DEF IInv, DestroyClose, AtEmptyTest, Drained
<1>2. /\ m_queue' = m_queue /\ Active' = Active
      /\ Finished' = Finished /\ Refused' = Refused
  BY DEF DestroyClose, Active, Finished, Refused
<1>3. CASE m_PoolIsClose
  BY <1>1, <1>2, <1>3 DEF ServiceVars, Phase
<1>4. CASE ~m_PoolIsClose
  BY <1>1, <1>2, <1>4 DEF Service!Close, Active, Finished, Refused, Phase
<1> QED
  BY <1>3, <1>4

LEMMA TeardownReleases ==
  ASSUME IInv, NEW d \in Destroyers, DestroyTeardown(d)
  PROVE  Service!Release \/ UNCHANGED ServiceVars
PROOF
<1>1. m_queue' = m_queue /\ m_PoolIsClose /\ ~mutexLive'
  BY ClientAssumption DEF IInv, CloseOrder, DestroyTeardown
<1>2. Active = {}
  BY ClientAssumption DEF IInv, HandOver, DrainedBeforeRelease, DestroyTeardown,
         Active
<1>3. Active' = Active /\ Finished' = Finished /\ Refused' = Refused
  BY DEF DestroyTeardown, Active, Finished, Refused
<1>4. CASE mutexLive
  BY <1>1, <1>2, <1>3, <1>4 DEF Service!Release, Active, Finished, Refused, Phase
<1>5. CASE ~mutexLive
  BY <1>1, <1>3, <1>5 DEF ServiceVars, Phase
<1> QED
  BY <1>4, <1>5

LEMMA NextRefines == IInv /\ [Next]_vars => [Service!Next]_ServiceVars
PROOF
<1> SUFFICES ASSUME IInv, [Next]_vars  PROVE [Service!Next]_ServiceVars
  OBVIOUS
<1> DEFINE quiet == UNCHANGED <<m_queue, mutexLive, m_PoolIsClose, pjob, runs, Refused>>
<1>1. quiet => UNCHANGED ServiceVars
  BY DEF ServiceVars, Active, Finished, Phase
<1>2. ASSUME NEW w \in Workers, WorkerStep(w) \/ SpuriousWorker(w)
      PROVE  [Service!Next]_ServiceVars
  <2>1. WorkerTake(w) \/ WorkerFinish(w) => Service!Next
    BY TakeStarts, FinishFinishes DEF Service!Next
  <2>2. WorkerWait(w) \/ WorkerExit(w) \/ SpuriousWorker(w) => quiet
    BY DEF WorkerWait, WorkerExit, SpuriousWorker, queueVars, Refused
  <2> QED
    BY <1>1, <1>2, <2>1, <2>2 DEF WorkerStep
<1>3. ASSUME NEW c \in Clients, NEW j \in Jobs, AddJobCall(c, j)
      PROVE  [Service!Next]_ServiceVars
  <2>1. Refused' = Refused
    BY <1>3 DEF IInv, TypeOK, AddJobCall, Refused
  <2> QED
    BY <1>1, <1>3, <2>1 DEF AddJobCall, queueVars
<1>4. ASSUME NEW c \in Clients, AddStep(c) \/ UseAfterDestroy(c) \/ SpuriousClient(c)
      PROVE  [Service!Next]_ServiceVars
  <2>1. AddEnqueue(c) \/ AddRefuse(c) => Service!Next
    BY EnqueueAccepts, RefuseRefuses DEF Service!Next
  <2>2. AddWait(c) \/ UseAfterDestroy(c) \/ SpuriousClient(c) => quiet
    BY DEF AddWait, UseAfterDestroy, SpuriousClient, queueVars, Refused
  <2> QED
    BY <1>1, <1>4, <2>1, <2>2 DEF AddStep
<1>5. ASSUME NEW d \in Destroyers, DestroyCall(d) \/ DestroyStep(d)
      PROVE  [Service!Next]_ServiceVars
  <2>1. DestroyClose(d) \/ DestroyTeardown(d) => [Service!Next]_ServiceVars
    BY CloseCloses, TeardownReleases DEF Service!Next
  <2>2. DestroyCall(d) \/ DestroyAlreadyClosed(d) \/ DestroyWait(d)
          \/ DestroyWakeWorkers(d) \/ DestroyWakeAdders(d)
          \/ DestroyJoin(d) \/ DestroyJoinUndefined(d) => quiet
    BY DEF DestroyCall, DestroyAlreadyClosed, DestroyWait, DestroyWakeWorkers,
           DestroyWakeAdders, DestroyJoin, DestroyJoinUndefined, queueVars, Refused
  <2> HIDE DEF quiet
  <2> QED
    BY <1>1, <1>5, <2>1, <2>2 DEF DestroyStep
<1>6. CASE UNCHANGED vars
  BY <1>1, <1>6 DEF vars, queueVars, Refused
<1> QED
  BY <1>2, <1>3, <1>4, <1>5, <1>6 DEF Next, Terminated

(* Every behaviour of the pool, with its threads, lock and conditions, is   *)
(* one of the abstract service: accepted jobs start in order and run once,  *)
(* nothing is accepted beyond the capacity, and the service closes when     *)
(* nothing is pending and is released when nothing runs.                    *)
THEOREM PoolImplementsService == Spec => ServiceSpec
PROOF
<1>1. Init => Service!Init
  <2> SUFFICES ASSUME Init  PROVE Service!Init
    OBVIOUS
  <2>1. m_queue = <<>> /\ Phase = "open"
    BY DEF Init, Phase
  <2>2. Active = {} /\ Finished = {} /\ Refused = {}
    BY DEF Init, Active, Finished, Refused
  <2> QED
    BY <2>1, <2>2 DEF Service!Init, Active, Finished, Refused, Phase
<1>2. ServiceVars = Service!vars
  BY DEF ServiceVars, Service!vars, Active, Finished, Refused, Phase
<1>3. IInv /\ [Next]_vars => [Service!Next]_(Service!vars)
  BY NextRefines DEF ServiceVars, Service!vars, Active, Finished, Refused, Phase
<1> QED
  BY <1>1, <1>3, SpecKeepsIInv, PTL DEF Spec, ServiceSpec, Service!Spec
=============================================================================
