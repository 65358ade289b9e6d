---------------------------- MODULE DBPoolProofs ----------------------------
(***************************************************************************)
(* Proofs about DBPool for any number of threads, any supply of connection *)
(* objects and any m_db_max_conn_cnt.                                      *)
(***************************************************************************)
EXTENDS DBPool, SequenceTheorems, TLAPS, FiniteSetTheorems

-----------------------------------------------------------------------------
(* The list of free connections: link at the tail, unlink the head.        *)

(* Nothing is in the list twice. *)
NoRepeats(s) == \A i, k \in DOMAIN s : s[i] = s[k] => i = k

(* What is linked at the tail of a list is in it, besides what was.         *)
LEMMA RangeOfAppend ==
  ASSUME NEW S, NEW s \in Seq(S), NEW e \in S
  PROVE  Range(Append(s, e)) = Range(s) \cup {e}
PROOF
<1>1. /\ Append(s, e) \in Seq(S) /\ Len(Append(s, e)) = Len(s) + 1
      /\ \A i \in 1..Len(s) : Append(s, e)[i] = s[i]
      /\ Append(s, e)[Len(s) + 1] = e
  BY AppendProperties
<1>2. Len(s) \in Nat
  OBVIOUS
<1>3. Range(s) = {s[i] : i \in 1..Len(s)}
  BY DEF Range
<1>4. Range(Append(s, e)) = {Append(s, e)[i] : i \in 1..(Len(s) + 1)}
  BY <1>1 DEF Range
<1> QED
  BY <1>1, <1>2, <1>3, <1>4

(* Appending something new repeats nothing. *)
LEMMA AppendFresh ==
  ASSUME NEW S, NEW s \in Seq(S), NEW e \in S, e \notin Range(s), NoRepeats(s)
  PROVE  NoRepeats(Append(s, e))
  BY AppendProperties, LenProperties, RangeEquality DEF NoRepeats

(* Unlinking the head of a list without repetitions removes it for good. *)
LEMMA TailLosesHead ==
  ASSUME NEW S, NEW s \in Seq(S), s # <<>>, NoRepeats(s)
  PROVE  /\ NoRepeats(Tail(s))
         /\ Range(Tail(s)) = Range(s) \ {Head(s)}
         /\ Head(s) \in Range(s)
PROOF
<1>1. /\ Tail(s) \in Seq(S) /\ Len(Tail(s)) = Len(s) - 1
      /\ \A i \in 1..Len(Tail(s)) : Tail(s)[i] = s[i + 1]
      /\ Head(s) = s[1] /\ Len(s) \in Nat \ {0}
  BY HeadTailProperties, EmptySeq
<1>2. DOMAIN s = 1..Len(s) /\ DOMAIN Tail(s) = 1..(Len(s) - 1)
  BY <1>1
<1>3. /\ Range(s) = {s[i] : i \in 1..Len(s)}
      /\ Range(Tail(s)) = {Tail(s)[i] : i \in 1..(Len(s) - 1)}
  BY <1>2 DEF Range
<1>4. NoRepeats(Tail(s))
  BY <1>1, <1>2 DEF NoRepeats
<1>5. \A i \in 2..Len(s) : s[i] # s[1] /\ s[i] = Tail(s)[i - 1]
  BY <1>1, <1>2 DEF NoRepeats
<1>6. Range(Tail(s)) \subseteq Range(s) \ {Head(s)}
  BY <1>1, <1>2, <1>3 DEF NoRepeats
<1>7. ASSUME NEW e \in Range(s), e # Head(s)
      PROVE  e \in Range(Tail(s))
  <2>1. PICK i \in 1..Len(s) : e = s[i]
    BY <1>3
  <2>2. i # 1
    BY <1>1, <1>7, <2>1
  <2>3. i - 1 \in 1..(Len(s) - 1) /\ e = Tail(s)[i - 1]
    BY <1>1, <1>5, <2>1, <2>2
  <2> QED
    BY <1>3, <2>3
<1> QED
  BY <1>1, <1>3, <1>4, <1>6, <1>7

-----------------------------------------------------------------------------

(* A thread holds a pointer only between GetDBConn and RelConn, and the     *)
(* pool is used only once Init has succeeded and before it is deleted.      *)
Usage ==
  /\ \A t \in Threads : conn[t] # NULL => pc[t] = "using"
  /\ phase # "ready" => /\ \A t \in Threads : pc[t] = "idle"
                        /\ m_free_list = <<>> /\ live = {}
  /\ phase \in {"constructed", "failed"} => m_db_cur_conn_cnt = 1

IInv ==
  /\ TypeOK
  /\ Usage
  /\ ExclusiveUse
  /\ ConnAccounting
  /\ NoMissedWakeup

Getting == {t \in Threads : pc[t] = "get"}

-----------------------------------------------------------------------------
(* Steps that move one thread and leave the pool alone. *)

LEMMA PoolUntouched ==
  ASSUME ExclusiveUse, ConnAccounting, UNCHANGED <<poolVars, phase, conn>>
  PROVE  ExclusiveUse' /\ ConnAccounting'
PROOF
  BY DEF ExclusiveUse, ConnAccounting, Held, Free, poolVars

(* One more thread on its way to the list lets more sleep safely. *)
LEMMA GettingGrows ==
  ASSUME TypeOK, NEW t \in Threads, pc[t] # "get",
         pc' = [pc EXCEPT ![t] = "get"]
  PROVE  /\ Getting' = Getting \cup {t}
         /\ Cardinality(Getting') = Cardinality(Getting) + 1
         /\ Cardinality(Getting) \in Nat
PROOF
<1>1. Getting' = Getting \cup {t} /\ t \notin Getting
  BY DEF TypeOK, Getting
<1>2. IsFiniteSet(Getting)
  BY FS_Subset, ThreadAssumption DEF Getting
<1> QED
  BY <1>1, <1>2, FS_AddElement, FS_CardinalityType

LEMMA GettingShrinks ==
  ASSUME TypeOK, NEW t \in Threads, pc[t] = "get", NEW s, s # "get",
         pc' = [pc EXCEPT ![t] = s]
  PROVE  /\ Getting' = Getting \ {t}
         /\ Cardinality(Getting') = Cardinality(Getting) - 1
         /\ Cardinality(Getting) \in Nat
PROOF
<1>1. Getting' = Getting \ {t} /\ t \in Getting
  BY DEF TypeOK, Getting
<1>2. IsFiniteSet(Getting)
  BY FS_Subset, ThreadAssumption DEF Getting
<1> QED
  BY <1>1, <1>2, FS_RemoveElement, FS_CardinalityType

(* A list no longer than the number of getters needs no one else awake.     *)
LEMMA ListEmpty ==
  ASSUME TypeOK, m_free_list = <<>>
  PROVE  Len(m_free_list) <= Cardinality(Getting)
PROOF
<1>1. IsFiniteSet(Getting)
  BY FS_Subset, ThreadAssumption DEF Getting
<1> QED
  BY <1>1, FS_CardinalityType, EmptySeq

-----------------------------------------------------------------------------
LEMMA PoolInitKeeps ==
  ASSUME IInv, NEW c \in Conns, PoolInit(c)
  PROVE  IInv'
PROOF
<1>1. /\ m_free_list = <<>> /\ live = {} /\ m_db_cur_conn_cnt = 1
      /\ \A t \in Threads : pc[t] = "idle" /\ conn[t] = NULL
  BY DEF IInv, TypeOK, Usage, PoolInit
<1>2. /\ m_free_list' = <<c>> /\ live' = {c} /\ phase' = "ready"
      /\ UNCHANGED <<m_db_cur_conn_cnt, pc, conn, calls>>
  BY <1>1 DEF PoolInit
<1>3. m_free_list' \in Seq(Conns \cup {NULL}) /\ Range(m_free_list') = {c}
  BY <1>2 DEF Range
<1>4. TypeOK'
  BY <1>2, <1>3 DEF IInv, TypeOK, Phases
<1>5. Usage'
  BY <1>1, <1>2 DEF Usage
<1>6. ExclusiveUse'
  BY <1>1, <1>2, <1>3 DEF ExclusiveUse, Held, Free
<1>7. ConnAccounting'
  <2>1. live' = Free' \cup Held'
    BY <1>1, <1>2, <1>3, ConnAssumption DEF Free, Held
  <2>2. Cardinality(live') = 1
    BY <1>2, FS_Singleton
  <2> QED
    BY <1>1, <1>2, <2>1, <2>2 DEF ConnAccounting
<1>8. NoMissedWakeup'
  BY <1>1, <1>2 DEF NoMissedWakeup
<1> QED
  BY <1>4, <1>5, <1>6, <1>7, <1>8 DEF IInv

LEMMA PoolInitFailKeeps ==
  ASSUME IInv, PoolInitFail
  PROVE  IInv'
PROOF
<1>1. TypeOK'
  BY DEF IInv, TypeOK, PoolInitFail, poolVars, Phases
<1>2. Usage'
  BY DEF IInv, Usage, PoolInitFail, poolVars
<1>3. ExclusiveUse' /\ ConnAccounting'
  BY DEF IInv, ExclusiveUse, ConnAccounting, Held, Free, PoolInitFail, poolVars
<1>4. NoMissedWakeup'
  BY DEF IInv, NoMissedWakeup, AtLimit, PoolInitFail, poolVars
<1> QED
  BY <1>1, <1>2, <1>3, <1>4 DEF IInv

LEMMA PoolDeleteKeeps ==
  ASSUME IInv, UsersDone, PoolDelete
  PROVE  IInv'
PROOF
<1>1. /\ m_free_list' = <<>> /\ live' = live \ Range(m_free_list) /\ phase' = "deleted"
      /\ phase = "ready" /\ UNCHANGED <<m_db_cur_conn_cnt, pc, conn, calls>>
      /\ \A t \in Threads : pc[t] = "idle" /\ conn[t] = NULL
  BY DEF IInv, TypeOK, Usage, UsersDone, PoolDelete
<1>2. live' = {}
  BY <1>1 DEF IInv, ConnAccounting, Held, Free
<1>3. TypeOK'
  BY <1>1, <1>2, EmptySeq DEF IInv, TypeOK, Phases
<1>4. Usage'
  BY <1>1, <1>2 DEF Usage
<1>5. ExclusiveUse' /\ ConnAccounting'
  <2>1. Range(<<>>) = {} /\ DOMAIN <<>> = {}
    BY DEF Range
  <2> QED
    BY <1>1, <2>1 DEF ExclusiveUse, ConnAccounting, Held, Free
<1>6. NoMissedWakeup'
  BY <1>1 DEF NoMissedWakeup
<1> QED
  BY <1>3, <1>4, <1>5, <1>6 DEF IInv

LEMMA GetCallKeeps ==
  ASSUME IInv, NEW t \in Threads, GetCall(t)
  PROVE  IInv'
PROOF
<1>1. TypeOK'
  BY RoundsAssumption DEF IInv, TypeOK, ThreadStates, GetCall, poolVars
<1>2. Usage'
  BY DEF IInv, TypeOK, Usage, GetCall, poolVars
<1>3. ExclusiveUse' /\ ConnAccounting'
  BY PoolUntouched DEF IInv, GetCall
<1>4. NoMissedWakeup'
  <2>1. Cardinality(Getting') = Cardinality(Getting) + 1 /\ Cardinality(Getting) \in Nat
    BY GettingGrows DEF IInv, GetCall
  <2>2. (\E u \in Threads : pc'[u] = "wait") => \E u \in Threads : pc[u] = "wait"
    BY DEF IInv, TypeOK, GetCall
  <2> QED
    BY <2>1, <2>2, LenProperties
       DEF IInv, TypeOK, NoMissedWakeup, AtLimit, Getting, GetCall, poolVars
<1> QED
  BY <1>1, <1>2, <1>3, <1>4 DEF IInv

LEMMA GetWaitKeeps ==
  ASSUME IInv, NEW t \in Threads, GetWait(t)
  PROVE  IInv'
PROOF
<1>1. TypeOK'
  BY DEF IInv, TypeOK, ThreadStates, GetWait, poolVars
<1>2. Usage'
  BY DEF IInv, TypeOK, Usage, GetWait, poolVars
<1>3. ExclusiveUse' /\ ConnAccounting'
  BY PoolUntouched DEF IInv, GetWait
<1>4. NoMissedWakeup'
  <2>1. Len(m_free_list) = 0 /\ AtLimit' /\ UNCHANGED m_free_list
    BY DEF GetWait, AtLimit, poolVars
  <2>2. Cardinality(Getting') \in Nat
    BY FS_Subset, FS_CardinalityType, ThreadAssumption DEF Getting
  <2> QED
    BY <2>1, <2>2 DEF NoMissedWakeup, Getting
<1> QED
  BY <1>1, <1>2, <1>3, <1>4 DEF IInv

LEMMA GetPopKeeps ==
  ASSUME IInv, NEW t \in Threads, GetPop(t)
  PROVE  IInv'
PROOF
<1> DEFINE h == Head(m_free_list)
<1>1. /\ m_free_list \in Seq(Conns \cup {NULL}) /\ m_free_list # <<>>
      /\ NoRepeats(m_free_list)
  BY DEF IInv, TypeOK, ExclusiveUse, NoRepeats, GetPop
<1>2. /\ h \in Conns \cup {NULL} /\ Tail(m_free_list) \in Seq(Conns \cup {NULL})
      /\ Len(Tail(m_free_list)) = Len(m_free_list) - 1
      /\ NoRepeats(Tail(m_free_list)) /\ h \in Range(m_free_list)
      /\ Range(Tail(m_free_list)) = Range(m_free_list) \ {h}
  BY <1>1, HeadTailProperties, TailLosesHead
<1>3. /\ m_free_list' = Tail(m_free_list) /\ conn' = [conn EXCEPT ![t] = h]
      /\ pc' = [pc EXCEPT ![t] = "using"] /\ pc[t] = "get" /\ conn[t] = NULL
      /\ UNCHANGED <<m_db_cur_conn_cnt, live, phase, calls>>
  BY DEF IInv, Usage, GetPop, GetReturn, PoppedList
<1> HIDE DEF h
<1>4. TypeOK'
  BY <1>2, <1>3 DEF IInv, TypeOK, ThreadStates
<1>5. Usage'
  BY <1>3 DEF IInv, TypeOK, Usage
<1>6. Held' = Held \cup ({h} \ {NULL}) /\ Free' = Free \ {h}
  <2>1. \A u \in Threads : conn'[u] = IF u = t THEN h ELSE conn[u]
    BY <1>3 DEF IInv, TypeOK
  <2> QED
    BY <1>2, <1>3, <2>1 DEF Held, Free
<1>7. ExclusiveUse'
  <2>1. \A u, v \in Threads : conn'[u] = conn'[v] /\ conn'[u] # NULL => u = v
    BY <1>2, <1>3 DEF IInv, TypeOK, ExclusiveUse, Held, Free
  <2>2. Held' \cap Free' = {}
    BY <1>6 DEF IInv, ExclusiveUse
  <2>3. NoRepeats(m_free_list')
    BY <1>2, <1>3
  <2> QED
    BY <2>1, <2>2, <2>3 DEF ExclusiveUse, NoRepeats
<1>8. ConnAccounting'
  <2>1. Free' \cup Held' = Free \cup Held
    BY <1>2, <1>6 DEF Free
  <2> QED
    BY <1>3, <2>1 DEF IInv, ConnAccounting
<1>9. NoMissedWakeup'
  <2>1. Cardinality(Getting') = Cardinality(Getting) - 1 /\ Cardinality(Getting) \in Nat
    BY <1>3, GettingShrinks DEF IInv
  <2>2. (\E u \in Threads : pc'[u] = "wait") => \E u \in Threads : pc[u] = "wait"
    BY <1>3 DEF IInv, TypeOK
  <2> QED
    BY <1>1, <1>2, <1>3, <2>1, <2>2, LenProperties
       DEF IInv, NoMissedWakeup, AtLimit, Getting
<1> QED
  BY <1>4, <1>5, <1>7, <1>8, <1>9 DEF IInv

LEMMA GetConnectKeeps ==
  ASSUME IInv, NEW t \in Threads, NEW c \in Conns, GetConnect(t, c)
  PROVE  IInv'
PROOF
<1>1. /\ m_free_list = <<>> /\ ~AtLimit /\ c \notin live
      /\ live' = live \cup {c} /\ m_db_cur_conn_cnt' = m_db_cur_conn_cnt + 1
      /\ conn' = [conn EXCEPT ![t] = c] /\ pc' = [pc EXCEPT ![t] = "using"]
      /\ pc[t] = "get" /\ conn[t] = NULL /\ c # NULL /\ phase = "ready"
      /\ UNCHANGED <<m_free_list, phase, calls>>
  BY ConnAssumption
     DEF IInv, Usage, GetConnect, GetReturn, CountedConn
<1>2. \A u \in Threads : pc[u] # "wait" /\ pc'[u] # "wait"
  BY <1>1 DEF IInv, TypeOK, NoMissedWakeup
<1>3. TypeOK'
  <2>1. m_db_cur_conn_cnt' \in 1..ConnLimit
    BY <1>1, MaxConnAssumption DEF IInv, TypeOK, AtLimit, ConnLimit
  <2> QED
    BY <1>1, <2>1 DEF IInv, TypeOK, ThreadStates
<1>4. Usage'
  BY <1>1 DEF IInv, TypeOK, Usage
<1>5. Held' = Held \cup {c} /\ Free' = Free /\ c \notin Held /\ c \notin Free
  <2>1. \A u \in Threads : conn'[u] = IF u = t THEN c ELSE conn[u]
    BY <1>1 DEF IInv, TypeOK
  <2>2. c \notin Held /\ c \notin Free
    BY <1>1 DEF IInv, ConnAccounting
  <2> QED
    BY <1>1, <2>1, <2>2 DEF Held, Free
<1>6. ExclusiveUse'
  <2>1. \A u \in Threads : conn[u] # c
    BY <1>1, <1>5 DEF Held
  <2>2. \A u, v \in Threads : conn'[u] = conn'[v] /\ conn'[u] # NULL => u = v
    BY <1>1, <2>1 DEF IInv, TypeOK, ExclusiveUse
  <2> QED
    BY <1>1, <1>5, <2>2 DEF IInv, ExclusiveUse
<1>7. ConnAccounting'
  <2>1. IsFiniteSet(live)
    BY FS_Subset, ConnAssumption DEF IInv, TypeOK
  <2>2. Cardinality(live') = Cardinality(live) + 1
    BY <1>1, <2>1, FS_AddElement
  <2> QED
    BY <1>1, <1>5, <2>2 DEF IInv, ConnAccounting
<1>8. NoMissedWakeup'
  BY <1>2 DEF NoMissedWakeup
<1> QED
  BY <1>3, <1>4, <1>6, <1>7, <1>8 DEF IInv

LEMMA GetConnectFailKeeps ==
  ASSUME IInv, NEW t \in Threads, GetConnectFail(t)
  PROVE  IInv'
PROOF
<1>1. /\ conn' = conn /\ pc' = [pc EXCEPT ![t] = "using"] /\ pc[t] = "get"
      /\ UNCHANGED <<poolVars, phase, calls>>
  BY DEF IInv, TypeOK, Usage, GetConnectFail, GetReturn
<1>2. \A u \in Threads : pc'[u] # "wait"
  BY <1>1 DEF IInv, TypeOK, NoMissedWakeup, GetConnectFail
<1>3. TypeOK'
  BY <1>1 DEF IInv, TypeOK, ThreadStates, poolVars
<1>4. Usage'
  BY <1>1 DEF IInv, TypeOK, Usage, poolVars
<1>5. ExclusiveUse' /\ ConnAccounting'
  BY <1>1, PoolUntouched DEF IInv
<1>6. NoMissedWakeup'
  BY <1>2 DEF NoMissedWakeup
<1> QED
  BY <1>3, <1>4, <1>5, <1>6 DEF IInv

LEMMA RelConnKeeps ==
  ASSUME IInv, NEW t \in Threads, RelConn(t)
  PROVE  IInv'
PROOF
<1> DEFINE c == conn[t]
<1>1. /\ m_free_list \in Seq(Conns \cup {NULL}) /\ c \in Conns \cup {NULL}
      /\ NoRepeats(m_free_list) /\ pc[t] = "using" /\ phase = "ready"
      /\ m_free_list' = Returned(c) /\ conn' = [conn EXCEPT ![t] = NULL]
      /\ UNCHANGED <<m_db_cur_conn_cnt, live, phase, calls>>
  BY DEF IInv, TypeOK, Usage, ExclusiveUse, NoRepeats, RelConn
<1>2. PICK signalled \in Signalled(m_free_list) :
         pc' = [u \in Threads |-> IF u = t THEN "idle"
                                  ELSE IF u \in signalled THEN "get" ELSE pc[u]]
  BY DEF RelConn
<1>3. \/ \A u \in Threads : pc[u] # "wait" /\ signalled = {}
      \/ \E u \in Threads : pc[u] = "wait" /\ signalled = {u}
  BY DEF Signalled
<1>4. c # NULL => c \notin Range(m_free_list)
  BY DEF IInv, ExclusiveUse, Held, Free
<1> HIDE DEF c
<1>5. /\ m_free_list' \in Seq(Conns \cup {NULL}) /\ NoRepeats(m_free_list')
      /\ Range(m_free_list') = Range(m_free_list) \cup {c}
      /\ Len(m_free_list') <= Len(m_free_list) + 1
  <2>1. CASE c \in Range(m_free_list)
    BY <1>1, <2>1, LenProperties DEF Returned
  <2>2. CASE c \notin Range(m_free_list)
    <3>1. /\ m_free_list' = Append(m_free_list, c)
          /\ Len(m_free_list') = Len(m_free_list) + 1
          /\ m_free_list' \in Seq(Conns \cup {NULL})
      BY <1>1, <2>2, AppendProperties DEF Returned
    <3>2. NoRepeats(m_free_list')
      BY <1>1, <2>2, <3>1, AppendFresh
    <3>3. Range(m_free_list') = Range(m_free_list) \cup {c}
      BY <1>1, <3>1, RangeOfAppend
    <3> QED
      BY <1>1, <3>1, <3>2, <3>3, LenProperties
  <2> QED
    BY <2>1, <2>2
<1>6. TypeOK'
  <2>1. pc' \in [Threads -> ThreadStates]
    BY <1>2 DEF IInv, TypeOK, ThreadStates
  <2> QED
    BY <1>1, <1>5, <2>1 DEF IInv, TypeOK
<1>7. Usage'
  BY <1>1, <1>2, <1>3 DEF IInv, TypeOK, Usage
<1>8. Held' = Held \ {c} /\ Free' = Free \cup ({c} \ {NULL})
  <2>1. \A u \in Threads : conn'[u] = IF u = t THEN NULL ELSE conn[u]
    BY <1>1 DEF IInv, TypeOK
  <2>2. \A u \in Threads : conn[u] = c /\ c # NULL => u = t
    BY DEF IInv, ExclusiveUse, c
  <2>3. c = conn[t]
    BY DEF c
  <2> QED
    BY <1>5, <2>1, <2>2, <2>3 DEF Held, Free
<1>9. ExclusiveUse'
  <2>1. \A u, v \in Threads : conn'[u] = conn'[v] /\ conn'[u] # NULL => u = v
    BY <1>1 DEF IInv, TypeOK, ExclusiveUse
  <2>2. Held' \cap Free' = {}
    BY <1>8 DEF IInv, ExclusiveUse
  <2> QED
    BY <1>5, <2>1, <2>2 DEF ExclusiveUse, NoRepeats
<1>10. ConnAccounting'
  <2>1. c # NULL => c \in Held
    BY DEF Held, c
  <2>2. Free' \cup Held' = Free \cup Held
    BY <1>8, <2>1 DEF Held
  <2> QED
    BY <1>1, <2>2 DEF IInv, ConnAccounting
<1>11. NoMissedWakeup'
  <2>1. CASE \A u \in Threads : pc[u] # "wait"
    BY <1>2, <1>3, <2>1 DEF NoMissedWakeup
  <2>2. CASE \E u \in Threads : pc[u] = "wait" /\ signalled = {u}
    <3>1. PICK u \in Threads : pc[u] = "wait" /\ signalled = {u}
      BY <2>2
    <3>2. Getting' = Getting \cup {u} /\ u \notin Getting
      BY <1>1, <1>2, <3>1 DEF Getting
    <3>3. Cardinality(Getting') = Cardinality(Getting) + 1 /\ Cardinality(Getting) \in Nat
      <4>1. IsFiniteSet(Getting)
        BY FS_Subset, ThreadAssumption DEF Getting
      <4> QED
        BY <3>2, <4>1, FS_AddElement, FS_CardinalityType
    <3>4. Len(m_free_list) <= Cardinality(Getting) /\ AtLimit
      BY <3>1 DEF IInv, NoMissedWakeup, Getting
    <3>5. Len(m_free_list') <= Cardinality(Getting') /\ AtLimit'
      BY <1>1, <1>5, <3>3, <3>4, LenProperties DEF AtLimit
    <3> QED
      BY <3>5 DEF NoMissedWakeup, Getting
  <2> QED
    BY <1>3, <2>1, <2>2
<1> QED
  BY <1>6, <1>7, <1>9, <1>10, <1>11 DEF IInv

LEMMA NothingToReleaseKeeps ==
  ASSUME IInv, NEW t \in Threads, NothingToRelease(t)
  PROVE  IInv'
PROOF
<1>1. TypeOK'
  BY DEF IInv, TypeOK, ThreadStates, NothingToRelease, poolVars
<1>2. Usage'
  BY DEF IInv, TypeOK, Usage, NothingToRelease, MayRelease, poolVars
<1>3. ExclusiveUse' /\ ConnAccounting'
  BY PoolUntouched DEF IInv, NothingToRelease
<1>4. NoMissedWakeup'
  <2>1. /\ Getting' = Getting
        /\ (\E u \in Threads : pc'[u] = "wait") => \E u \in Threads : pc[u] = "wait"
    BY DEF IInv, TypeOK, Getting, NothingToRelease
  <2> QED
    BY <2>1 DEF IInv, NoMissedWakeup, AtLimit, Getting, NothingToRelease, poolVars
<1> QED
  BY <1>1, <1>2, <1>3, <1>4 DEF IInv

LEMMA SpuriousWakeupKeeps ==
  ASSUME IInv, NEW t \in Threads, SpuriousWakeup(t)
  PROVE  IInv'
PROOF
<1>1. TypeOK'
  BY DEF IInv, TypeOK, ThreadStates, SpuriousWakeup, poolVars
<1>2. Usage'
  BY DEF IInv, TypeOK, Usage, SpuriousWakeup, poolVars
<1>3. ExclusiveUse' /\ ConnAccounting'
  BY PoolUntouched DEF IInv, SpuriousWakeup
<1>4. NoMissedWakeup'
  <2>1. Cardinality(Getting') = Cardinality(Getting) + 1 /\ Cardinality(Getting) \in Nat
    BY GettingGrows DEF IInv, SpuriousWakeup
  <2>2. Len(m_free_list) <= Cardinality(Getting) /\ AtLimit
    BY DEF IInv, NoMissedWakeup, Getting, SpuriousWakeup
  <2> QED
    BY <2>1, <2>2, LenProperties
       DEF IInv, TypeOK, NoMissedWakeup, AtLimit, Getting, SpuriousWakeup, poolVars
<1> QED
  BY <1>1, <1>2, <1>3, <1>4 DEF IInv

-----------------------------------------------------------------------------
(* The invariant of the proof is inductive. *)

LEMMA InitEstablishesIInv == Init => IInv
PROOF
<1> SUFFICES ASSUME Init  PROVE IInv
  OBVIOUS
<1>1. Range(<<>>) = {} /\ DOMAIN <<>> = {}
  BY DEF Range
<1>2. m_db_cur_conn_cnt \in 1..ConnLimit
  BY MaxConnAssumption DEF Init, ConnLimit
<1>3. TypeOK
  BY <1>2, EmptySeq, RoundsAssumption DEF Init, TypeOK, Phases, ThreadStates
<1>4. Usage /\ ConnAccounting /\ NoMissedWakeup
  BY DEF Init, Usage, ConnAccounting, NoMissedWakeup
<1>5. ExclusiveUse
  BY <1>1 DEF Init, ExclusiveUse, Held, Free
<1> QED
  BY <1>3, <1>4, <1>5 DEF IInv

LEMMA NextKeepsIInv == IInv /\ [Next]_vars => IInv'
PROOF
<1> SUFFICES ASSUME IInv, [Next]_vars  PROVE IInv'
  OBVIOUS
<1>1. ASSUME NEW c \in Conns, PoolInit(c)  PROVE IInv'
  BY <1>1, PoolInitKeeps
<1>2. CASE PoolInitFail \/ (UsersDone /\ PoolDelete)
  BY <1>2, PoolInitFailKeeps, PoolDeleteKeeps
<1>3. ASSUME NEW t \in Threads, GetCall(t) \/ ThreadStep(t) \/ SpuriousWakeup(t)
      PROVE  IInv'
  BY <1>3, GetCallKeeps, GetWaitKeeps, GetPopKeeps, GetConnectKeeps,
     GetConnectFailKeeps, RelConnKeeps, NothingToReleaseKeeps, SpuriousWakeupKeeps
     DEF ThreadStep, GetStep
<1>4. CASE UNCHANGED vars
  BY <1>4 DEF vars, poolVars, IInv, TypeOK, Usage, ExclusiveUse, ConnAccounting,
     NoMissedWakeup, AtLimit, Held, Free
<1> QED
  BY <1>1, <1>2, <1>3, <1>4 DEF Next

LEMMA SpecKeepsIInv == Spec => []IInv
PROOF
<1> QED
  BY InitEstablishesIInv, NextKeepsIInv, PTL DEF Spec

-----------------------------------------------------------------------------
(* Main results. *)

(* Types are kept, and m_db_cur_conn_cnt stays between 1 and the limit      *)
(* whatever int the limit is.                                               *)
THEOREM TypeCorrect == Spec => []TypeOK
PROOF
<1>1. IInv => TypeOK
  BY DEF IInv
<1> QED
  BY <1>1, SpecKeepsIInv, PTL

(* GetDBConn never hands a connection to two threads at once.               *)
THEOREM ExclusiveUseHolds == Spec => []ExclusiveUse
PROOF
<1>1. IInv => ExclusiveUse
  BY DEF IInv
<1> QED
  BY <1>1, SpecKeepsIInv, PTL

(* One Signal per RelConn is enough: no thread sleeps next to a connection  *)
(* nobody is coming for.                                                    *)
THEOREM NoMissedWakeupHolds == Spec => []NoMissedWakeup
PROOF
<1>1. IInv => NoMissedWakeup
  BY DEF IInv
<1> QED
  BY <1>1, SpecKeepsIInv, PTL

(* Every open connection is free or in use and counted, none is opened      *)
(* beyond the limit, and deleting a pool whose users are done closes all.   *)
THEOREM AllAccountedForHolds == Spec => []AllAccountedFor
PROOF
<1>1. IInv => m_db_cur_conn_cnt <= ConnLimit
  BY MaxConnAssumption DEF IInv, TypeOK, ConnLimit
<1>2. IInv => AllAccountedFor
  BY <1>1 DEF IInv, Usage, NoLeakedConnection, AllAccountedFor
<1> QED
  BY <1>2, SpecKeepsIInv, PTL

-----------------------------------------------------------------------------
(* The pool implements ConnLease, with Free as idle and conn as lease. *)

leaseVars == <<Free, conn>>

LEMMA GetPopLends ==
  ASSUME IInv, NEW t \in Threads, GetPop(t)
  PROVE  \/ \E c \in Conns : Lease!Lend(t, c)
         \/ UNCHANGED leaseVars
PROOF
<1> DEFINE h == Head(m_free_list)
<1>1. /\ m_free_list \in Seq(Conns \cup {NULL}) /\ m_free_list # <<>>
      /\ NoRepeats(m_free_list)
  BY DEF IInv, TypeOK, ExclusiveUse, NoRepeats, GetPop
<1>2. /\ h \in Conns \cup {NULL} /\ h \in Range(m_free_list)
      /\ Range(Tail(m_free_list)) = Range(m_free_list) \ {h}
  BY <1>1, HeadTailProperties, TailLosesHead
<1>3. /\ m_free_list' = Tail(m_free_list) /\ conn' = [conn EXCEPT ![t] = h]
      /\ conn[t] = NULL /\ conn \in [Threads -> Conns \cup {NULL}]
  BY DEF IInv, TypeOK, Usage, GetPop, GetReturn, PoppedList
<1> HIDE DEF h
<1>4. Free' = Free \ {h}
  BY <1>2, <1>3 DEF Free
<1>5. CASE h = NULL
  BY <1>3, <1>4, <1>5 DEF leaseVars, Free
<1>6. CASE h # NULL
  BY <1>2, <1>3, <1>4, <1>6 DEF Lease!Lend, Free
<1> QED
  BY <1>5, <1>6

LEMMA GetConnectLends ==
  ASSUME IInv, NEW t \in Threads, NEW c \in Conns, GetConnect(t, c)
  PROVE  Lease!LendNew(t, c)
PROOF
<1>1. /\ conn[t] = NULL /\ conn' = [conn EXCEPT ![t] = c]
      /\ m_free_list = <<>> /\ m_free_list' = m_free_list /\ c \notin live
  BY DEF IInv, Usage, GetConnect, GetReturn
<1>2. Free = {} /\ Free' = Free
  BY <1>1 DEF Free, Range
<1>3. c \notin Lease!Leased
  <2>1. phase = "ready"
    BY DEF IInv, Usage, GetConnect
  <2> QED
    BY <1>1, <2>1 DEF IInv, ConnAccounting, Held, Lease!Leased
<1> QED
  BY <1>1, <1>2, <1>3 DEF Lease!LendNew

LEMMA RelConnGivesBack ==
  ASSUME IInv, NEW t \in Threads, RelConn(t)
  PROVE  Lease!GiveBack(t) \/ UNCHANGED leaseVars
PROOF
<1> DEFINE c == conn[t]
<1>1. /\ m_free_list \in Seq(Conns \cup {NULL}) /\ c \in Conns \cup {NULL}
      /\ conn \in [Threads -> Conns \cup {NULL}]
      /\ m_free_list' = Returned(c) /\ conn' = [conn EXCEPT ![t] = NULL]
  BY DEF IInv, TypeOK, RelConn
<1> HIDE DEF c
<1>2. Range(m_free_list') = Range(m_free_list) \cup {c}
  BY <1>1, RangeOfAppend DEF Returned
<1>3. Free' = Free \cup ({c} \ {NULL})
  BY <1>2 DEF Free
<1>4. CASE c = NULL
  BY <1>1, <1>3, <1>4 DEF leaseVars, c
<1>5. CASE c # NULL
  BY <1>1, <1>3, <1>5 DEF Lease!GiveBack, c
<1> QED
  BY <1>4, <1>5

LEMMA NextLends == IInv /\ [Next]_vars => [Lease!LeaseNext]_leaseVars
PROOF
<1> SUFFICES ASSUME IInv, [Next]_vars  PROVE Lease!LeaseNext \/ UNCHANGED leaseVars
  OBVIOUS
<1>1. ASSUME NEW c \in Conns, PoolInit(c)  PROVE Lease!OpenIdle(c)
  <2>1. /\ m_free_list = <<>> /\ m_free_list' = <<c>> /\ conn' = conn
        /\ \A t \in Threads : conn[t] = NULL
    BY <1>1 DEF IInv, TypeOK, Usage, PoolInit
  <2>2. Free = {} /\ Free' = {c}
    BY <2>1, ConnAssumption DEF Free, Range
  <2> QED
    BY <2>1, <2>2, ConnAssumption DEF Lease!OpenIdle, Lease!Leased
<1>2. CASE UsersDone /\ PoolDelete
  <2>1. /\ m_free_list' = <<>> /\ conn' = conn
        /\ \A t \in Threads : conn[t] = NULL
    BY <1>2 DEF IInv, Usage, UsersDone, PoolDelete
  <2>2. Free' = {}
    BY <2>1 DEF Free, Range
  <2>3. Lease!CloseAll
    BY <2>1, <2>2 DEF Lease!CloseAll, Lease!Leased
  <2> QED
    BY <2>3 DEF Lease!LeaseNext
<1>3. ASSUME NEW t \in Threads, GetPop(t)  PROVE Lease!LeaseNext \/ UNCHANGED leaseVars
  BY <1>3, GetPopLends DEF Lease!LeaseNext
<1>4. ASSUME NEW t \in Threads, NEW c \in Conns, GetConnect(t, c)  PROVE Lease!LeaseNext
  BY <1>4, GetConnectLends DEF Lease!LeaseNext
<1>5. ASSUME NEW t \in Threads, RelConn(t)  PROVE Lease!LeaseNext \/ UNCHANGED leaseVars
  BY <1>5, RelConnGivesBack DEF Lease!LeaseNext
(* The failed connect leaves the NULL that conn[t] was. *)
<1>6. ASSUME NEW t \in Threads, GetConnectFail(t)  PROVE UNCHANGED leaseVars
  BY <1>6 DEF IInv, TypeOK, Usage, GetConnectFail, GetReturn, poolVars, leaseVars, Free
<1>7. ASSUME NEW t \in Threads,
             GetCall(t) \/ GetWait(t) \/ NothingToRelease(t) \/ SpuriousWakeup(t)
      PROVE  UNCHANGED leaseVars
  BY <1>7 DEF GetCall, GetWait, NothingToRelease, SpuriousWakeup, poolVars, leaseVars, Free
<1>8. CASE PoolInitFail \/ UNCHANGED vars
  BY <1>8 DEF PoolInitFail, vars, poolVars, leaseVars, Free
<1> QED
  BY <1>1, <1>2, <1>3, <1>4, <1>5, <1>6, <1>7, <1>8
     DEF Next, ThreadStep, GetStep, Lease!LeaseNext

(* To its users the pool is a ConnLease: it lends a connection to one       *)
(* thread at a time and closes none that is lent.                           *)
THEOREM PoolImplementsLease == Spec => LeaseSpec
PROOF
<1>1. Init => Lease!LeaseInit
  <2>1. Range(<<>>) = {}
    BY DEF Range
  <2> QED
    BY <2>1 DEF Init, Free, Lease!LeaseInit
<1>2. IInv /\ [Next]_vars => [Lease!LeaseNext]_(Lease!leaseVars)
  BY NextLends DEF leaseVars, Lease!leaseVars
<1> QED
  BY <1>1, <1>2, SpecKeepsIInv, PTL DEF Spec, LeaseSpec, Lease!LeaseSpec

-----------------------------------------------------------------------------
(* With callers that never release NULL, NULL never enters the list. *)

LEMMA ListStaysClean ==
  NullReleasers = {} /\ IInv /\ [Next]_vars
    /\ NULL \notin Range(m_free_list) => NULL \notin Range(m_free_list')
PROOF
<1> SUFFICES ASSUME NullReleasers = {}, IInv, [Next]_vars, NULL \notin Range(m_free_list)
             PROVE  NULL \notin Range(m_free_list')
  OBVIOUS
<1>1. ASSUME NEW c \in Conns, PoolInit(c)  PROVE NULL \notin Range(m_free_list')
  <2>1. Range(m_free_list') = Range(m_free_list) \cup {c}
    BY <1>1, RangeOfAppend DEF IInv, TypeOK, PoolInit
  <2> QED
    BY <2>1, ConnAssumption
<1>2. CASE PoolDelete
  BY <1>2 DEF PoolDelete, Range
<1>3. ASSUME NEW t \in Threads, GetPop(t)  PROVE NULL \notin Range(m_free_list')
  BY <1>3, TailLosesHead DEF IInv, TypeOK, ExclusiveUse, NoRepeats, GetPop,
         PoppedList
<1>4. ASSUME NEW t \in Threads, RelConn(t)  PROVE NULL \notin Range(m_free_list')
  <2>1. conn[t] # NULL /\ conn[t] \in Conns \cup {NULL}
    BY <1>4 DEF IInv, TypeOK, RelConn, MayRelease
  <2>2. m_free_list' \in {m_free_list, Append(m_free_list, conn[t])}
    BY <1>4 DEF RelConn, Returned
  <2>3. Range(Append(m_free_list, conn[t])) = Range(m_free_list) \cup {conn[t]}
    BY <2>1, RangeOfAppend DEF IInv, TypeOK
  <2> QED
    BY <2>1, <2>2, <2>3
<1>5. CASE PoolInitFail \/ UNCHANGED vars
  BY <1>5 DEF PoolInitFail, poolVars, vars
<1>6. ASSUME NEW t \in Threads,
             \/ GetCall(t) \/ GetWait(t) \/ GetConnectFail(t) \/ NothingToRelease(t)
             \/ SpuriousWakeup(t) \/ \E c \in Conns : GetConnect(t, c)
      PROVE  NULL \notin Range(m_free_list')
  BY <1>6 DEF GetCall, GetWait, GetConnectFail, NothingToRelease, SpuriousWakeup,
     GetConnect, poolVars
<1> QED
  BY <1>1, <1>2, <1>3, <1>4, <1>5, <1>6 DEF Next, ThreadStep, GetStep

(* Then GetDBConn answers NULL only to a thread whose own connect failed.   *)
THEOREM CarefulCallersShareNoFailure ==
  NullReleasers = {} /\ Spec => NullOnlyOnFailure
PROOF
<1> SUFFICES ASSUME NullReleasers = {}  PROVE Spec => NullOnlyOnFailure
  OBVIOUS
<1> DEFINE Clean == NULL \notin Range(m_free_list)
<1>1. Init => Clean
  BY DEF Init, Range
<1>2. IInv /\ Clean /\ [Next]_vars => Clean'
  BY ListStaysClean
<1>3. IInv /\ Clean /\ [Next]_vars =>
        [\A t \in Threads :
           pc[t] = "get" /\ pc'[t] = "using" /\ conn'[t] = NULL
             => m_free_list = <<>> /\ ~AtLimit]_vars
  <2> SUFFICES ASSUME IInv, Clean, Next, NEW t \in Threads,
                      pc[t] = "get", pc'[t] = "using", conn'[t] = NULL
               PROVE  m_free_list = <<>> /\ ~AtLimit
    OBVIOUS
  <2>1. ASSUME NEW u \in Threads, GetPop(u)  PROVE FALSE
    <3>1. u = t /\ conn'[t] = Head(m_free_list)
      BY <2>1 DEF IInv, TypeOK, GetPop, GetReturn
    <3>2. Head(m_free_list) \in Range(m_free_list)
      BY <2>1, TailLosesHead DEF IInv, TypeOK, ExclusiveUse, NoRepeats, GetPop
    <3> QED
      BY <3>1, <3>2
  <2>2. ASSUME NEW u \in Threads, GetConnectFail(u) \/ \E c \in Conns : GetConnect(u, c)
        PROVE  m_free_list = <<>> /\ ~AtLimit
    BY <2>2 DEF GetConnectFail, GetConnect
  <2>3. ASSUME NEW u \in Threads,
               \/ GetCall(u) \/ GetWait(u) \/ SpuriousWakeup(u)
               \/ RelConn(u) \/ NothingToRelease(u)
        PROVE  FALSE
    BY <2>3 DEF IInv, TypeOK, GetCall, GetWait, SpuriousWakeup, RelConn, Signalled,
       NothingToRelease
  <2>4. PoolInitFail \/ PoolDelete \/ (\E c \in Conns : PoolInit(c)) => FALSE
    BY DEF PoolInitFail, PoolDelete, PoolInit
  <2> QED
    BY <2>1, <2>2, <2>3, <2>4 DEF Next, ThreadStep, GetStep
<1> HIDE DEF Clean
<1> QED
  BY <1>1, <1>2, <1>3, SpecKeepsIInv, PTL DEF Spec, NullOnlyOnFailure
=============================================================================
