--------------------------- MODULE DBClientProofs ---------------------------
(***************************************************************************)
(* Proofs about DBClient for any number of threads and connections, any    *)
(* plans and any number of broken links and server stops.                  *)
(***************************************************************************)
EXTENDS DBClient, TLAPS

Steps == {"start", "hold", "send", "execute", "close", "done"}

(* The types of what the argument is about. *)
Typed ==
  /\ idle \subseteq Conns /\ lease \in [Threads -> Conns \cup {NULL}]
  /\ step \in [Threads -> Steps]
  /\ call = [t \in Threads |-> call[t]]
  /\ troubles \in Nat

(* A connection is lent to one thread, and no call is made without one. *)
OneUser ==
  /\ \A t, u \in Threads : lease[t] = lease[u] /\ lease[t] # NULL => t = u
  /\ \A t \in Threads : lease[t] \notin idle
  /\ \A t \in Threads : step[t] \notin {"start", "done"} => lease[t] \in Conns

(* What the ping has achieved, unless the link broke after it or the server *)
(* was down: the link is up, or libmysql is free to replace it.             *)
PingHelped ==
  \A t \in Threads :
    /\ step[t] = "send" /\ t \notin hurt =>
         lease[t] \in linked \/ (lease[t] \notin inTrans /\ up)
    /\ step[t] = "execute" /\ t \notin hurt => lease[t] \in linked

(* What a call's record says at each step of the thread. *)
Told(r, s) ==
  /\ s = "start" => r.op = "none"
  /\ s \in {"execute", "close"} => r.op = "insert"

CallsTold == \A t \in Threads : Told(call[t], step[t])

IInv ==
  /\ Typed
  /\ OneUser
  /\ PingHelped
  /\ CallsTold
  /\ StaleLinksHeal

-----------------------------------------------------------------------------
(* A command changes the link and the belief of its own connection only,    *)
(* gets an answer over a link, and none only if there is none or it breaks. *)
LEMMA TransmitTouchesOne ==
  ASSUME troubles \in Nat, NEW c, NEW text, NEW answer, NEW affected,
         Transmit(c, text, answer, affected)
  PROVE  /\ \A d : d # c => (d \in linked' <=> d \in linked)
         /\ \A d : d # c => (d \in inTrans' <=> d \in inTrans)
         /\ answer = "ok" => c \in linked'
         /\ answer = "none" => c \notin Relinked(c) \/ troubles' # troubles
         /\ troubles' \in Nat
PROOF
<1>1. \A d : d # c => (d \in Relinked(c) <=> d \in linked)
  BY DEF Relinked
<1>2. \A d : d # c => (d \in NoLongerBelieved(c) <=> d \in inTrans)
  BY DEF NoLongerBelieved
<1>3. \A d : d # c => (d \in Believed(server', c) <=> d \in inTrans)
  BY DEF Believed
<1> QED
  BY <1>1, <1>2, <1>3 DEF Transmit

LEMMA NotedCall ==
  ASSUME NEW t, NEW answer, NEW affected, Noted(t, answer, affected)
  PROVE  /\ call' = [call EXCEPT ![t] =
              [op |-> call[t].op, answer |-> answer, result |-> Result(call[t].op, answer, affected)]]
         /\ hurt' = IF troubles' = troubles THEN hurt ELSE hurt \cup {t}
PROOF
  BY DEF Noted

(* A thread that goes on with its call leaves the others as they were. *)
LEMMA OneGoesOn ==
  ASSUME IInv, NEW t \in Threads, step[t] \notin {"start", "done"},
         NEW s \in Steps \ {"start"}, NEW r,
         step' = [step EXCEPT ![t] = s], call' = [call EXCEPT ![t] = r],
         UNCHANGED <<idle, lease, up>>, troubles' \in Nat,
         \A u : u # t => (u \in hurt' <=> u \in hurt),
         \A d : d # lease[t] => /\ d \in linked' <=> d \in linked
                                /\ d \in inTrans' <=> d \in inTrans,
         s = "send" /\ t \notin hurt' => lease[t] \in linked' \/ (lease[t] \notin inTrans' /\ up),
         s = "execute" /\ t \notin hurt' => lease[t] \in linked',
         Told(r, s),
         s \in {"hold", "close"} /\ r.op # "none" /\ r.answer = "none" => t \in hurt'
  PROVE  IInv'
PROOF
<1>1. /\ \A u \in Threads : step'[u] = IF u = t THEN s ELSE step[u]
      /\ \A u \in Threads : call'[u] = IF u = t THEN r ELSE call[u]
      /\ call' = [u \in Threads |-> call'[u]]
  BY DEF IInv, Typed
<1>2. Typed'
  BY <1>1 DEF IInv, Typed
<1>3. OneUser'
  BY <1>1 DEF IInv, OneUser
<1>4. \A u \in Threads : u # t /\ step[u] \notin {"start", "done"} => lease[u] # lease[t]
  BY LeaseAssumption DEF IInv, OneUser
<1>5. PingHelped'
  BY <1>1, <1>4 DEF IInv, PingHelped
<1>6. StaleLinksHeal'
  BY <1>1 DEF IInv, StaleLinksHeal
<1>7. CallsTold'
  BY <1>1 DEF IInv, CallsTold
<1> QED
  BY <1>2, <1>3, <1>5, <1>6, <1>7 DEF IInv

-----------------------------------------------------------------------------
LEMMA GetDBConnKeeps ==
  ASSUME IInv, NEW t \in Threads, GetDBConn(t)
  PROVE  IInv'
PROOF
<1>1. /\ step[t] = "start" /\ UNCHANGED <<inTrans, up, troubles, call, hurt>>
      /\ linked \subseteq linked'
      /\ \/ step' = [step EXCEPT ![t] = "hold"]
         \/ step' = [step EXCEPT ![t] = "done"]
  BY DEF GetDBConn, envVars, history
<1>2. \/ \E c \in Conns : /\ lease' = [lease EXCEPT ![t] = c] /\ idle' \subseteq idle
                          /\ c \notin idle' /\ \A u \in Threads : lease[u] # c
      \/ lease' = lease /\ idle' = idle /\ step' = [step EXCEPT ![t] = "done"]
  BY LeaseAssumption DEF GetDBConn, poolVars, IInv, OneUser, Pool!Lend, Pool!LendNew, Pool!Leased
<1>3. \A u \in Threads : u # t => step'[u] = step[u] /\ lease'[u] = lease[u]
  BY <1>1, <1>2 DEF IInv, Typed
<1>4. step'[t] = "done" \/ (step'[t] = "hold" /\ lease'[t] \in Conns)
  BY <1>1, <1>2 DEF IInv, Typed
<1>5. Typed'
  BY <1>1, <1>2 DEF IInv, Typed, Steps
<1>6. OneUser'
  BY <1>1, <1>2, <1>3, <1>4 DEF IInv, Typed, OneUser
<1>7. PingHelped'
  BY <1>1, <1>3, <1>4 DEF IInv, PingHelped
<1>8. StaleLinksHeal'
  BY <1>1, <1>3, <1>4 DEF IInv, CallsTold, Told, StaleLinksHeal
<1>9. CallsTold'
  BY <1>1, <1>3, <1>4 DEF IInv, CallsTold, Told
<1> QED
  BY <1>5, <1>6, <1>7, <1>8, <1>9 DEF IInv

LEMMA PingKeeps ==
  ASSUME IInv, NEW t \in Threads, Ping(t)
  PROVE  IInv'
PROOF
<1> DEFINE c == lease[t]
           r == [NoCall EXCEPT !.op = Head(plan[t].calls)]
<1>1. /\ step[t] = "hold" /\ step' = [step EXCEPT ![t] = "send"]
      /\ call' = [call EXCEPT ![t] = r]
      /\ hurt' = IF up THEN hurt \ {t} ELSE hurt \cup {t}
      /\ linked' = Relinked(c) /\ inTrans' = NoLongerBelieved(c)
      /\ UNCHANGED <<idle, lease, up, troubles>>
  BY DEF Ping, poolVars, envVars
<1>2. t \notin hurt' => c \in linked' \/ (c \notin inTrans' /\ up)
  BY <1>1 DEF Relinked, NoLongerBelieved, ReconnectOption
<1>3. \A d : d # c => /\ d \in linked' <=> d \in linked
                      /\ d \in inTrans' <=> d \in inTrans
  BY <1>1 DEF Relinked, NoLongerBelieved
<1>4. /\ troubles' \in Nat
      /\ \A u : u # t => (u \in hurt' <=> u \in hurt)
  BY <1>1 DEF IInv, Typed
<1>5. Told(r, "send")
  BY DEF Told
<1> HIDE DEF r
<1> QED
  BY <1>1, <1>2, <1>3, <1>4, <1>5, OneGoesOn DEF Steps

(* A command the ping has prepared gets an answer, or the call is hurt.     *)
LEMMA CommandKeeps ==
  ASSUME IInv, NEW t \in Threads, NEW text, NEW answer, NEW affected,
         step[t] = "send" \/ (step[t] = "execute" /\ lease[t] \in linked),
         Transmit(lease[t], text, answer, affected),
         Noted(t, answer, affected),
         UNCHANGED <<idle, lease, up>>,
         NEW s \in {"hold", "execute", "close"}, step' = [step EXCEPT ![t] = s],
         s = "execute" => answer = "ok",
         Told([op |-> call[t].op, answer |-> answer, result |-> Result(call[t].op, answer, affected)], s)
  PROVE  IInv'
PROOF
<1> DEFINE r == [op |-> call[t].op, answer |-> answer, result |-> Result(call[t].op, answer, affected)]
<1>1. /\ call' = [call EXCEPT ![t] = r]
      /\ hurt' = IF troubles' = troubles THEN hurt ELSE hurt \cup {t}
  BY NotedCall
<1>2. /\ \A d : d # lease[t] => /\ d \in linked' <=> d \in linked
                                /\ d \in inTrans' <=> d \in inTrans
      /\ answer = "ok" => lease[t] \in linked'
      /\ answer = "none" => lease[t] \notin Relinked(lease[t]) \/ troubles' # troubles
      /\ troubles' \in Nat
  BY TransmitTouchesOne DEF IInv, Typed
<1>3. t \notin hurt => lease[t] \in Relinked(lease[t])
  BY DEF IInv, PingHelped, Relinked, ReconnectOption
<1>4. r.answer = "none" => t \in hurt'
  <2>1. r.answer = answer
    OBVIOUS
  <2> HIDE DEF r
  <2> QED
    BY <1>1, <1>2, <1>3, <2>1
<1>5. /\ \A u : u # t => (u \in hurt' <=> u \in hurt)
      /\ s \in Steps \ {"start"} /\ s # "send" /\ (s = "execute" => lease[t] \in linked')
  BY <1>1, <1>2 DEF Steps
<1>6. Told(r, s)
  OBVIOUS
<1> HIDE DEF r
<1> QED
  BY <1>1, <1>2, <1>4, <1>5, <1>6, OneGoesOn

LEMMA SendKeeps ==
  ASSUME IInv, NEW t \in Threads, Send(t, Ops \ {"insert"})
  PROVE  IInv'
PROOF
<1>1. PICK answer \in {"none", "refused", "ok"}, affected \in {0, 1} :
         /\ Transmit(lease[t], Text(call[t].op), answer, affected)
         /\ Noted(t, answer, affected)
  BY DEF Send
<1>2. /\ step[t] = "send" /\ step' = [step EXCEPT ![t] = "hold"]
      /\ UNCHANGED <<idle, lease, up>>
  BY DEF Send, NextCall, poolVars
<1> DEFINE r == [op |-> call[t].op, answer |-> answer, result |-> Result(call[t].op, answer, affected)]
<1>3. Told(r, "hold")
  BY DEF Told
<1> QED
  BY <1>1, <1>2, <1>3, CommandKeeps

LEMMA StmtPrepareKeeps ==
  ASSUME IInv, NEW t \in Threads, StmtPrepare(t)
  PROVE  IInv'
PROOF
<1>1. PICK answer \in {"none", "refused", "ok"}, affected \in {0, 1} :
         /\ Transmit(lease[t], "prepare", answer, affected)
         /\ Noted(t, answer, affected)
         /\ step' = [step EXCEPT ![t] = IF answer = "ok" THEN "execute" ELSE "close"]
  BY DEF StmtPrepare
<1>2. step[t] = "send" /\ call[t].op = "insert" /\ UNCHANGED <<idle, lease, up>>
  BY DEF StmtPrepare, poolVars
<1> DEFINE r == [op |-> call[t].op, answer |-> answer, result |-> Result(call[t].op, answer, affected)]
<1>3. Told(r, "execute") /\ Told(r, "close")
  BY <1>2 DEF IInv, CallsTold, Told
<1>4. CASE answer = "ok"
  <2>1. /\ Transmit(lease[t], "prepare", answer, affected)
        /\ Noted(t, answer, affected)
        /\ step' = [step EXCEPT ![t] = "execute"]
    BY <1>1, <1>4
  <2> QED
    BY <1>2, <1>3, <1>4, <2>1, CommandKeeps
<1>5. CASE answer # "ok"
  <2>1. /\ Transmit(lease[t], "prepare", answer, affected)
        /\ Noted(t, answer, affected)
        /\ step' = [step EXCEPT ![t] = "close"]
    BY <1>1, <1>5
  <2> QED
    BY <1>2, <1>3, <1>5, <2>1, CommandKeeps
<1> QED
  BY <1>4, <1>5

LEMMA StmtExecuteKeeps ==
  ASSUME IInv, NEW t \in Threads, StmtExecute(t)
  PROVE  IInv'
PROOF
<1>1. /\ step[t] = "execute" /\ step' = [step EXCEPT ![t] = "close"]
      /\ UNCHANGED <<idle, lease, up>>
  BY DEF StmtExecute, poolVars
<1>2. ASSUME NEW answer, NEW affected, lease[t] \in linked,
             Transmit(lease[t], "insert", answer, affected),
             Noted(t, answer, affected)
      PROVE  IInv'
  <2> DEFINE r == [op |-> call[t].op, answer |-> answer, result |-> Result(call[t].op, answer, affected)]
  <2>1. Told(r, "close")
    BY <1>1 DEF IInv, CallsTold, Told
  <2> QED
    BY <1>1, <1>2, <2>1, CommandKeeps
<1>3. ASSUME lease[t] \notin linked, linked' = Relinked(lease[t]),
             inTrans' = NoLongerBelieved(lease[t]), troubles' = troubles,
             Noted(t, "none", 0)
      PROVE  IInv'
  <2> DEFINE r == [op |-> call[t].op, answer |-> "none", result |-> Result(call[t].op, "none", 0)]
  <2>1. call' = [call EXCEPT ![t] = r] /\ hurt' = hurt
    BY <1>3, NotedCall
  <2>2. \A d : d # lease[t] => /\ d \in linked' <=> d \in linked
                               /\ d \in inTrans' <=> d \in inTrans
    BY <1>3 DEF Relinked, NoLongerBelieved
  <2>3. t \in hurt /\ troubles' \in Nat
    BY <1>1, <1>3 DEF IInv, Typed, PingHelped
  <2>4. Told(r, "close")
    BY <1>1 DEF IInv, CallsTold, Told
  <2> HIDE DEF r
  <2> QED
    BY <1>1, <2>1, <2>2, <2>3, <2>4, OneGoesOn DEF Steps
<1> QED
  BY <1>2, <1>3 DEF StmtExecute

LEMMA StmtCloseKeeps ==
  ASSUME IInv, NEW t \in Threads, StmtClose(t)
  PROVE  IInv'
PROOF
<1>1. /\ step[t] = "close" /\ step' = [step EXCEPT ![t] = "hold"]
      /\ UNCHANGED <<idle, lease, up, troubles, linked, inTrans, call, hurt>>
  BY DEF StmtClose, NextCall, poolVars, envVars, history
<1>2. call' = [call EXCEPT ![t] = call[t]]
  BY <1>1 DEF IInv, Typed
<1>3. /\ troubles' \in Nat
      /\ call[t].op # "none" /\ call[t].answer = "none" => t \in hurt'
  BY <1>1 DEF IInv, Typed, StaleLinksHeal
<1>4. Told(call[t], "hold")
  BY <1>1 DEF IInv, CallsTold, Told
<1> QED
  BY <1>1, <1>2, <1>3, <1>4, OneGoesOn DEF Steps

LEMMA RelConnKeeps ==
  ASSUME IInv, NEW t \in Threads, RelConn(t)
  PROVE  IInv'
PROOF
<1>1. /\ step[t] = "hold" /\ step' = [step EXCEPT ![t] = "done"]
      /\ UNCHANGED <<linked, inTrans, up, troubles, call, hurt>>
  BY DEF RelConn, connVars, envVars, history
<1>2. \/ lease' = lease /\ idle' = idle
      \/ lease' = [lease EXCEPT ![t] = NULL] /\ idle' = idle \cup {lease[t]}
  BY DEF RelConn, poolVars, Pool!GiveBack
<1>3. /\ \A u \in Threads : u # t => step'[u] = step[u] /\ lease'[u] = lease[u]
      /\ step'[t] = "done"
  BY <1>1, <1>2 DEF IInv, Typed
<1>4. lease[t] \in Conns
  BY <1>1 DEF IInv, OneUser
<1>5. Typed'
  BY <1>1, <1>2, <1>4 DEF IInv, Typed, Steps
<1>6. OneUser'
  BY <1>1, <1>2, <1>3, <1>4, LeaseAssumption DEF IInv, Typed, OneUser
<1>7. PingHelped'
  BY <1>1, <1>3 DEF IInv, PingHelped
<1>8. StaleLinksHeal'
  BY <1>1, <1>3 DEF IInv, StaleLinksHeal
<1>9. CallsTold'
  BY <1>1, <1>3 DEF IInv, CallsTold, Told
<1> QED
  BY <1>5, <1>6, <1>7, <1>8, <1>9 DEF IInv

-----------------------------------------------------------------------------
(* Whatever happens to links and server is noted in the calls it hurts.     *)
LEMMA TroubleKeeps ==
  ASSUME IInv, NEW cs \in SUBSET Conns, Hurt(cs),
         \A d \in Conns \ cs : d \in linked => d \in linked',
         up' = up \/ cs = Conns,
         UNCHANGED <<idle, lease, step, inTrans, call>>, troubles' \in Nat
  PROVE  IInv'
PROOF
<1>1. hurt' = hurt \cup {t \in Threads : lease[t] \in cs /\ InCall(t)}
  BY DEF Hurt
<1>2. Typed' /\ OneUser'
  BY DEF IInv, Typed, OneUser
<1>3. PingHelped'
  <2> SUFFICES ASSUME NEW t \in Threads, step[t] \in {"send", "execute"}, t \notin hurt'
               PROVE  /\ step[t] = "send" =>
                           lease[t] \in linked' \/ (lease[t] \notin inTrans' /\ up')
                      /\ step[t] = "execute" => lease[t] \in linked'
    BY DEF PingHelped
  <2>1. t \notin hurt /\ lease[t] \notin cs /\ lease[t] \in Conns
    BY <1>1 DEF InCall, IInv, OneUser
  <2> QED
    BY <2>1 DEF IInv, PingHelped
<1>4. StaleLinksHeal' /\ CallsTold'
  BY <1>1 DEF IInv, StaleLinksHeal, CallsTold
<1> QED
  BY <1>2, <1>3, <1>4 DEF IInv

LEMMA LinkBreaksKeeps ==
  ASSUME IInv, NEW c \in Conns, LinkBreaks(c)
  PROVE  IInv'
PROOF
<1>1. /\ Hurt({c}) /\ linked' = linked \ {c} /\ troubles' = troubles + 1
      /\ UNCHANGED <<idle, lease, step, inTrans, call, up>>
  BY DEF LinkBreaks, poolVars
<1>2. troubles' \in Nat
  BY <1>1 DEF IInv, Typed
<1> QED
  BY <1>1, <1>2, TroubleKeeps

LEMMA ServerStopsKeeps ==
  ASSUME IInv, ServerStops
  PROVE  IInv'
PROOF
<1>1. /\ Hurt(Conns) /\ linked' = {} /\ troubles' = troubles + 1
      /\ UNCHANGED <<idle, lease, step, inTrans, call>>
  BY DEF ServerStops, poolVars
<1>2. troubles' \in Nat
  BY <1>1 DEF IInv, Typed
<1> QED
  BY <1>1, <1>2, TroubleKeeps

LEMMA ServerStartsKeeps ==
  ASSUME IInv, ServerStarts
  PROVE  IInv'
PROOF
<1>1. up' = TRUE /\ UNCHANGED <<idle, lease, step, linked, inTrans, call, hurt, troubles>>
  BY DEF ServerStarts, poolVars, connVars, history
<1> QED
  BY <1>1 DEF IInv, Typed, OneUser, PingHelped, CallsTold, StaleLinksHeal

-----------------------------------------------------------------------------
LEMMA InitEstablishesIInv == Init => IInv
PROOF
<1> SUFFICES ASSUME Init  PROVE IInv
  OBVIOUS
<1>1. /\ idle = {} /\ lease = [t \in Threads |-> NULL]
      /\ step = [t \in Threads |-> "start"] /\ call = [t \in Threads |-> NoCall]
      /\ linked = {} /\ troubles = 0
  BY DEF Init, Pool!LeaseInit
<1>2. Typed
  BY <1>1 DEF Typed, Steps
<1>3. Told(NoCall, "start")
  BY DEF NoCall, Told
<1>4. OneUser
  BY <1>1 DEF OneUser
<1>5. PingHelped /\ StaleLinksHeal /\ CallsTold
  BY <1>1, <1>3 DEF PingHelped, StaleLinksHeal, CallsTold
<1> QED
  BY <1>2, <1>4, <1>5 DEF IInv

LEMMA NextKeepsIInv == IInv /\ [Next]_vars => IInv'
PROOF
<1> SUFFICES ASSUME IInv, [Next]_vars  PROVE IInv'
  OBVIOUS
<1>1. ASSUME NEW t \in Threads, ThreadStep(t)  PROVE IInv'
  <2>1. ExecuteDropOrCreate(t) \/ ExecuteUpdate(t) \/ ExecuteQuery(t) \/ Transaction(t)
          => Send(t, Ops \ {"insert"})
    BY DEF ExecuteDropOrCreate, ExecuteUpdate, ExecuteQuery, Transaction, Send, Ops
  <2> QED
    BY <1>1, <2>1, GetDBConnKeeps, PingKeeps, SendKeeps, StmtPrepareKeeps, StmtExecuteKeeps,
       StmtCloseKeeps, RelConnKeeps
       DEF ThreadStep, insertUser
<1>2. ASSUME NEW c \in Conns, LinkBreaks(c)  PROVE IInv'
  BY <1>2, LinkBreaksKeeps
<1>3. CASE ServerStops \/ ServerStarts
  BY <1>3, ServerStopsKeeps, ServerStartsKeeps
<1>4. CASE UNCHANGED vars
  BY <1>4 DEF vars, poolVars, connVars, envVars, history, IInv, Typed, OneUser, PingHelped,
     CallsTold, StaleLinksHeal
<1> QED
  BY <1>1, <1>2, <1>3, <1>4 DEF Next, Terminated

LEMMA SpecKeepsIInv == Spec => []IInv
PROOF
<1> QED
  BY InitEstablishesIInv, NextKeepsIInv, PTL DEF Spec

(* No call goes without an answer for what happened before it: links that   *)
(* broke in the pool, in a transaction or while the server was down are     *)
(* replaced by its ping, or by the statement after it.                      *)
THEOREM StaleLinksHealHolds == Spec => []StaleLinksHeal
PROOF
<1>1. IInv => StaleLinksHeal
  BY DEF IInv
<1> QED
  BY <1>1, SpecKeepsIInv, PTL

(* Built on ConnLease, the calls of two threads never meet on a connection. *)
THEOREM OneUserHolds == Spec => []OneUser
PROOF
<1>1. IInv => OneUser
  BY DEF IInv
<1> QED
  BY <1>1, SpecKeepsIInv, PTL

-----------------------------------------------------------------------------
(* Sessions and transactions.  What the server keeps, for any number of     *)
(* sessions: only open transactions remember rows, no two the same row, and *)
(* rows not yet numbered are absent.                                        *)
Images == [Ids -> RowValues \cup {"kept"}]

Servers ==
  [table : BOOLEAN, rows : [Ids -> RowValues], next : Nat \ {0},
   trans : SUBSET Conns, undo : [Conns -> Images]]

Apart(s) ==
  /\ \A c \in Conns, i \in Ids : s.undo[c][i] # "kept" => c \in s.trans /\ i < s.next
  /\ \A c, d \in Conns, i \in Ids :
       s.undo[c][i] # "kept" /\ s.undo[d][i] # "kept" => c = d
  /\ \A i \in Ids : i >= s.next => s.rows[i] = "absent"

(* What one session does leaves the others and the rows they changed alone. *)
OthersKept(s, r, cs) ==
  \A d \in Conns \ cs :
    /\ d \in r.trans <=> d \in s.trans
    /\ r.undo[d] = s.undo[d]
    /\ \A i \in Ids : s.undo[d][i] # "kept" => r.rows[i] = s.rows[i]

LEMMA IdsAreNumbers == Ids \subseteq Nat \ {0} /\ User \in Ids
PROOF
  BY BoundAssumption DEF Ids, User

LEMMA CommittedKeeps ==
  ASSUME NEW s \in Servers, Apart(s), NEW c \in Conns
  PROVE  /\ Committed(s, c) \in Servers /\ Apart(Committed(s, c))
         /\ OthersKept(s, Committed(s, c), {c})
         /\ Committed(s, c).trans = s.trans \ {c}
         /\ Committed(s, c).rows = s.rows
         /\ Committed(s, c).undo[c] = Untouched
PROOF
<1> DEFINE r == Committed(s, c)
<1>1. /\ r.table = s.table /\ r.rows = s.rows /\ r.next = s.next
      /\ r.trans = s.trans \ {c} /\ r.undo = [s.undo EXCEPT ![c] = Untouched]
  BY DEF Committed, Servers
<1>2. Untouched \in Images /\ \A i \in Ids : Untouched[i] = "kept"
  BY DEF Untouched, Images
<1>3. r \in Servers
  BY <1>2 DEF Committed, Servers
<1> HIDE DEF r
<1>4. \A d \in Conns : r.undo[d] = IF d = c THEN Untouched ELSE s.undo[d]
  BY <1>1 DEF Servers
<1>5. Apart(r) /\ OthersKept(s, r, {c})
  BY <1>1, <1>2, <1>4 DEF Apart, OthersKept
<1> QED
  BY <1>1, <1>3, <1>4, <1>5 DEF r

LEMMA EndedKeeps ==
  ASSUME NEW s \in Servers, Apart(s), NEW cs \in SUBSET Conns
  PROVE  /\ Ended(s, cs) \in Servers /\ Apart(Ended(s, cs))
         /\ OthersKept(s, Ended(s, cs), cs)
         /\ Ended(s, cs).trans = s.trans \ cs
         /\ \A c \in cs, i \in Ids : s.undo[c][i] # "kept" => Ended(s, cs).rows[i] = s.undo[c][i]
PROOF
<1> DEFINE r == Ended(s, cs)
           undoing(i) == {c \in cs : i \in Changed(s, c)}
<1>1. /\ r.table = s.table /\ r.next = s.next /\ r.trans = s.trans \ cs
      /\ r.rows = [i \in Ids |-> IF undoing(i) = {} THEN s.rows[i]
                                 ELSE s.undo[CHOOSE c \in undoing(i) : TRUE][i]]
      /\ r.undo = [c \in Conns |-> IF c \in cs THEN Untouched ELSE s.undo[c]]
  BY DEF Ended, Servers
<1>2. Untouched \in Images /\ \A i \in Ids : Untouched[i] = "kept"
  BY DEF Untouched, Images
<1>3. ASSUME NEW i \in Ids, NEW c \in cs, s.undo[c][i] # "kept"
      PROVE  r.rows[i] = s.undo[c][i] /\ s.undo[c][i] \in RowValues /\ i < s.next
  <2>1. c \in undoing(i) /\ undoing(i) = {c}
    BY <1>3 DEF Changed, Apart
  <2>2. (CHOOSE d \in undoing(i) : TRUE) = c
    BY <2>1
  <2>3. s.undo[c][i] \in RowValues /\ i < s.next
    BY <1>3 DEF Servers, Images, Apart
  <2> QED
    BY <1>1, <2>1, <2>2, <2>3
<1>4. ASSUME NEW i \in Ids, \A c \in cs : s.undo[c][i] = "kept"
      PROVE  r.rows[i] = s.rows[i] /\ s.rows[i] \in RowValues
  <2>1. undoing(i) = {}
    BY <1>4 DEF Changed
  <2> QED
    BY <1>1, <2>1 DEF Servers
<1>5. \A d \in Conns : r.undo[d] = IF d \in cs THEN Untouched ELSE s.undo[d]
  BY <1>1
<1>6. r.rows \in [Ids -> RowValues]
  <2>1. \A i \in Ids : r.rows[i] \in RowValues
    BY <1>3, <1>4
  <2>2. r.rows = [i \in Ids |-> r.rows[i]]
    BY <1>1
  <2> HIDE DEF r
  <2> QED
    BY <2>1, <2>2
<1>7. r \in Servers
  <2>1. r.undo \in [Conns -> Images]
    BY <1>1, <1>2 DEF Servers
  <2> QED
    BY <1>6, <2>1 DEF Ended, Servers
<1> HIDE DEF r
<1>8. Apart(r)
  <2>1. \A i \in Ids : i >= r.next => r.rows[i] = "absent"
    BY <1>1, <1>3, <1>4, IdsAreNumbers DEF Apart, Servers
  <2> QED
    BY <1>1, <1>2, <1>5, <2>1 DEF Apart
<1>9. OthersKept(s, r, cs)
  <2> SUFFICES ASSUME NEW d \in Conns \ cs, NEW i \in Ids, s.undo[d][i] # "kept"
               PROVE  r.rows[i] = s.rows[i]
    BY <1>1, <1>5 DEF OthersKept
  <2>1. \A c \in cs : s.undo[c][i] = "kept"
    BY DEF Apart
  <2> QED
    BY <1>4, <2>1
<1> QED
  BY <1>1, <1>3, <1>7, <1>8, <1>9 DEF r

(* The statements of the methods, each by what it does to its session.      *)
Texts == {"drop", "create", "prepare", "insert", "update", "query", "begin", "commit", "rollback"}

LEMMA ServedCases ==
  ASSUME NEW s, NEW c
  PROVE  /\ Served(s, c, "drop") = Dropped(s, c)
         /\ Served(s, c, "create") = Created(s, c)
         /\ Served(s, c, "insert") = Inserted(s, c)
         /\ Served(s, c, "update") = Updated(s, c)
         /\ Served(s, c, "begin") = [Committed(s, c) EXCEPT !.trans = @ \cup {c}]
         /\ Served(s, c, "commit") = Committed(s, c)
         /\ Served(s, c, "rollback") = RolledBack(s, c)
         /\ Served(s, c, "prepare") = s
         /\ Served(s, c, "query") = s
PROOF
  BY Zenon DEF Served

LEMMA OthersKeptTransitive ==
  ASSUME NEW s, NEW r, NEW q, NEW cs, OthersKept(s, r, cs), OthersKept(r, q, cs)
  PROVE  OthersKept(s, q, cs)
PROOF
  BY DEF OthersKept

(* A row changed for the first time in a transaction is remembered. *)
LEMMA RememberedKeeps ==
  ASSUME NEW s \in Servers, NEW c \in Conns, NEW i \in Ids
  PROVE  /\ Remembered(s, c, i) \in [Conns -> Images]
         /\ \A d \in Conns, k \in Ids :
              Remembered(s, c, i)[d][k] =
                IF d = c /\ k = i /\ c \in s.trans /\ s.undo[c][i] = "kept"
                THEN s.rows[i] ELSE s.undo[d][k]
         /\ \A d \in Conns \ {c} : Remembered(s, c, i)[d] = s.undo[d]
PROOF
  BY DEF Remembered, Servers, Images

LEMMA InsertedKeeps ==
  ASSUME NEW s \in Servers, Apart(s), NEW c \in Conns, s.next <= MaxId
  PROVE  /\ Inserted(s, c) \in Servers /\ Apart(Inserted(s, c))
         /\ OthersKept(s, Inserted(s, c), {c})
         /\ Inserted(s, c).trans = s.trans
         /\ Inserted(s, c).undo = Remembered(s, c, s.next)
         /\ Inserted(s, c).rows = [s.rows EXCEPT ![s.next] = "test"]
PROOF
<1> DEFINE r == Inserted(s, c)
<1>1. /\ r.table = s.table /\ r.rows = [s.rows EXCEPT ![s.next] = "test"]
      /\ r.next = s.next + 1 /\ r.trans = s.trans /\ r.undo = Remembered(s, c, s.next)
  BY DEF Inserted, Servers
<1>2. s.next \in Ids /\ s.next \in Nat
  BY BoundAssumption DEF Ids, Servers
<1>3. \A d \in Conns : s.undo[d][s.next] = "kept"
  BY <1>2 DEF Apart
<1>4. /\ r.undo \in [Conns -> Images]
      /\ \A d \in Conns, k \in Ids :
           r.undo[d][k] = IF d = c /\ k = s.next /\ c \in s.trans /\ s.undo[c][s.next] = "kept"
                          THEN s.rows[s.next] ELSE s.undo[d][k]
      /\ \A d \in Conns \ {c} : r.undo[d] = s.undo[d]
  BY <1>1, <1>2, RememberedKeeps
<1>5. r \in Servers
  <2>1. [s.rows EXCEPT ![s.next] = "test"] \in [Ids -> RowValues] /\ s.next + 1 \in Nat \ {0}
    BY <1>2 DEF Servers, RowValues
  <2>2. Remembered(s, c, s.next) \in [Conns -> Images]
    BY <1>2, RememberedKeeps
  <2> QED
    BY <2>1, <2>2 DEF Inserted, Servers
<1> HIDE DEF r
<1>6. \A i \in Ids : r.rows[i] = IF i = s.next THEN "test" ELSE s.rows[i]
  BY <1>1, <1>2 DEF Servers
<1>7. Apart(r)
  <2>1. \A d \in Conns, i \in Ids : r.undo[d][i] # "kept" => d \in r.trans /\ i < r.next
    BY <1>1, <1>2, <1>4, IdsAreNumbers DEF Apart
  <2>2. \A d, e \in Conns, i \in Ids : r.undo[d][i] # "kept" /\ r.undo[e][i] # "kept" => d = e
    BY <1>3, <1>4 DEF Apart
  <2>3. \A i \in Ids : i >= r.next => r.rows[i] = "absent"
    BY <1>1, <1>2, <1>6, IdsAreNumbers DEF Apart
  <2> QED
    BY <2>1, <2>2, <2>3 DEF Apart
<1>8. OthersKept(s, r, {c})
  BY <1>1, <1>3, <1>4, <1>6 DEF OthersKept
<1> QED
  BY <1>1, <1>5, <1>7, <1>8 DEF r

LEMMA UpdatedKeeps ==
  ASSUME NEW s \in Servers, Apart(s), NEW c \in Conns,
         \A d \in Conns \ {c} : s.undo[d][User] = "kept"
  PROVE  /\ Updated(s, c) \in Servers /\ Apart(Updated(s, c))
         /\ OthersKept(s, Updated(s, c), {c})
         /\ Updated(s, c).trans = s.trans
         /\ \/ Updated(s, c) = s
            \/ /\ Updated(s, c).undo = Remembered(s, c, User)
               /\ Updated(s, c).rows = [s.rows EXCEPT ![User] = "naihan"]
PROOF
<1> DEFINE r == Updated(s, c)
<1>1. CASE s.rows[User] = "absent"
  <2>1. r = s
    BY <1>1 DEF Updated
  <2>2. OthersKept(s, s, {c})
    BY DEF OthersKept
  <2> QED
    BY <2>1, <2>2
<1>2. CASE s.rows[User] # "absent"
  <2>1. /\ r.table = s.table /\ r.rows = [s.rows EXCEPT ![User] = "naihan"]
        /\ r.next = s.next /\ r.trans = s.trans /\ r.undo = Remembered(s, c, User)
    BY <1>2 DEF Updated, Servers
  <2>2. User \in Ids
    BY IdsAreNumbers
  <2>3. /\ r.undo \in [Conns -> Images]
        /\ \A d \in Conns, k \in Ids :
             r.undo[d][k] = IF d = c /\ k = User /\ c \in s.trans /\ s.undo[c][User] = "kept"
                            THEN s.rows[User] ELSE s.undo[d][k]
        /\ \A d \in Conns \ {c} : r.undo[d] = s.undo[d]
    BY <2>1, <2>2, RememberedKeeps
  <2>4. r \in Servers
    <3>1. [s.rows EXCEPT ![User] = "naihan"] \in [Ids -> RowValues]
      BY DEF Servers, RowValues
    <3>2. Remembered(s, c, User) \in [Conns -> Images]
      BY <2>2, RememberedKeeps
    <3> QED
      BY <1>2, <3>1, <3>2 DEF Updated, Servers
  <2> HIDE DEF r
  <2>5. \A i \in Ids : r.rows[i] = IF i = User THEN "naihan" ELSE s.rows[i]
    BY <2>1, <2>2 DEF Servers
  <2>6. User < s.next
    <3>1. s.next \in Nat /\ User \in Nat
      BY DEF Servers, User
    <3> QED
      BY <1>2, <2>2, <3>1 DEF Apart
  <2>7. Apart(r)
    <3>1. \A d \in Conns, i \in Ids : r.undo[d][i] # "kept" => d \in r.trans /\ i < r.next
      BY <2>1, <2>3, <2>6 DEF Apart
    <3>2. \A d, e \in Conns, i \in Ids : r.undo[d][i] # "kept" /\ r.undo[e][i] # "kept" => d = e
      BY <2>3 DEF Apart
    <3>3. \A i \in Ids : i >= r.next => r.rows[i] = "absent"
      BY <1>2, <2>1, <2>5 DEF Apart
    <3> QED
      BY <3>1, <3>2, <3>3 DEF Apart
  <2>8. OthersKept(s, r, {c})
    BY <2>1, <2>3, <2>5 DEF OthersKept
  <2> QED
    BY <2>1, <2>4, <2>7, <2>8 DEF r
<1> QED
  BY <1>1, <1>2

(* Any statement the server accepts and need not wait for. *)
LEMMA ServedKeeps ==
  ASSUME NEW s \in Servers, Apart(s), NEW c \in Conns, NEW text \in Texts,
         ~Blocked(s, c, text), text = "insert" => s.next <= MaxId
  PROVE  /\ Served(s, c, text) \in Servers /\ Apart(Served(s, c, text))
         /\ OthersKept(s, Served(s, c, text), {c})
         /\ c \in Served(s, c, text).trans =>
              text = "begin" \/ (c \in s.trans /\ text \notin {"commit", "rollback"})
         /\ c \in s.trans /\ text \notin {"drop", "create", "commit", "rollback"} =>
              c \in Served(s, c, text).trans
         /\ text = "begin" => /\ c \in Served(s, c, text).trans
                              /\ Changed(Served(s, c, text), c) = {}
         /\ Served(s, c, text).trans \subseteq s.trans \cup {c}
PROOF
<1> DEFINE r == Served(s, c, text)
           q == Committed(s, c)
<1>1. /\ q \in Servers /\ Apart(q) /\ OthersKept(s, q, {c})
      /\ q.trans = s.trans \ {c} /\ q.rows = s.rows
      /\ \A i \in Ids : q.undo[c][i] = "kept"
  BY CommittedKeeps DEF Untouched
<1>2. CASE text = "drop"
  <2>1. r = [q EXCEPT !.table = FALSE, !.rows = NoRows, !.next = User]
    BY <1>2, ServedCases DEF Dropped
  <2> HIDE DEF q
  <2>2. /\ r.table = FALSE /\ r.rows = NoRows /\ r.next = User
        /\ r.trans = q.trans /\ r.undo = q.undo
    BY <1>1, <2>1 DEF Servers
  <2> HIDE DEF r
  <2>3. \A d \in Conns, i \in Ids : d # c => s.undo[d][i] = "kept"
    BY <1>2 DEF Blocked, Changed
  <2>4. \A d \in Conns, i \in Ids : q.undo[d][i] = "kept"
    BY <1>1, <2>3 DEF OthersKept
  <2>5. r \in Servers
    <3>1. NoRows \in [Ids -> RowValues] /\ User \in Nat \ {0}
      BY DEF NoRows, RowValues, User
    <3>2. [q EXCEPT !.table = FALSE, !.rows = NoRows, !.next = User] \in Servers
      BY <1>1, <3>1 DEF Servers
    <3> QED
      BY <2>1, <3>2
  <2>6. Apart(r)
    BY <2>2, <2>4 DEF Apart, NoRows
  <2>7. OthersKept(s, r, {c})
    BY <1>1, <2>2, <2>3 DEF OthersKept
  <2> QED
    BY <1>1, <1>2, <2>2, <2>5, <2>6, <2>7 DEF r
<1>3. CASE text = "create"
  <2>1. r = [q EXCEPT !.table = TRUE]
    BY <1>3, ServedCases DEF Created
  <2> HIDE DEF q
  <2>2. /\ r.table = TRUE /\ r.rows = q.rows /\ r.next = q.next
        /\ r.trans = q.trans /\ r.undo = q.undo
    BY <1>1, <2>1 DEF Servers
  <2> HIDE DEF r
  <2>3. r \in Servers
    BY <1>1, <2>1 DEF Servers
  <2>4. Apart(r) /\ OthersKept(s, r, {c})
    BY <1>1, <2>2 DEF Apart, OthersKept
  <2> QED
    BY <1>1, <1>3, <2>2, <2>3, <2>4 DEF r
<1>4. CASE text = "insert"
  <2>1. r = Inserted(s, c)
    BY <1>4, ServedCases
  <2> HIDE DEF r
  <2>2. /\ r \in Servers /\ Apart(r) /\ OthersKept(s, r, {c}) /\ r.trans = s.trans
    BY <1>4, <2>1, InsertedKeeps
  <2> QED
    BY <1>4, <2>2 DEF r
<1>5. CASE text = "update"
  <2>1. \A d \in Conns \ {c} : s.undo[d][User] = "kept"
    BY <1>5, IdsAreNumbers DEF Blocked, Changed
  <2>2. r = Updated(s, c)
    BY <1>5, ServedCases
  <2> HIDE DEF r
  <2>3. /\ r \in Servers /\ Apart(r) /\ OthersKept(s, r, {c}) /\ r.trans = s.trans
    BY <1>5, <2>1, <2>2, UpdatedKeeps
  <2> QED
    BY <1>5, <2>3 DEF r
<1>6. CASE text = "begin"
  <2>1. r = [q EXCEPT !.trans = @ \cup {c}]
    BY <1>6, ServedCases
  <2> HIDE DEF q
  <2>2. /\ r.table = q.table /\ r.rows = q.rows /\ r.next = q.next
        /\ r.trans = q.trans \cup {c} /\ r.undo = q.undo
    BY <1>1, <2>1 DEF Servers
  <2> HIDE DEF r
  <2>3. r \in Servers
    BY <1>1, <2>1 DEF Servers
  <2>4. Apart(r) /\ OthersKept(s, r, {c})
    BY <1>1, <2>2 DEF Apart, OthersKept
  <2> QED
    BY <1>1, <1>6, <2>2, <2>3, <2>4 DEF r, Changed
<1>7. CASE text = "commit"
  BY <1>1, <1>7, ServedCases
<1>8. CASE text = "rollback"
  <2>1. {c} \in SUBSET Conns
    OBVIOUS
  <2>2. r = Ended(s, {c})
    BY <1>8, ServedCases DEF RolledBack
  <2> HIDE DEF r
  <2> QED
    BY <1>8, <2>1, <2>2, EndedKeeps DEF r
<1>9. CASE text \in {"prepare", "query"}
  BY <1>9, ServedCases DEF OthersKept
<1> QED
  BY <1>2, <1>3, <1>4, <1>5, <1>6, <1>7, <1>8, <1>9 DEF Texts

-----------------------------------------------------------------------------
(* The transactions that are open, seen from the threads.                   *)
Sessions ==
  /\ server \in Servers
  /\ Apart(server)
  /\ server.trans \subseteq linked

Ends(calls) == \E i \in DOMAIN calls : calls[i] \in {"commit", "rollback"}

(* A transaction is open only on a lent connection whose thread will still  *)
(* end it; a statement only in the call that opened it.                     *)
PlansGoOn ==
  /\ plan \in [Threads -> [calls : Seq(Ops), keeps : BOOLEAN]]
  /\ \A t \in Threads :
       /\ EndsTransactions(plan[t].calls)
       /\ step[t] = "start" => lease[t] = NULL
       /\ step[t] \in {"send", "execute", "close"} =>
            plan[t].calls # <<>> /\ call[t].op = Head(plan[t].calls)
       /\ lease[t] \in server.trans => Ends(plan[t].calls)
  /\ \A c \in server.trans : \E t \in Threads : lease[t] = c
  /\ \A c \in stmtOpen : \E t \in Threads : lease[t] = c /\ step[t] \in {"execute", "close"}

(* What a thread's record of its transaction says of the server: the record *)
(* has the first value of every row that changed, and so has the undo log,  *)
(* which may also hold rows written without being changed.                  *)
Txs == [on : BOOLEAN, before : Images]

TxOf(x, s, c) ==
  x.on => /\ c \in s.trans
          /\ \A i \in Ids :
               IF x.before[i] = "kept"
               THEN s.undo[c][i] \in {"kept", s.rows[i]}
               ELSE s.undo[c][i] = x.before[i] /\ x.before[i] \notin {"naihan", s.rows[i]}

TxTold == tx \in [Threads -> Txs] /\ \A t \in Threads : TxOf(tx[t], server, lease[t])

TxInv == Sessions /\ PlansGoOn /\ TxTold

LEMMA TailsEnd ==
  ASSUME NEW calls \in Seq(Ops), calls # <<>>, EndsTransactions(calls)
  PROVE  /\ Tail(calls) \in Seq(Ops)
         /\ EndsTransactions(Tail(calls))
         /\ Head(calls) = "begin" => Ends(Tail(calls))
         /\ Head(calls) \notin {"commit", "rollback"} /\ Ends(calls) => Ends(Tail(calls))
PROOF
<1>1. /\ Tail(calls) \in Seq(Ops) /\ Len(calls) \in Nat \ {0} /\ Len(Tail(calls)) = Len(calls) - 1
      /\ DOMAIN calls = 1..Len(calls) /\ DOMAIN Tail(calls) = 1..(Len(calls) - 1)
      /\ \A k \in 2..Len(calls) : k - 1 \in DOMAIN Tail(calls) /\ Tail(calls)[k - 1] = calls[k]
      /\ \A i \in DOMAIN Tail(calls) : i + 1 \in DOMAIN calls /\ Tail(calls)[i] = calls[i + 1]
      /\ Head(calls) = calls[1]
  OBVIOUS
<1>2. EndsTransactions(Tail(calls))
  <2> SUFFICES ASSUME NEW i \in DOMAIN Tail(calls), Tail(calls)[i] = "begin"
               PROVE  \E k \in (i + 1)..Len(Tail(calls)) : Tail(calls)[k] \in {"commit", "rollback"}
    BY DEF EndsTransactions
  <2>1. PICK k \in (i + 2)..Len(calls) : calls[k] \in {"commit", "rollback"}
    <3>1. i + 1 \in DOMAIN calls /\ calls[i + 1] = "begin" /\ i \in Nat
      BY <1>1
    <3>2. \E k \in ((i + 1) + 1)..Len(calls) : calls[k] \in {"commit", "rollback"}
      BY <3>1 DEF EndsTransactions
    <3> QED
      BY <3>1, <3>2
  <2>2. k - 1 \in (i + 1)..Len(Tail(calls)) /\ Tail(calls)[k - 1] = calls[k]
    BY <1>1
  <2> QED
    BY <2>1, <2>2
<1>3. ASSUME Head(calls) = "begin"  PROVE Ends(Tail(calls))
  <2>1. PICK k \in 2..Len(calls) : calls[k] \in {"commit", "rollback"}
    <3>1. 1 \in DOMAIN calls /\ calls[1] = "begin"
      BY <1>1, <1>3
    <3>2. \E k \in (1 + 1)..Len(calls) : calls[k] \in {"commit", "rollback"}
      BY <3>1 DEF EndsTransactions
    <3> QED
      BY <3>2
  <2> QED
    BY <1>1, <2>1 DEF Ends
<1>4. ASSUME Head(calls) \notin {"commit", "rollback"}, Ends(calls)  PROVE Ends(Tail(calls))
  <2>1. PICK k \in DOMAIN calls : calls[k] \in {"commit", "rollback"}
    BY <1>4 DEF Ends
  <2>2. k \in 2..Len(calls)
    BY <1>1, <1>4, <2>1
  <2> QED
    BY <1>1, <2>1, <2>2 DEF Ends
<1> QED
  BY <1>1, <1>2, <1>3, <1>4

(* What came of a command, for the session that sent it and for the others. *)
LEMMA TransmitServes ==
  ASSUME Sessions, NEW c \in Conns, NEW text \in Texts, text = "insert" => server.next <= MaxId,
         NEW answer, NEW affected, Transmit(c, text, answer, affected)
  PROVE  /\ Sessions'
         /\ OthersKept(server, server', {c})
         /\ \/ answer = "none" /\ c \notin server'.trans
            \/ answer = "refused" /\ server' = server /\ text \notin {"commit", "rollback"}
            \/ answer = "ok" /\ server' = Served(server, c, text)
         /\ c \in server'.trans =>
              text = "begin" \/ (c \in server.trans /\ text \notin {"commit", "rollback"})
PROOF
<1>1. OthersKept(server, server, {c}) /\ {c} \in SUBSET Conns
  BY DEF OthersKept
<1>2. linked \subseteq Relinked(c)
  BY DEF Relinked
<1>3. server \in Servers /\ Apart(server) /\ server.trans \subseteq linked
  BY DEF Sessions
<1>4. CASE /\ c \notin Relinked(c) /\ answer = "none" /\ linked' = linked /\ server' = server
  BY <1>1, <1>2, <1>3, <1>4 DEF Sessions
<1>5. CASE /\ c \in Relinked(c) /\ ~Blocked(server, c, text)
           /\ answer = "ok" /\ linked' = Relinked(c) /\ server' = Served(server, c, text)
  <2>1. /\ server' \in Servers /\ Apart(server') /\ OthersKept(server, server', {c})
        /\ c \in server'.trans =>
             text = "begin" \/ (c \in server.trans /\ text \notin {"commit", "rollback"})
        /\ server'.trans \subseteq server.trans \cup {c}
    BY <1>3, <1>5, ServedKeeps
  <2>2. server'.trans \subseteq linked'
    BY <1>2, <1>3, <1>5, <2>1
  <2> QED
    BY <1>5, <2>1, <2>2 DEF Sessions
<1>6. CASE /\ c \in Relinked(c) /\ (~Accepts(server, text) \/ Blocked(server, c, text))
           /\ answer = "refused" /\ linked' = Relinked(c) /\ server' = server
  <2>1. text \notin {"commit", "rollback"}
    <3>1. Accepts(server, "commit") /\ Accepts(server, "rollback")
      BY Zenon DEF Accepts
    <3>2. ~Blocked(server, c, "commit") /\ ~Blocked(server, c, "rollback")
      BY DEF Blocked
    <3> QED
      BY <1>6, <3>1, <3>2
  <2> QED
    BY <1>1, <1>2, <1>3, <1>6, <2>1 DEF Sessions
<1>7. ASSUME NEW s \in Servers, Apart(s), OthersKept(server, s, {c}), s.trans \subseteq linked \cup {c},
             server' = Ended(s, {c}), linked' = linked \ {c}, answer = "none"
      PROVE  Sessions' /\ OthersKept(server, server', {c}) /\ c \notin server'.trans
  <2>1. /\ server' \in Servers /\ Apart(server') /\ OthersKept(s, server', {c})
        /\ server'.trans = s.trans \ {c}
    BY <1>1, <1>7, EndedKeeps
  <2>2. OthersKept(server, server', {c})
    BY <1>7, <2>1, OthersKeptTransitive
  <2> QED
    BY <1>7, <2>1, <2>2 DEF Sessions
<1>8. CASE answer = "none" /\ server' = Ended(server, {c}) /\ linked' = linked \ {c}
  BY <1>1, <1>3, <1>7, <1>8
<1>9. CASE /\ ~Blocked(server, c, text)
           /\ answer = "none" /\ server' = Ended(Served(server, c, text), {c}) /\ linked' = linked \ {c}
  <2> DEFINE s == Served(server, c, text)
  <2>1. /\ s \in Servers /\ Apart(s) /\ OthersKept(server, s, {c})
        /\ s.trans \subseteq server.trans \cup {c}
    BY <1>3, <1>9, ServedKeeps
  <2>2. server' = Ended(s, {c})
    BY <1>9
  <2> HIDE DEF s
  <2> QED
    BY <1>3, <1>7, <1>9, <2>1, <2>2
<1> QED
  BY <1>4, <1>5, <1>6, <1>8, <1>9 DEF Transmit

(* Nobody else's transaction is touched by what one session does. *)
LEMMA TxOfOthers ==
  ASSUME NEW s, NEW r, NEW cs, OthersKept(s, r, cs), s.trans \subseteq Conns,
         NEW x, NEW d, d \notin cs, TxOf(x, s, d), s \in Servers, Apart(s)
  PROVE  TxOf(x, r, d)
PROOF
<1> SUFFICES ASSUME x.on  PROVE TxOf(x, r, d)
  BY DEF TxOf
<1>1. /\ d \in Conns \ cs /\ d \in r.trans /\ r.undo[d] = s.undo[d]
      /\ \A i \in Ids : s.undo[d][i] # "kept" => r.rows[i] = s.rows[i]
  BY DEF TxOf, OthersKept
<1> QED
  BY <1>1 DEF TxOf

(* The record y is x with the rows that have changed from s to r. *)
Records(y, x, s, r) ==
  /\ y.on = x.on
  /\ \A i \in Ids : y.before[i] = IF x.before[i] = "kept" /\ r.rows[i] # s.rows[i]
                                   THEN s.rows[i] ELSE x.before[i]

(* A statement served inside a transaction: the record goes on to tell of   *)
(* the undo log.                                                            *)
LEMMA TxGoesOn ==
  ASSUME NEW s \in Servers, Apart(s), NEW c \in Conns, NEW text \in {"prepare", "insert", "update", "query"},
         ~Blocked(s, c, text), text = "insert" => s.next <= MaxId,
         NEW x \in Txs, x.on, TxOf(x, s, c), NEW r, r = Served(s, c, text),
         NEW y, Records(y, x, s, r)
  PROVE  TxOf(y, r, c)
PROOF
<1>1. /\ c \in s.trans
      /\ \A i \in Ids : IF x.before[i] = "kept"
                        THEN s.undo[c][i] \in {"kept", s.rows[i]}
                        ELSE s.undo[c][i] = x.before[i] /\ x.before[i] \notin {"naihan", s.rows[i]}
      /\ \A i \in Ids : s.rows[i] \in RowValues
      /\ y.on = x.on
      /\ \A i \in Ids : y.before[i] = IF x.before[i] = "kept" /\ r.rows[i] # s.rows[i]
                                       THEN s.rows[i] ELSE x.before[i]
  BY DEF TxOf, Servers, Records
<1>2. CASE text \in {"prepare", "query"}
  <2>1. r = s
    BY <1>2, ServedCases
  <2> QED
    BY <1>1, <2>1 DEF TxOf
<1>3. CASE text = "insert"
  <2>1. r = Inserted(s, c)
    BY <1>3, ServedCases
  <2>2. r.trans = s.trans /\ r.undo = Remembered(s, c, s.next)
        /\ r.rows = [s.rows EXCEPT ![s.next] = "test"]
    <3>1. /\ Inserted(s, c).trans = s.trans
          /\ Inserted(s, c).undo = Remembered(s, c, s.next)
          /\ Inserted(s, c).rows = [s.rows EXCEPT ![s.next] = "test"]
      BY <1>3, InsertedKeeps
    <3> QED
      BY <2>1, <3>1
  <2>3. s.next \in Ids
    BY <1>3, BoundAssumption DEF Ids, Servers
  <2>4. /\ \A i \in Ids : r.rows[i] = IF i = s.next THEN "test" ELSE s.rows[i]
        /\ \A i \in Ids : r.undo[c][i] = IF i = s.next /\ s.undo[c][i] = "kept" THEN s.rows[i] ELSE s.undo[c][i]
    BY <1>1, <2>2, <2>3, RememberedKeeps DEF Servers
  <2>5. /\ s.undo[c][s.next] = "kept" /\ s.rows[s.next] = "absent"
    BY <2>3 DEF Apart, Servers
  <2> QED
    BY <1>1, <2>2, <2>3, <2>4, <2>5 DEF TxOf, RowValues
<1>4. CASE text = "update"
  <2>1. r = Updated(s, c)
    BY <1>4, ServedCases
  <2>2. User \in Ids
    BY IdsAreNumbers
  <2>3. \A d \in Conns \ {c} : s.undo[d][User] = "kept"
    BY <1>4, <2>2 DEF Blocked, Changed
  <2>4. /\ r.trans = s.trans
        /\ \/ r = s
           \/ r.undo = Remembered(s, c, User) /\ r.rows = [s.rows EXCEPT ![User] = "naihan"]
    <3>1. /\ Updated(s, c).trans = s.trans
          /\ \/ Updated(s, c) = s
             \/ /\ Updated(s, c).undo = Remembered(s, c, User)
                /\ Updated(s, c).rows = [s.rows EXCEPT ![User] = "naihan"]
      BY <2>3, UpdatedKeeps
    <3> QED
      BY <2>1, <3>1
  <2>5. CASE r = s
    BY <1>1, <2>5 DEF TxOf
  <2>6. CASE r.undo = Remembered(s, c, User) /\ r.rows = [s.rows EXCEPT ![User] = "naihan"]
    <3>1. /\ \A i \in Ids : r.rows[i] = IF i = User THEN "naihan" ELSE s.rows[i]
          /\ \A i \in Ids : r.undo[c][i] = IF i = User /\ s.undo[c][i] = "kept" THEN s.rows[i] ELSE s.undo[c][i]
      BY <1>1, <2>2, <2>6, RememberedKeeps DEF Servers
    <3> QED
      BY <1>1, <2>4, <3>1 DEF TxOf, RowValues
  <2> QED
    BY <2>4, <2>5, <2>6
<1> QED
  BY <1>2, <1>3, <1>4

(* The statement of a call, or the preparation of one. *)
TextOf(op, text) == text = Text(op) \/ (op = "insert" /\ text = "prepare")

LEMMA TextsOfOps ==
  ASSUME NEW op \in Ops, NEW text, TextOf(op, text)
  PROVE  /\ text \in Texts
         /\ op \in {"commit", "rollback", "drop", "create", "begin"} => text = op
         /\ op \in {"insert", "update", "updateAny", "query"} =>
              text \in {"prepare", "insert", "update", "query"}
PROOF
  BY DEF TextOf, Text, Texts, Ops

LEMMA NotedTxTells ==
  ASSUME TxInv, NEW t \in Threads, lease[t] \in Conns, call[t].op \in Ops,
         NEW text, TextOf(call[t].op, text), text = "insert" => server.next <= MaxId,
         NEW answer, NEW affected, Transmit(lease[t], text, answer, affected)
  PROVE  NotedTx(t, answer) \in Txs /\ TxOf(NotedTx(t, answer), server', lease[t])
PROOF
<1> DEFINE x == tx[t]
           c == lease[t]
           op == call[t].op
           y == NotedTx(t, answer)
           before == [i \in Ids |->
              IF x.on /\ x.before[i] = "kept" /\ server'.rows[i] # server.rows[i]
              THEN server.rows[i] ELSE x.before[i]]
<1>1. /\ x \in Txs /\ TxOf(x, server, c) /\ server \in Servers /\ Apart(server)
  BY DEF TxInv, TxTold, Sessions
<1>2. text \in Texts
  BY TextsOfOps
<1>3. /\ Sessions'
      /\ \/ answer = "none"
         \/ answer = "refused" /\ server' = server
         \/ answer = "ok" /\ server' = Served(server, c, text)
  BY <1>2, TransmitServes DEF TxInv
<1>4. answer = "ok" => ~Blocked(server, c, text)
  BY DEF Transmit
<1>5. Untouched \in Images /\ \A i \in Ids : Untouched[i] = "kept"
  BY DEF Untouched, Images
<1>6. CASE answer = "none" \/ (answer = "ok" /\ op \in {"commit", "rollback", "drop", "create"})
  <2>1. y = NoTx
    BY <1>6 DEF NotedTx
  <2> QED
    BY <1>5, <2>1 DEF NoTx, Txs, TxOf
<1>7. CASE answer = "ok" /\ op = "begin"
  <2>1. y = [NoTx EXCEPT !.on = TRUE]
    BY <1>7 DEF NotedTx
  <2>2. y.on = TRUE /\ y.before = Untouched /\ y \in Txs
    BY <1>5, <2>1 DEF NoTx, Txs
  <2>3. text = "begin"
    BY <1>7, TextsOfOps
  <2>4. c \in server'.trans /\ \A i \in Ids : server'.undo[c][i] = "kept"
    <3>1. /\ c \in Served(server, c, text).trans
          /\ Changed(Served(server, c, text), c) = {}
      BY <1>1, <1>2, <1>4, <1>7, <2>3, ServedKeeps
    <3> QED
      BY <1>3, <1>7, <3>1 DEF Changed
  <2> HIDE DEF y
  <2> QED
    BY <1>5, <2>2, <2>4 DEF TxOf, y
<1>8. CASE answer = "refused" \/ (answer = "ok" /\ op \in {"insert", "update", "updateAny", "query"})
  <2>1. y = [on |-> x.on, before |-> before]
    BY <1>8 DEF NotedTx
  <2>2. before \in Images
    <3>1. \A i \in Ids : server.rows[i] \in RowValues /\ x.before[i] \in RowValues \cup {"kept"}
      BY <1>1 DEF Servers, Txs, Images
    <3> QED
      BY <3>1 DEF Images
  <2>3. y.on = x.on /\ y.before = before /\ y \in Txs
    BY <1>1, <2>1, <2>2 DEF Txs
  <2>4. TxOf(y, server', c)
    <3>1. CASE ~x.on
      BY <2>3, <3>1 DEF TxOf
    <3>2. CASE x.on /\ answer = "refused"
      <4>1. \A i \in Ids : y.before[i] = x.before[i]
        BY <1>3, <2>3, <3>2
      <4> HIDE DEF y, x, c
      <4> QED
        BY <1>1, <1>3, <2>3, <3>2, <4>1 DEF TxOf
    <3>3. CASE x.on /\ answer = "ok"
      <4>1. Records(y, x, server, server')
        BY <2>3, <3>3 DEF Records
      <4>2. text \in {"prepare", "insert", "update", "query"}
        BY <1>8, <3>3, TextsOfOps
      <4>3. server' = Served(server, c, text)
        BY <1>3, <3>3
      <4>4. c \in Conns /\ ~Blocked(server, c, text) /\ x.on
        BY <1>4, <3>3
      <4> HIDE DEF y, x, before, c
      <4> QED
        BY <1>1, <4>1, <4>2, <4>3, <4>4, TxGoesOn
    <3> QED
      BY <1>8, <3>1, <3>2, <3>3
  <2> QED
    BY <2>3, <2>4
<1> QED
  BY <1>3, <1>6, <1>7, <1>8 DEF Ops

(* A command of t: the other threads' transactions stay as they are.        *)
LEMMA CommandTx ==
  ASSUME IInv, TxInv, NEW t \in Threads, step[t] \in {"send", "execute"},
         NEW text, TextOf(call[t].op, text), text = "insert" => server.next <= MaxId,
         NEW answer, NEW affected,
         Transmit(lease[t], text, answer, affected),
         Noted(t, answer, affected), UNCHANGED lease
  PROVE  /\ Sessions' /\ TxTold'
         /\ \A u \in Threads : u # t => (lease[u] \in server'.trans <=> lease[u] \in server.trans)
         /\ lease[t] \in server'.trans =>
              call[t].op = "begin"
              \/ (lease[t] \in server.trans /\ call[t].op \notin {"commit", "rollback"})
         /\ server'.trans \subseteq server.trans \cup {lease[t]}
         /\ lease[t] \in Conns
PROOF
<1>1. lease[t] \in Conns /\ call[t].op \in Ops
  <2>1. plan[t].calls \in Seq(Ops) /\ plan[t].calls # <<>> /\ call[t].op = Head(plan[t].calls)
    BY DEF TxInv, PlansGoOn
  <2> QED
    BY <2>1 DEF IInv, OneUser
<1>2. text \in Texts
  BY <1>1, TextsOfOps
<1>3. /\ Sessions' /\ OthersKept(server, server', {lease[t]})
      /\ lease[t] \in server'.trans =>
           text = "begin" \/ (lease[t] \in server.trans /\ text \notin {"commit", "rollback"})
  BY <1>1, <1>2, TransmitServes DEF TxInv
<1>4. \A u \in Threads : u # t => lease[u] # lease[t]
  BY <1>1, LeaseAssumption DEF IInv, OneUser
<1>5. server.trans \subseteq Conns /\ server'.trans \subseteq Conns
  BY <1>3 DEF TxInv, Sessions, Servers
<1>6. /\ \A u \in Threads : u # t => (lease[u] \in server'.trans <=> lease[u] \in server.trans)
      /\ server'.trans \subseteq server.trans \cup {lease[t]}
  BY <1>3, <1>4, <1>5 DEF OthersKept
<1>7. text = "begin" => call[t].op = "begin"
  BY <1>1 DEF TextOf, Text
<1>8. call[t].op \in {"commit", "rollback"} => text = call[t].op
  BY <1>1, TextsOfOps
<1>9. TxTold'
  <2>1. /\ tx' = [tx EXCEPT ![t] = NotedTx(t, answer)]
        /\ tx \in [Threads -> Txs]
    BY DEF Noted, TxInv, TxTold
  <2>2. NotedTx(t, answer) \in Txs /\ TxOf(NotedTx(t, answer), server', lease[t])
    BY <1>1, NotedTxTells
  <2>3. tx' \in [Threads -> Txs] /\ tx'[t] = NotedTx(t, answer)
        /\ \A u \in Threads : u # t => tx'[u] = tx[u]
    BY <2>1, <2>2
  <2>4. ASSUME NEW u \in Threads, u # t  PROVE TxOf(tx[u], server', lease[u])
    <3>1. TxOf(tx[u], server, lease[u]) /\ server \in Servers /\ Apart(server)
      BY DEF TxInv, TxTold, Sessions
    <3>2. lease[u] \notin {lease[t]}
      BY <1>4, <2>4
    <3> QED
      BY <1>3, <1>5, <3>1, <3>2, TxOfOthers
  <2> QED
    BY <2>2, <2>3, <2>4 DEF TxTold
<1> QED
  BY <1>1, <1>3, <1>6, <1>7, <1>8, <1>9

(* The current call of t is over. *)
LEMMA NextCallGoesOn ==
  ASSUME IInv, TxInv, NEW t \in Threads, step[t] \in {"send", "close"},
         NextCall(t), UNCHANGED lease,
         \A u \in Threads : u # t => (lease[u] \in server'.trans <=> lease[u] \in server.trans),
         lease[t] \in server'.trans =>
              call[t].op = "begin"
              \/ (lease[t] \in server.trans /\ call[t].op \notin {"commit", "rollback"}),
         server'.trans \subseteq server.trans \cup {lease[t]},
         \A u \in Threads : u # t => call'[u] = call[u],
         stmtOpen' \subseteq stmtOpen, lease[t] \notin stmtOpen'
  PROVE  PlansGoOn'
PROOF
<1> DEFINE calls == plan[t].calls
<1>1. /\ plan \in [Threads -> [calls : Seq(Ops), keeps : BOOLEAN]]
      /\ calls \in Seq(Ops) /\ calls # <<>> /\ EndsTransactions(calls) /\ call[t].op = Head(calls)
      /\ lease[t] \in server.trans => Ends(calls)
  BY DEF TxInv, PlansGoOn
<1>2. /\ Tail(calls) \in Seq(Ops) /\ EndsTransactions(Tail(calls))
      /\ lease[t] \in server'.trans => Ends(Tail(calls))
  BY <1>1, TailsEnd
<1>3. /\ plan' \in [Threads -> [calls : Seq(Ops), keeps : BOOLEAN]]
      /\ plan'[t].calls = Tail(calls)
      /\ \A u \in Threads : u # t => plan'[u] = plan[u]
  BY <1>1, <1>2 DEF NextCall
<1>4. /\ step'[t] = "hold"
      /\ \A u \in Threads : u # t => step'[u] = step[u]
  BY DEF NextCall, IInv, Typed
<1>5. \A c \in server'.trans : \E u \in Threads : lease[u] = c
  BY DEF TxInv, PlansGoOn
<1>6. \A c \in stmtOpen' : \E u \in Threads : lease[u] = c /\ step'[u] \in {"execute", "close"}
  BY <1>4 DEF TxInv, PlansGoOn
<1>7. \A u \in Threads :
       /\ EndsTransactions(plan'[u].calls)
       /\ step'[u] = "start" => lease[u] = NULL
       /\ step'[u] \in {"send", "execute", "close"} =>
            plan'[u].calls # <<>> /\ call'[u].op = Head(plan'[u].calls)
       /\ lease[u] \in server'.trans => Ends(plan'[u].calls)
  <2> SUFFICES ASSUME NEW u \in Threads
               PROVE  /\ EndsTransactions(plan'[u].calls)
                      /\ step'[u] = "start" => lease[u] = NULL
                      /\ step'[u] \in {"send", "execute", "close"} =>
                           plan'[u].calls # <<>> /\ call'[u].op = Head(plan'[u].calls)
                      /\ lease[u] \in server'.trans => Ends(plan'[u].calls)
    OBVIOUS
  <2>1. CASE u = t
    <3>1. /\ EndsTransactions(plan'[t].calls)
          /\ lease[t] \in server'.trans => Ends(plan'[t].calls)
          /\ step'[t] = "hold"
      BY <1>2, <1>3, <1>4
    <3> QED
      BY <2>1, <3>1
  <2>2. CASE u # t
    <3>1. /\ plan'[u] = plan[u] /\ step'[u] = step[u] /\ call'[u] = call[u]
          /\ lease[u] \in server'.trans <=> lease[u] \in server.trans
      BY <1>3, <1>4, <2>2
    <3>2. /\ EndsTransactions(plan[u].calls)
          /\ step[u] = "start" => lease[u] = NULL
          /\ step[u] \in {"send", "execute", "close"} =>
               plan[u].calls # <<>> /\ call[u].op = Head(plan[u].calls)
          /\ lease[u] \in server.trans => Ends(plan[u].calls)
      BY DEF TxInv, PlansGoOn
    <3> QED
      BY <3>1, <3>2
  <2> QED
    BY <2>1, <2>2
<1> QED
  BY <1>3, <1>5, <1>6, <1>7 DEF PlansGoOn

LEMMA SendTx ==
  ASSUME IInv, TxInv, NEW t \in Threads, Send(t, Ops \ {"insert"})
  PROVE  TxInv'
PROOF
<1>1. PICK answer \in {"none", "refused", "ok"}, affected \in {0, 1} :
         /\ Transmit(lease[t], Text(call[t].op), answer, affected)
         /\ Noted(t, answer, affected)
  BY DEF Send
<1>2. /\ step[t] = "send" /\ call[t].op \in Ops \ {"insert"}
      /\ NextCall(t) /\ UNCHANGED <<lease, stmtOpen>>
  BY DEF Send, poolVars
<1>3. TextOf(call[t].op, Text(call[t].op)) /\ Text(call[t].op) # "insert"
  BY <1>2 DEF TextOf, Text
<1>4. /\ Sessions' /\ TxTold'
      /\ \A u \in Threads : u # t => (lease[u] \in server'.trans <=> lease[u] \in server.trans)
      /\ lease[t] \in server'.trans =>
           call[t].op = "begin"
           \/ (lease[t] \in server.trans /\ call[t].op \notin {"commit", "rollback"})
      /\ server'.trans \subseteq server.trans \cup {lease[t]}
      /\ lease[t] \in Conns
  BY <1>1, <1>2, <1>3, CommandTx
<1>5. \A u \in Threads : u # t => call'[u] = call[u]
  BY <1>1, NotedCall DEF IInv, Typed
<1>6. lease[t] \notin stmtOpen
  <2> SUFFICES ASSUME lease[t] \in stmtOpen PROVE FALSE
    OBVIOUS
  <2>1. PICK u \in Threads : lease[u] = lease[t] /\ step[u] \in {"execute", "close"}
    BY DEF TxInv, PlansGoOn
  <2>2. u = t
    BY <1>4, <2>1, LeaseAssumption DEF IInv, OneUser
  <2> QED
    BY <1>2, <2>1, <2>2
<1>7. PlansGoOn'
  BY <1>2, <1>4, <1>5, <1>6, NextCallGoesOn
<1> QED
  BY <1>4, <1>7 DEF TxInv

(* t is in the middle of an insertUser; its plan is as it was. *)
LEMMA InsertGoesOn ==
  ASSUME IInv, TxInv, NEW t \in Threads, step[t] \in {"send", "execute"}, call[t].op = "insert",
         NEW s \in {"execute", "close"}, step' = [step EXCEPT ![t] = s],
         UNCHANGED <<plan, lease>>, NEW r, call' = [call EXCEPT ![t] = r], r.op = "insert",
         \A u \in Threads : u # t => (lease[u] \in server'.trans <=> lease[u] \in server.trans),
         lease[t] \in server'.trans => lease[t] \in server.trans,
         server'.trans \subseteq server.trans \cup {lease[t]},
         stmtOpen' \subseteq stmtOpen \cup {lease[t]}
  PROVE  PlansGoOn'
PROOF
<1>1. /\ \A u \in Threads : step'[u] = IF u = t THEN s ELSE step[u]
      /\ \A u \in Threads : call'[u] = IF u = t THEN r ELSE call[u]
  BY DEF IInv, Typed
<1>2. plan \in [Threads -> [calls : Seq(Ops), keeps : BOOLEAN]]
  BY DEF TxInv, PlansGoOn
<1>3. \A c \in server'.trans : \E u \in Threads : lease[u] = c
  BY DEF TxInv, PlansGoOn
<1>4. \A c \in stmtOpen' : \E u \in Threads : lease[u] = c /\ step'[u] \in {"execute", "close"}
  BY <1>1 DEF TxInv, PlansGoOn
<1>5. \A u \in Threads :
       /\ EndsTransactions(plan[u].calls)
       /\ step'[u] = "start" => lease[u] = NULL
       /\ step'[u] \in {"send", "execute", "close"} =>
            plan[u].calls # <<>> /\ call'[u].op = Head(plan[u].calls)
       /\ lease[u] \in server'.trans => Ends(plan[u].calls)
  BY <1>1 DEF TxInv, PlansGoOn
<1> QED
  BY <1>2, <1>3, <1>4, <1>5 DEF PlansGoOn

LEMMA StmtPrepareTx ==
  ASSUME IInv, TxInv, NEW t \in Threads, StmtPrepare(t)
  PROVE  TxInv'
PROOF
<1>1. PICK answer \in {"none", "refused", "ok"}, affected \in {0, 1} :
         /\ Transmit(lease[t], "prepare", answer, affected)
         /\ Noted(t, answer, affected)
         /\ step' = [step EXCEPT ![t] = IF answer = "ok" THEN "execute" ELSE "close"]
  BY DEF StmtPrepare
<1>2. /\ step[t] = "send" /\ call[t].op = "insert"
      /\ UNCHANGED <<lease, plan>> /\ stmtOpen' = stmtOpen \cup {lease[t]}
  BY DEF StmtPrepare, poolVars
<1>3. TextOf(call[t].op, "prepare")
  BY <1>2 DEF TextOf
<1> DEFINE s == IF answer = "ok" THEN "execute" ELSE "close"
           r == [op |-> call[t].op, answer |-> answer, result |-> Result(call[t].op, answer, affected)]
<1>4. Transmit(lease[t], "prepare", answer, affected) /\ step' = [step EXCEPT ![t] = s]
      /\ s \in {"execute", "close"} /\ r.op = call[t].op
  BY <1>1
<1> HIDE DEF s
<1>5. /\ Sessions' /\ TxTold'
      /\ \A u \in Threads : u # t => (lease[u] \in server'.trans <=> lease[u] \in server.trans)
      /\ lease[t] \in server'.trans =>
           call[t].op = "begin"
           \/ (lease[t] \in server.trans /\ call[t].op \notin {"commit", "rollback"})
      /\ server'.trans \subseteq server.trans \cup {lease[t]}
  BY <1>1, <1>2, <1>3, <1>4, CommandTx
<1>6. call' = [call EXCEPT ![t] = r]
  BY <1>1, NotedCall
<1> HIDE DEF r
<1>7. PlansGoOn'
  BY <1>2, <1>4, <1>5, <1>6, InsertGoesOn
<1> QED
  BY <1>5, <1>7 DEF TxInv

LEMMA StmtExecuteTx ==
  ASSUME IInv, TxInv, NEW t \in Threads, StmtExecute(t)
  PROVE  TxInv'
PROOF
<1>1. /\ step[t] = "execute" /\ step' = [step EXCEPT ![t] = "close"]
      /\ UNCHANGED <<lease, plan, stmtOpen>>
  BY DEF StmtExecute, poolVars
<1>2. call[t].op = "insert" /\ TextOf(call[t].op, "insert")
  BY <1>1 DEF IInv, CallsTold, Told, TextOf, Text
<1>3. ASSUME NEW answer, NEW affected, server.next <= MaxId,
             Transmit(lease[t], "insert", answer, affected),
             Noted(t, answer, affected)
      PROVE  TxInv'
  <2> DEFINE r == [op |-> call[t].op, answer |-> answer, result |-> Result(call[t].op, answer, affected)]
  <2>1. /\ Sessions' /\ TxTold'
        /\ \A u \in Threads : u # t => (lease[u] \in server'.trans <=> lease[u] \in server.trans)
        /\ lease[t] \in server'.trans =>
             call[t].op = "begin"
             \/ (lease[t] \in server.trans /\ call[t].op \notin {"commit", "rollback"})
        /\ server'.trans \subseteq server.trans \cup {lease[t]}
    BY <1>1, <1>2, <1>3, CommandTx
  <2>2. call' = [call EXCEPT ![t] = r] /\ r.op = "insert"
    BY <1>2, <1>3, NotedCall
  <2> HIDE DEF r
  <2>3. PlansGoOn'
    BY <1>1, <1>2, <2>1, <2>2, InsertGoesOn
  <2> QED
    BY <2>1, <2>3 DEF TxInv
<1>4. ASSUME lease[t] \notin linked, linked' = Relinked(lease[t]), server' = server,
             Noted(t, "none", 0)
      PROVE  TxInv'
  <2> DEFINE r == [op |-> call[t].op, answer |-> "none", result |-> Result(call[t].op, "none", 0)]
  <2>1. call' = [call EXCEPT ![t] = r] /\ r.op = "insert"
    BY <1>2, <1>4, NotedCall
  <2> HIDE DEF r
  <2>2. Sessions'
    BY <1>4 DEF TxInv, Sessions, Relinked
  <2>3. PlansGoOn'
    BY <1>1, <1>2, <1>4, <2>1, InsertGoesOn
  <2>4. TxTold'
    <3>1. tx' = [tx EXCEPT ![t] = NoTx] /\ NoTx \in Txs /\ ~NoTx.on
      BY <1>4 DEF Noted, NotedTx, NoTx, Txs, Images, Untouched
    <3> HIDE DEF NoTx
    <3> QED
      BY <1>1, <1>4, <3>1 DEF TxInv, TxTold, TxOf
  <2> QED
    BY <2>2, <2>3, <2>4 DEF TxInv
<1> QED
  BY <1>3, <1>4 DEF StmtExecute

LEMMA StmtCloseTx ==
  ASSUME IInv, TxInv, NEW t \in Threads, StmtClose(t)
  PROVE  TxInv'
PROOF
<1>1. /\ step[t] = "close" /\ NextCall(t) /\ stmtOpen' = stmtOpen \ {lease[t]}
      /\ UNCHANGED <<lease, server, linked, call, tx>>
  BY DEF StmtClose, StatementDeleted, poolVars, history
<1>2. call[t].op = "insert"
  BY <1>1 DEF IInv, CallsTold, Told
<1>3. PlansGoOn'
  BY <1>1, <1>2, NextCallGoesOn
<1> QED
  BY <1>1, <1>3 DEF TxInv, Sessions, TxTold

LEMMA GetDBConnTx ==
  ASSUME IInv, TxInv, NEW t \in Threads, GetDBConn(t)
  PROVE  TxInv'
PROOF
<1>1. /\ step[t] = "start" /\ UNCHANGED <<plan, stmtOpen, server, call, tx>>
      /\ linked \subseteq linked'
  BY DEF GetDBConn, history
<1>2. lease[t] = NULL
  BY <1>1 DEF TxInv, PlansGoOn
<1>3. \/ \E c \in Conns : /\ lease' = [lease EXCEPT ![t] = c]
                          /\ \A u \in Threads : lease[u] # c
                          /\ step' = [step EXCEPT ![t] = "hold"]
      \/ lease' = lease /\ step' = [step EXCEPT ![t] = "done"]
  BY LeaseAssumption DEF GetDBConn, poolVars, IInv, OneUser, Pool!Lend, Pool!LendNew, Pool!Leased
<1>4. Sessions'
  BY <1>1 DEF TxInv, Sessions
<1>5. /\ \A u \in Threads : u # t => lease'[u] = lease[u] /\ step'[u] = step[u]
      /\ step'[t] \in {"hold", "done"}
      /\ lease'[t] = NULL \/ \A u \in Threads : lease[u] # lease'[t]
  BY <1>2, <1>3 DEF IInv, Typed
<1>6. NULL \notin server.trans /\ NULL \notin stmtOpen
  <2>1. NULL \notin server.trans
    BY LeaseAssumption DEF TxInv, Sessions, Servers
  <2>2. \A c \in stmtOpen : c \in Conns
    BY DEF TxInv, PlansGoOn, IInv, OneUser
  <2> QED
    BY <2>1, <2>2, LeaseAssumption
<1>7. lease'[t] \notin server.trans
  BY <1>5, <1>6 DEF TxInv, PlansGoOn
<1>8. PlansGoOn'
  <2>1. \A c \in server.trans : \E u \in Threads : lease'[u] = c
    BY <1>2, <1>5, <1>6 DEF TxInv, PlansGoOn
  <2>2. \A c \in stmtOpen : \E u \in Threads : lease'[u] = c /\ step'[u] \in {"execute", "close"}
    BY <1>2, <1>5, <1>6 DEF TxInv, PlansGoOn
  <2>3. \A u \in Threads :
          /\ EndsTransactions(plan[u].calls)
          /\ step'[u] = "start" => lease'[u] = NULL
          /\ step'[u] \in {"send", "execute", "close"} =>
               plan[u].calls # <<>> /\ call[u].op = Head(plan[u].calls)
          /\ lease'[u] \in server.trans => Ends(plan[u].calls)
    BY <1>5, <1>7 DEF TxInv, PlansGoOn
  <2> QED
    BY <1>1, <2>1, <2>2, <2>3 DEF TxInv, PlansGoOn
<1>9. TxTold'
  <2>1. ~tx[t].on
    BY <1>2, <1>6 DEF TxInv, TxTold, TxOf
  <2> QED
    BY <1>1, <1>5, <2>1 DEF TxInv, TxTold, TxOf
<1> QED
  BY <1>4, <1>8, <1>9 DEF TxInv

LEMMA PingTx ==
  ASSUME IInv, TxInv, NEW t \in Threads, Ping(t)
  PROVE  TxInv'
PROOF
<1>1. /\ step[t] = "hold" /\ step' = [step EXCEPT ![t] = "send"] /\ plan[t].calls # <<>>
      /\ call' = [call EXCEPT ![t] = [NoCall EXCEPT !.op = Head(plan[t].calls)]]
      /\ UNCHANGED <<lease, plan, stmtOpen, server, tx>>
      /\ linked \subseteq linked'
  BY DEF Ping, poolVars, Relinked
<1>2. /\ \A u \in Threads : u # t => step'[u] = step[u] /\ call'[u] = call[u]
      /\ step'[t] = "send" /\ call'[t].op = Head(plan[t].calls)
  BY <1>1 DEF IInv, Typed, NoCall
<1>3. Sessions' /\ TxTold'
  BY <1>1 DEF TxInv, Sessions, TxTold
<1>4. PlansGoOn'
  <2>1. \A c \in stmtOpen : \E u \in Threads : lease[u] = c /\ step'[u] \in {"execute", "close"}
    BY <1>1, <1>2 DEF TxInv, PlansGoOn
  <2>2. \A u \in Threads :
          /\ EndsTransactions(plan[u].calls)
          /\ step'[u] = "start" => lease[u] = NULL
          /\ step'[u] \in {"send", "execute", "close"} =>
               plan[u].calls # <<>> /\ call'[u].op = Head(plan[u].calls)
          /\ lease[u] \in server.trans => Ends(plan[u].calls)
    BY <1>1, <1>2 DEF TxInv, PlansGoOn
  <2> QED
    BY <1>1, <2>1, <2>2 DEF TxInv, PlansGoOn
<1> QED
  BY <1>3, <1>4 DEF TxInv

LEMMA RelConnTx ==
  ASSUME IInv, TxInv, NEW t \in Threads, RelConn(t)
  PROVE  TxInv'
PROOF
<1>1. /\ step[t] = "hold" /\ step' = [step EXCEPT ![t] = "done"] /\ plan[t].calls = <<>>
      /\ UNCHANGED <<plan, stmtOpen, server, linked, call, tx>>
      /\ lease' = lease \/ lease' = [lease EXCEPT ![t] = NULL]
  BY DEF RelConn, poolVars, connVars, history, Pool!GiveBack
<1>2. /\ lease[t] \notin server.trans /\ lease[t] \notin stmtOpen
  <2>1. ~Ends(<<>>)
    BY DEF Ends
  <2>2. lease[t] \in server.trans => Ends(plan[t].calls)
    BY DEF TxInv, PlansGoOn
  <2>3. lease[t] \in Conns /\ \A u \in Threads : lease[u] = lease[t] => u = t
    BY <1>1, LeaseAssumption DEF IInv, OneUser
  <2>4. lease[t] \notin stmtOpen
    BY <1>1, <2>3 DEF TxInv, PlansGoOn
  <2> QED
    BY <1>1, <2>1, <2>2, <2>4
<1>3. /\ \A u \in Threads : u # t => lease'[u] = lease[u] /\ step'[u] = step[u]
      /\ step'[t] = "done" /\ lease'[t] \in {lease[t], NULL}
  BY <1>1 DEF IInv, Typed
<1>4. NULL \notin server.trans
  BY LeaseAssumption DEF TxInv, Sessions, Servers
<1>5. Sessions'
  BY <1>1 DEF TxInv, Sessions
<1>6. PlansGoOn'
  <2>1. \A c \in server.trans : \E u \in Threads : lease'[u] = c
    BY <1>2, <1>3 DEF TxInv, PlansGoOn
  <2>2. \A c \in stmtOpen : \E u \in Threads : lease'[u] = c /\ step'[u] \in {"execute", "close"}
    BY <1>2, <1>3 DEF TxInv, PlansGoOn
  <2>3. \A u \in Threads :
          /\ EndsTransactions(plan[u].calls)
          /\ step'[u] = "start" => lease'[u] = NULL
          /\ step'[u] \in {"send", "execute", "close"} =>
               plan[u].calls # <<>> /\ call[u].op = Head(plan[u].calls)
          /\ lease'[u] \in server.trans => Ends(plan[u].calls)
    BY <1>2, <1>3, <1>4 DEF TxInv, PlansGoOn
  <2> QED
    BY <1>1, <2>1, <2>2, <2>3 DEF TxInv, PlansGoOn
<1>7. TxTold'
  <2>1. ~tx[t].on
    BY <1>2 DEF TxInv, TxTold, TxOf
  <2> QED
    BY <1>1, <1>3, <2>1 DEF TxInv, TxTold, TxOf
<1> QED
  BY <1>5, <1>6, <1>7 DEF TxInv

(* Sessions that end take no other's transaction with them. *)
LEMMA TroubleTx ==
  ASSUME IInv, TxInv, NEW cs \in SUBSET Conns, Hurt(cs), server' = Ended(server, cs),
         linked \ cs \subseteq linked', UNCHANGED <<lease, plan, step, stmtOpen, call>>
  PROVE  TxInv'
PROOF
<1>1. /\ server' \in Servers /\ Apart(server') /\ OthersKept(server, server', cs)
      /\ server'.trans = server.trans \ cs
  BY EndedKeeps DEF TxInv, Sessions
<1>2. Sessions'
  BY <1>1 DEF TxInv, Sessions
<1>3. PlansGoOn'
  BY <1>1 DEF TxInv, PlansGoOn
<1>4. TxTold'
  <2>1. NoTx \in Txs /\ ~NoTx.on
    BY DEF NoTx, Txs, Images, Untouched
  <2>2. tx' = [t \in Threads |-> IF lease[t] \in cs THEN NoTx ELSE tx[t]]
    BY DEF Hurt
  <2>3. ASSUME NEW t \in Threads  PROVE tx'[t] \in Txs /\ TxOf(tx'[t], server', lease[t])
    <3>1. CASE lease[t] \in cs
      BY <2>1, <2>2, <3>1 DEF TxOf
    <3>2. CASE lease[t] \notin cs
      <4>1. /\ tx'[t] = tx[t] /\ tx[t] \in Txs /\ TxOf(tx[t], server, lease[t])
            /\ server \in Servers /\ Apart(server) /\ server.trans \subseteq Conns
        BY <2>2, <3>2 DEF TxInv, TxTold, Sessions, Servers
      <4> QED
        BY <1>1, <3>2, <4>1, TxOfOthers
    <3> QED
      BY <3>1, <3>2
  <2> QED
    BY <2>2, <2>3 DEF TxTold
<1> QED
  BY <1>2, <1>3, <1>4 DEF TxInv

LEMMA InitEstablishesTxInv == Init => TxInv
PROOF
<1> SUFFICES ASSUME Init  PROVE TxInv
  OBVIOUS
<1>1. /\ lease = [t \in Threads |-> NULL] /\ plan \in [Threads -> Plans]
      /\ step = [t \in Threads |-> "start"] /\ stmtOpen = {} /\ tx = [t \in Threads |-> NoTx]
  BY DEF Init, Pool!LeaseInit
<1>2. Untouched \in Images /\ \A i \in Ids : Untouched[i] = "kept"
  BY DEF Untouched, Images
<1>3. server \in Servers /\ Apart(server) /\ server.trans = {}
  <2>1. PICK table \in {"none", "empty", "used"} :
          server = [table |-> table # "none",
                    rows |-> IF table = "used" THEN [NoRows EXCEPT ![User] = "test"] ELSE NoRows,
                    next |-> IF table = "used" THEN User + 1 ELSE User,
                    trans |-> {}, undo |-> NoUndo]
    BY DEF Init
  <2>2. NoUndo \in [Conns -> Images] /\ \A c \in Conns, i \in Ids : NoUndo[c][i] = "kept"
    BY <1>2 DEF NoUndo
  <2>3. /\ NoRows \in [Ids -> RowValues] /\ [NoRows EXCEPT ![User] = "test"] \in [Ids -> RowValues]
        /\ \A i \in Ids : NoRows[i] = "absent" /\ (i # User => [NoRows EXCEPT ![User] = "test"][i] = "absent")
    BY DEF NoRows, RowValues
  <2>4. server.table \in BOOLEAN /\ server.rows \in [Ids -> RowValues] /\ server.next \in {User, User + 1}
        /\ server.trans = {} /\ server.undo = NoUndo
        /\ \A i \in Ids : i >= server.next => server.rows[i] = "absent"
    BY <2>1, <2>3, IdsAreNumbers DEF User
  <2>5. server \in Servers
    BY <2>1, <2>2, <2>3, <2>4 DEF Servers, User
  <2> QED
    BY <2>2, <2>4, <2>5 DEF Apart
<1>4. Sessions
  BY <1>3 DEF Sessions
<1>5. PlansGoOn
  BY <1>1, <1>3, PlanAssumption DEF PlansGoOn
<1>6. TxTold
  BY <1>1, <1>2 DEF TxTold, NoTx, Txs, TxOf
<1> QED
  BY <1>4, <1>5, <1>6 DEF TxInv

LEMMA NextKeepsTxInv == IInv /\ TxInv /\ [Next]_vars => TxInv'
PROOF
<1> SUFFICES ASSUME IInv, TxInv, [Next]_vars  PROVE TxInv'
  OBVIOUS
<1>1. ASSUME NEW t \in Threads, ThreadStep(t)  PROVE TxInv'
  <2>1. ExecuteDropOrCreate(t) \/ ExecuteUpdate(t) \/ ExecuteQuery(t) \/ Transaction(t)
          => Send(t, Ops \ {"insert"})
    BY DEF ExecuteDropOrCreate, ExecuteUpdate, ExecuteQuery, Transaction, Send, Ops
  <2> QED
    BY <1>1, <2>1, GetDBConnTx, PingTx, SendTx, StmtPrepareTx, StmtExecuteTx, StmtCloseTx, RelConnTx
       DEF ThreadStep, insertUser
<1>2. ASSUME NEW c \in Conns, LinkBreaks(c)  PROVE TxInv'
  <2>1. /\ Hurt({c}) /\ server' = Ended(server, {c}) /\ linked' = linked \ {c}
        /\ UNCHANGED <<lease, plan, step, stmtOpen, call>> /\ {c} \in SUBSET Conns
    BY <1>2 DEF LinkBreaks, poolVars
  <2> QED
    BY <2>1, TroubleTx
<1>3. CASE ServerStops
  <2>1. /\ Hurt(Conns) /\ server' = Ended(server, Conns) /\ linked' = {}
        /\ UNCHANGED <<lease, plan, step, stmtOpen, call>>
    BY <1>3 DEF ServerStops, poolVars
  <2>2. server'.trans = {} /\ server' \in Servers /\ Apart(server')
    BY <2>1, EndedKeeps DEF TxInv, Sessions, Servers
  <2>3. Sessions'
    BY <2>2 DEF Sessions
  <2>4. PlansGoOn'
    BY <2>1, <2>2 DEF TxInv, PlansGoOn
  <2>5. TxTold'
    <3>1. NoTx \in Txs /\ ~NoTx.on
      BY DEF NoTx, Txs, Images, Untouched
    <3>2. tx' = [t \in Threads |-> IF lease[t] \in Conns THEN NoTx ELSE tx[t]]
      BY <2>1 DEF Hurt
    <3>3. \A t \in Threads : lease[t] \notin Conns => ~tx[t].on
      BY DEF TxInv, TxTold, TxOf, Sessions, Servers
    <3> QED
      BY <3>1, <3>2, <3>3 DEF TxInv, TxTold, TxOf
  <2> QED
    BY <2>3, <2>4, <2>5 DEF TxInv
<1>4. CASE ServerStarts \/ UNCHANGED vars
  <2>1. UNCHANGED <<lease, plan, step, stmtOpen, linked, server, call, tx>>
    BY <1>4 DEF ServerStarts, vars, poolVars, connVars, history
  <2> QED
    BY <2>1 DEF TxInv, Sessions, PlansGoOn, TxTold
<1> QED
  BY <1>1, <1>2, <1>3, <1>4 DEF Next, Terminated

LEMMA SpecKeepsTxInv == Spec => [](IInv /\ TxInv)
PROOF
<1>1. Init => IInv /\ TxInv
  BY InitEstablishesIInv, InitEstablishesTxInv
<1>2. IInv /\ TxInv /\ [Next]_vars => (IInv /\ TxInv)'
  BY NextKeepsIInv, NextKeepsTxInv
<1> QED
  BY <1>1, <1>2, PTL DEF Spec

(* Whatever fails while it is lent, a connection comes back to the pool     *)
(* with no statement and no transaction open, if its thread ends the        *)
(* transactions it begins (PlanAssumption).                                 *)
THEOREM IdleIsCleanHolds == Spec => []IdleIsClean
PROOF
<1>1. IInv /\ TxInv => IdleIsClean
  BY DEF IInv, OneUser, TxInv, PlansGoOn, IdleIsClean
<1> QED
  BY <1>1, SpecKeepsTxInv, PTL

(* A commit that succeeds keeps what the transaction wrote, a rollback that *)
(* succeeds none of it: no other thread's call, broken link or rollback has *)
(* touched the rows in between.                                             *)
THEOREM TransactionHoldsThroughout == Spec => TransactionHolds
PROOF
<1> DEFINE Held(t, i) ==
             tx[t].before[i] # "kept" =>
               /\ EndsTransaction(t, "commit") => server'.rows[i] # tx[t].before[i]
               /\ EndsTransaction(t, "rollback") => server'.rows[i] = tx[t].before[i]
<1>1. IInv /\ TxInv /\ [Next]_vars => [\A t \in Threads, i \in Ids : Held(t, i)]_vars
  <2> SUFFICES ASSUME IInv, TxInv, Next, NEW t \in Threads, NEW i \in Ids, tx[t].before[i] # "kept",
                      NEW op \in {"commit", "rollback"}, EndsTransaction(t, op)
               PROVE  IF op = "commit" THEN server'.rows[i] # tx[t].before[i]
                      ELSE server'.rows[i] = tx[t].before[i]
    OBVIOUS
  <2>1. /\ tx[t].on /\ step[t] = "send" /\ step'[t] = "hold" /\ call'[t].op = op /\ call'[t].result
    BY DEF EndsTransaction
  <2>2. Send(t, Ops \ {"insert"})
    <3>1. PICK u \in Threads : ThreadStep(u)
      BY <2>1 DEF Next, LinkBreaks, ServerStops, ServerStarts, Terminated, vars
    <3>2. step' = [step EXCEPT ![u] = step'[u]]
      BY <3>1 DEF ThreadStep, GetDBConn, Ping, insertUser, StmtPrepare, StmtExecute, StmtClose, RelConn,
         ExecuteDropOrCreate, ExecuteUpdate, ExecuteQuery, Transaction, Send, NextCall, IInv, Typed
    <3>3. u = t
      BY <2>1, <3>2 DEF IInv, Typed
    <3>4. ~GetDBConn(t) /\ ~Ping(t) /\ ~RelConn(t) /\ ~StmtExecute(t) /\ ~StmtClose(t)
      BY <2>1 DEF GetDBConn, Ping, RelConn, StmtExecute, StmtClose
    <3>5. ~StmtPrepare(t)
      BY <2>1 DEF StmtPrepare, IInv, Typed
    <3> QED
      BY <3>1, <3>3, <3>4, <3>5 DEF ThreadStep, insertUser, ExecuteDropOrCreate, ExecuteUpdate,
         ExecuteQuery, Transaction, Send, Ops
  <2>3. PICK answer \in {"none", "refused", "ok"}, affected \in {0, 1} :
           /\ Transmit(lease[t], Text(call[t].op), answer, affected)
           /\ Noted(t, answer, affected)
    BY <2>2 DEF Send
  <2>4. /\ call'[t].op = call[t].op
        /\ call'[t].result = Result(call[t].op, answer, affected)
    <3> DEFINE r == [op |-> call[t].op, answer |-> answer, result |-> Result(call[t].op, answer, affected)]
    <3>1. call' = [call EXCEPT ![t] = r]
      BY <2>3, NotedCall
    <3>2. r.op = call[t].op /\ r.result = Result(call[t].op, answer, affected)
      OBVIOUS
    <3> HIDE DEF r
    <3>3. call'[t] = r
      BY <3>1 DEF IInv, Typed
    <3> QED
      BY <3>2, <3>3
  <2>5. call[t].op = op /\ answer = "ok" /\ Text(op) = op
    BY <2>1, <2>4 DEF Result, Text
  <2>6. server' = Served(server, lease[t], op)
    BY <2>3, <2>5 DEF Transmit
  <2>7. /\ server \in Servers /\ Apart(server) /\ lease[t] \in Conns
        /\ server.undo[lease[t]][i] = tx[t].before[i] /\ tx[t].before[i] # server.rows[i]
    BY <2>1 DEF TxInv, Sessions, TxTold, TxOf, IInv, OneUser
  <2>8. CASE op = "commit"
    <3>1. server'.rows = server.rows
      <4>1. server' = Committed(server, lease[t])
        BY <2>6, <2>8, ServedCases
      <4> QED
        BY <2>7, <4>1, CommittedKeeps
    <3> QED
      BY <2>7, <2>8, <3>1
  <2>9. CASE op = "rollback"
    <3>1. server' = Ended(server, {lease[t]})
      BY <2>6, <2>9, ServedCases DEF RolledBack
    <3>2. {lease[t]} \in SUBSET Conns
      BY <2>7
    <3>3. server'.rows[i] = server.undo[lease[t]][i]
      BY <2>7, <3>1, <3>2, EndedKeeps
    <3> QED
      BY <2>7, <2>9, <3>3
  <2> QED
    BY <2>8, <2>9
<1>2. Spec => [][\A t \in Threads, i \in Ids : Held(t, i)]_vars
  BY <1>1, SpecKeepsTxInv, PTL DEF Spec
<1> QED
  BY <1>2 DEF TransactionHolds

-----------------------------------------------------------------------------
(* What is left of the types. *)
Bounded ==
  /\ linked \subseteq Conns /\ inTrans \subseteq Conns
  /\ hurt \subseteq Threads
  /\ troubles \in 0..MaxTroubles

LEMMA TransmitBounded ==
  ASSUME Bounded, NEW c \in Conns, NEW text, NEW answer, NEW affected,
         Transmit(c, text, answer, affected)
  PROVE  linked' \subseteq Conns /\ inTrans' \subseteq Conns /\ troubles' \in 0..MaxTroubles
PROOF
  BY BoundAssumption DEF Bounded, Transmit, Relinked, NoLongerBelieved, Believed

LEMMA NextKeepsBounded == IInv /\ Bounded /\ [Next]_vars => Bounded'
PROOF
<1> SUFFICES ASSUME IInv, Bounded, [Next]_vars PROVE Bounded'
  OBVIOUS
<1>1. ASSUME NEW t \in Threads, step[t] \notin {"start", "done"} PROVE lease[t] \in Conns
  BY <1>1 DEF IInv, OneUser
<1>2. ASSUME NEW t \in Threads, GetDBConn(t) PROVE Bounded'
  BY <1>2 DEF GetDBConn, envVars, history, Bounded
<1>3. ASSUME NEW t \in Threads, Ping(t) PROVE Bounded'
  BY <1>1, <1>3 DEF Ping, envVars, Bounded, Relinked, NoLongerBelieved
<1>4. ASSUME NEW t \in Threads, NEW ops, Send(t, ops) PROVE Bounded'
  BY <1>1, <1>4, TransmitBounded DEF Send, Noted, Bounded
<1>5. ASSUME NEW t \in Threads, StmtPrepare(t) PROVE Bounded'
  BY <1>1, <1>5, TransmitBounded DEF StmtPrepare, Noted, Bounded
<1>6. ASSUME NEW t \in Threads, StmtExecute(t) PROVE Bounded'
  <2>1. linked' \subseteq Conns /\ inTrans' \subseteq Conns /\ troubles' \in 0..MaxTroubles
    BY <1>1, <1>6, TransmitBounded DEF StmtExecute, Bounded, Relinked, NoLongerBelieved
  <2>2. hurt' \subseteq hurt \cup {t}
    BY <1>6 DEF StmtExecute, Noted
  <2> QED
    BY <2>1, <2>2 DEF Bounded
<1>7. ASSUME NEW t \in Threads, StmtClose(t) \/ RelConn(t) PROVE Bounded'
  BY <1>7 DEF StmtClose, RelConn, connVars, envVars, history, Bounded
<1>8. ASSUME NEW c \in Conns, LinkBreaks(c) PROVE Bounded'
  BY <1>8, BoundAssumption DEF LinkBreaks, Hurt, Bounded
<1>9. CASE ServerStops
  BY <1>9, BoundAssumption DEF ServerStops, Hurt, Bounded
<1>10. CASE ServerStarts \/ UNCHANGED vars
  BY <1>10 DEF ServerStarts, vars, connVars, envVars, history, Bounded
<1> QED
  BY <1>2, <1>3, <1>4, <1>5, <1>6, <1>7, <1>8, <1>9, <1>10
  DEF Next, ThreadStep, insertUser, ExecuteDropOrCreate, ExecuteUpdate, ExecuteQuery,
      Transaction, Terminated

(* TypeOK: the values of the variables, and of the rows at the server.      *)
THEOREM TypeCorrect == Spec => []TypeOK
PROOF
<1>1. Init => Bounded
  <2>1. 0 \in 0..MaxTroubles
    BY BoundAssumption
  <2> QED
    BY <2>1 DEF Init, Bounded
<1>2. IInv /\ TxInv /\ Bounded => TypeOK
  <2> SUFFICES ASSUME IInv, TxInv, Bounded PROVE TypeOK
    OBVIOUS
  <2>1. /\ idle \subseteq Conns /\ lease \in [Threads -> Conns \cup {NULL}]
        /\ step \in [Threads -> {"start", "hold", "send", "execute", "close", "done"}]
    BY DEF IInv, Typed, Steps
  <2>2. \A t \in Threads : Range(plan[t].calls) \subseteq Ops
    <3> SUFFICES ASSUME NEW t \in Threads PROVE Range(plan[t].calls) \subseteq Ops
      OBVIOUS
    <3>1. plan[t].calls \in Seq(Ops)
      BY DEF TxInv, PlansGoOn
    <3>2. \A i \in DOMAIN plan[t].calls : plan[t].calls[i] \in Ops
      BY <3>1
    <3> QED
      BY <3>2 DEF Range
  <2>3. stmtOpen \subseteq Conns
    BY DEF IInv, OneUser, TxInv, PlansGoOn
  <2>4. /\ server.rows \in [Ids -> RowValues] /\ server.trans \subseteq Conns
        /\ server.undo \in [Conns -> [Ids -> RowValues \cup {"kept"}]]
    BY DEF TxInv, Sessions, Servers, Images
  <2> QED
    BY <2>1, <2>2, <2>3, <2>4 DEF Bounded, TypeOK
<1> QED
  BY <1>1, <1>2, NextKeepsBounded, SpecKeepsTxInv, PTL DEF Spec
=============================================================================
