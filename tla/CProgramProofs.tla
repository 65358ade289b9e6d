-------------------------- MODULE CProgramProofs ---------------------------
(***************************************************************************)
(* Proofs about the programs written in C: the asynchronous client and the *)
(* blocking one of HttpClient/, and MakeGuid.c, each for any values of its *)
(* constants.                                                              *)
(***************************************************************************)
EXTENDS AsyncHttp, HttpClient, Guid, SequenceTheorems, TLAPS

-----------------------------------------------------------------------------
(* The asynchronous client: any requests, descriptors and ep_args.          *)

(* The types of what the argument is about. *)
Typed ==
  /\ fd \in Fds \cup {NULL}
  /\ sock \in [Fds -> Requests \cup {NULL}]
  /\ watched \in [Fds -> Args \cup {NULL}]
  /\ sockfd \in [Args -> Fds \cup {NULL}]
  /\ batch \subseteq Args
  /\ at \in {"wait", "recv", "close", "free"}
  /\ asked \in [Args -> Requests \cup {NULL}]
  /\ calls \in [Requests -> Nat]

(* A request has one descriptor; epoll and its ep_arg agree on both, and    *)
(* main's own is not in epoll yet.                                          *)
Paired ==
  /\ \A f, g \in Fds : sock[f] = sock[g] /\ sock[f] # NULL => f = g
  /\ \A f \in Fds : sock[f] # NULL => sock[f] \in issued
  /\ \A f \in Fds : watched[f] # NULL =>
       /\ sockfd[watched[f]] = f /\ sock[f] # NULL
       /\ asked[watched[f]] = sock[f]
  /\ fd # NULL => sock[fd] # NULL /\ watched[fd] = NULL

(* The thread's ep_arg is its own, and out of epoll before it is freed. *)
OwnArg ==
  /\ at # "wait" => cur \in Args \ batch
  /\ at = "free" => cur \in Allocated /\ \A f \in Fds : watched[f] # cur

(* A request that was called back was so once, and has no descriptor but    *)
(* the one about to be closed.                                              *)
CalledIsOver ==
  \A r \in Requests : calls[r] # 0 =>
    /\ calls[r] = 1
    /\ r \in issued
    /\ \A f \in Fds : sock[f] = r => at = "close" /\ f = sockfd[cur]

IInv ==
  /\ Typed
  /\ Paired
  /\ OwnArg
  /\ CalledIsOver
  /\ EventsAreValid
  /\ NothingLeftBehind

(* The ep_args whose events are still to be handled. *)
Pending == batch \cup (IF at \in {"recv", "close"} THEN {cur} ELSE {})

-----------------------------------------------------------------------------
LEMMA InitEstablishesIInv == Init => IInv
PROOF
<1> SUFFICES ASSUME Init PROVE IInv
  OBVIOUS
<1>1. Typed /\ Paired /\ OwnArg /\ CalledIsOver
  BY DEF Init, Typed, Paired, OwnArg, CalledIsOver
<1>2. EventsAreValid /\ NothingLeftBehind
  BY DEF Init, EventsAreValid, NothingLeftBehind, Allocated
<1> QED
  BY <1>1, <1>2 DEF IInv

(* A socket that is opened was free: no ep_arg, no event and no other       *)
(* request has to do with it.                                               *)
LEMMA SocketOpens ==
  ASSUME IInv, NEW r \in Requests \ issued, NEW f \in FreeFds,
         sock' = [sock EXCEPT ![f] = r],
         issued' = issued \cup {r},
         UNCHANGED <<threadVars, argVars, watched, calls>>,
         \/ fd' = f /\ failed' = failed
         \/ fd' = fd /\ failed' = TRUE,
         fd = NULL
  PROVE  IInv'
PROOF
<1>1. f \in Fds /\ sock[f] = NULL /\ r # NULL /\ NULL \notin Fds
  BY RequestAssumption, FdAssumption DEF FreeFds
<1>2. /\ sock'[f] = r
      /\ \A g \in Fds : g # f => sock'[g] = sock[g]
      /\ UNCHANGED <<batch, at, cur, watched, sockfd, asked, calls>>
  BY <1>1 DEF IInv, Typed, threadVars, argVars
<1>3. Typed'
  BY <1>1, <1>2 DEF IInv, Typed
<1>4. watched[f] = NULL
  BY <1>1 DEF IInv, Paired
<1>5. \A g \in Fds : sock[g] # r
  BY <1>1 DEF IInv, Paired
<1>6. Paired'
  BY <1>1, <1>2, <1>4, <1>5 DEF IInv, Paired
<1>7. OwnArg'
  BY <1>2 DEF IInv, OwnArg, Allocated
<1>8. CalledIsOver'
  BY <1>1, <1>2 DEF IInv, CalledIsOver
<1>9. EventsAreValid'
  BY <1>1, <1>2 DEF IInv, EventsAreValid, Allocated, Typed
<1>10. NothingLeftBehind'
  BY <1>1, <1>2 DEF IInv, NothingLeftBehind, Allocated
<1> QED
  BY <1>3, <1>6, <1>7, <1>8, <1>9, <1>10 DEF IInv

LEMMA OpenSocketKeeps ==
  ASSUME IInv, NEW r \in Requests, OpenSocket(r)
  PROVE  IInv'
PROOF
<1>1. PICK f \in FreeFds : sock' = [sock EXCEPT ![f] = r] /\ fd' = f
  BY DEF OpenSocket, Lowest
<1> QED
  BY <1>1, SocketOpens DEF OpenSocket, Begin, netVars

LEMMA ConnectFailsKeeps ==
  ASSUME IInv, NEW r \in Requests, ConnectFails(r)
  PROVE  IInv'
PROOF
<1>1. CASE \E f \in FreeFds : sock' = [sock EXCEPT ![f] = r] /\ failed' = TRUE
  BY <1>1, SocketOpens DEF ConnectFails, Begin
<1>2. CASE UNCHANGED <<sock, failed>>
  <2>1. /\ issued \subseteq issued'
        /\ UNCHANGED <<fd, failed, sock, watched, sockfd, asked, batch, at, cur, calls>>
    BY <1>2 DEF ConnectFails, Begin, threadVars, argVars
  <2> QED
    BY <2>1 DEF IInv, Typed, Paired, OwnArg, CalledIsOver, EventsAreValid,
                NothingLeftBehind, Allocated
<1> QED
  BY <1>1, <1>2 DEF ConnectFails, Lowest

(* The ep_arg that is registered was not allocated, so nothing points to it. *)
LEMMA RegisterKeeps ==
  ASSUME IInv, NEW a \in Args, Register(a)
  PROVE  IInv'
PROOF
<1>1. /\ fd \in Fds /\ NULL \notin Fds /\ a # NULL
      /\ sockfd[a] = NULL
      /\ sock[fd] # NULL /\ watched[fd] = NULL
  BY FdAssumption, RequestAssumption DEF Register, Allocate, Allocated, IInv, Typed, Paired
<1>2. /\ sockfd'[a] = fd /\ \A b \in Args : b # a => sockfd'[b] = sockfd[b]
      /\ watched'[fd] = a /\ \A g \in Fds : g # fd => watched'[g] = watched[g]
      /\ asked'[a] = sock[fd] /\ \A b \in Args : b # a => asked'[b] = asked[b]
      /\ fd' = NULL
      /\ UNCHANGED <<issued, failed, sock, batch, at, cur, calls>>
  BY <1>1 DEF Register, Allocate, IInv, Typed, threadVars
<1>3. Typed'
  BY <1>1, <1>2 DEF Register, Allocate, IInv, Typed
<1>4. \A g \in Fds : watched[g] # a
  BY <1>1 DEF IInv, Paired
<1>5. \A b \in Pending : b # a /\ b \in Args /\ sockfd[b] # fd
  BY <1>1, RequestAssumption DEF Pending, IInv, EventsAreValid, OwnArg, Allocated, Typed
<1>6. Paired'
  BY <1>1, <1>2, <1>4 DEF IInv, Paired, Typed
<1>7. OwnArg'
  BY <1>1, <1>2 DEF IInv, OwnArg, Allocated
<1>8. CalledIsOver'
  <2>1. at = "close" => cur \in Pending
    BY DEF Pending
  <2> QED
    BY <1>2, <1>5, <2>1 DEF IInv, CalledIsOver
<1>9. EventsAreValid'
  <2>1. Pending' = Pending
    BY <1>2 DEF Pending
  <2>2. ASSUME NEW b \in Pending
        PROVE  b \in Allocated' /\ sock'[sockfd'[b]] # NULL /\ watched'[sockfd'[b]] = b
    <3>1. /\ sockfd[b] \in Fds /\ sock[sockfd[b]] # NULL /\ watched[sockfd[b]] = b
          /\ sockfd'[b] = sockfd[b]
      BY <1>2, <1>5 DEF Pending, IInv, EventsAreValid, Allocated, Typed
    <3> QED
      BY <1>1, <1>2, <1>5, <3>1 DEF Allocated
  <2> QED
    BY <2>1, <2>2 DEF EventsAreValid, Pending
<1>10. NothingLeftBehind'
  <2>1. ASSUME ~failed', NEW f \in Fds, sock'[f] # NULL
        PROVE  watched'[f] # NULL
    BY <1>1, <1>2, <2>1 DEF IInv, NothingLeftBehind
  <2>2. ASSUME ~failed', NEW b \in Allocated'
        PROVE  watched'[sockfd'[b]] = b \/ (b = cur' /\ at' = "free")
    <3>1. CASE b = a
      BY <1>2, <3>1
    <3>2. CASE b # a
      <4>1. b \in Allocated /\ sockfd'[b] = sockfd[b] /\ sockfd[b] \in Fds
        BY <1>2, <3>2 DEF Allocated, IInv, Typed
      <4>2. watched[sockfd[b]] = b \/ (b = cur /\ at = "free")
        BY <1>2, <2>2, <4>1 DEF IInv, NothingLeftBehind
      <4>3. watched[sockfd[b]] = b => sockfd[b] # fd
        BY <1>1, <4>1, RequestAssumption DEF Allocated
      <4> QED
        BY <1>2, <4>1, <4>2, <4>3
    <3> QED
      BY <3>1, <3>2
  <2> QED
    BY <2>1, <2>2 DEF NothingLeftBehind
<1> QED
  BY <1>3, <1>6, <1>7, <1>8, <1>9, <1>10 DEF IInv

LEMMA RegisterFailsKeeps ==
  ASSUME IInv, RegisterFails
  PROVE  IInv'
PROOF
<1>1. /\ fd \in Fds /\ NULL \notin Fds /\ fd' = NULL /\ failed' = TRUE
      /\ UNCHANGED <<issued, sock, watched, batch, at, cur, calls>>
      /\ UNCHANGED argVars \/ \E a \in Args : Allocate(a)
  BY FdAssumption DEF RegisterFails, IInv, Typed, threadVars
<1>2. \A b \in Allocated :
        b \in Args /\ sockfd'[b] = sockfd[b] /\ asked'[b] = asked[b] /\ b \in Allocated'
  BY <1>1 DEF Allocate, Allocated, IInv, Typed, argVars
<1>3. Typed'
  BY <1>1 DEF IInv, Typed, Allocate, argVars
<1>4. \A f \in Fds : watched[f] # NULL => watched[f] \in Allocated
  BY <1>1 DEF IInv, Paired, Typed, Allocated
<1>5. Paired'
  BY <1>1, <1>2, <1>4 DEF IInv, Paired
<1>6. OwnArg'
  BY <1>1, <1>2 DEF IInv, OwnArg
<1>7. CalledIsOver'
  <2>1. at = "close" => cur \in Allocated
    BY DEF IInv, EventsAreValid
  <2> QED
    BY <1>1, <1>2, <2>1 DEF IInv, CalledIsOver
<1>8. EventsAreValid'
  BY <1>1, <1>2 DEF IInv, EventsAreValid
<1>9. NothingLeftBehind'
  BY <1>1 DEF NothingLeftBehind
<1> QED
  BY <1>3, <1>5, <1>6, <1>7, <1>8, <1>9 DEF IInv

(* What the servers do, and main's return, touch nothing of this.           *)
LEMMA OutsideKeeps ==
  ASSUME IInv,
         UNCHANGED <<issued, fd, failed, sock, watched, sockfd, asked, batch, at, cur, calls>>
  PROVE  IInv'
PROOF
<1> QED
  BY DEF IInv, Typed, Paired, OwnArg, CalledIsOver, EventsAreValid, NothingLeftBehind, Allocated

LEMMA SegmentKeeps ==
  ASSUME IInv, NEW r \in Requests, Segment(r)
  PROVE  IInv'
PROOF
<1> QED
  BY OutsideKeeps DEF Segment, mainVars, threadVars, argVars

LEMMA ServerClosesKeeps ==
  ASSUME IInv, NEW r \in Requests, ServerCloses(r)
  PROVE  IInv'
PROOF
<1> QED
  BY OutsideKeeps DEF ServerCloses, mainVars, threadVars, argVars

LEMMA ExitKeeps ==
  ASSUME IInv, Exit
  PROVE  IInv'
PROOF
<1> QED
  BY OutsideKeeps DEF Exit, threadVars, argVars

(* epoll_wait reports descriptors that are registered, and so open. *)
LEMMA WaitKeeps ==
  ASSUME IInv, Wait
  PROVE  IInv'
PROOF
<1>1. /\ at = "wait" /\ batch' = ReadyArgs
      /\ UNCHANGED <<issued, fd, failed, sock, watched, sockfd, asked, at, cur, calls>>
  BY DEF Wait, mainVars, argVars
<1>2. \A a \in ReadyArgs : \E f \in Fds :
        a = watched[f] /\ a \in Args /\ sockfd[a] = f /\ sock[f] # NULL
  BY DEF ReadyArgs, IInv, Typed, Paired
<1>3. Typed'
  BY <1>1, <1>2 DEF IInv, Typed
<1>4. EventsAreValid'
  BY <1>1, <1>2, FdAssumption DEF EventsAreValid, Allocated
<1>5. Paired' /\ OwnArg' /\ CalledIsOver' /\ NothingLeftBehind'
  BY <1>1 DEF IInv, Paired, OwnArg, CalledIsOver, NothingLeftBehind, Allocated
<1> QED
  BY <1>3, <1>4, <1>5 DEF IInv

LEMMA NextEventKeeps ==
  ASSUME IInv, NEW a \in Args, NextEvent(a)
  PROVE  IInv'
PROOF
<1>1. /\ at = "wait" /\ a \in batch /\ batch' = batch \ {a} /\ cur' = a /\ at' = "recv"
      /\ UNCHANGED <<issued, fd, failed, sock, watched, sockfd, asked, calls>>
  BY DEF NextEvent, mainVars, argVars
<1>2. Typed' /\ OwnArg' /\ EventsAreValid'
  BY <1>1 DEF IInv, Typed, OwnArg, EventsAreValid, Allocated
<1>3. Paired' /\ CalledIsOver' /\ NothingLeftBehind'
  BY <1>1 DEF IInv, Paired, CalledIsOver, NothingLeftBehind, Allocated
<1> QED
  BY <1>2, <1>3 DEF IInv

(* The ep_arg that is called back is of the request that has the            *)
(* descriptor, so of one that was not called back before.                   *)
LEMMA RecvAndCallKeeps ==
  ASSUME IInv, RecvAndCall
  PROVE  IInv'
PROOF
<1> DEFINE r == asked[cur]
<1>1. /\ at = "recv" /\ at' = "close" /\ calls' = [calls EXCEPT ![r] = @ + 1]
      /\ UNCHANGED <<issued, fd, failed, sock, watched, sockfd, asked, batch, cur>>
  BY DEF RecvAndCall, mainVars, argVars
<1>2. /\ sockfd[cur] \in Fds /\ cur # NULL
      /\ sock[sockfd[cur]] = r /\ r \in Requests /\ r \in issued
  BY <1>1, RequestAssumption DEF IInv, Typed, OwnArg, Paired, EventsAreValid, Allocated
<1>3. Typed'
  BY <1>1, <1>2 DEF IInv, Typed
<1>4. CalledIsOver'
  <2>1. calls[r] = 0
    BY <1>1, <1>2 DEF IInv, CalledIsOver
  <2>2. ASSUME NEW q \in Requests, calls'[q] # 0
        PROVE  /\ calls'[q] = 1 /\ q \in issued
               /\ \A f \in Fds : sock[f] = q => f = sockfd[cur]
    <3>1. CASE q = r
      BY <1>1, <1>2, <2>1, <3>1, RequestAssumption DEF IInv, Typed, Paired
    <3>2. CASE q # r
      <4>1. calls'[q] = calls[q]
        BY <1>1, <3>2 DEF IInv, Typed
      <4> QED
        BY <1>1, <2>2, <4>1 DEF IInv, CalledIsOver
    <3> QED
      BY <3>1, <3>2
  <2> QED
    BY <1>1, <2>2 DEF CalledIsOver
<1>5. Paired' /\ OwnArg' /\ EventsAreValid' /\ NothingLeftBehind'
  BY <1>1 DEF IInv, Paired, OwnArg, EventsAreValid, NothingLeftBehind, Allocated
<1> QED
  BY <1>3, <1>4, <1>5 DEF IInv

(* The descriptor that is closed is that of one ep_arg only. *)
LEMMA CloseSocketKeeps ==
  ASSUME IInv, CloseSocket
  PROVE  IInv'
PROOF
<1> DEFINE f == sockfd[cur]
<1>1. /\ at = "close" /\ at' = "free"
      /\ watched' = [watched EXCEPT ![f] = NULL]
      /\ sock' = [sock EXCEPT ![f] = NULL]
      /\ UNCHANGED <<issued, fd, failed, sockfd, asked, batch, cur, calls>>
  BY DEF CloseSocket, ClosedSockets, mainVars, argVars
<1>2. /\ f \in Fds /\ cur \in Args \ batch /\ cur \in Allocated
      /\ watched[f] = cur /\ sock[f] # NULL /\ cur # NULL
  BY <1>1, RequestAssumption DEF IInv, Typed, OwnArg, EventsAreValid, Allocated
<1>3. /\ sock'[f] = NULL /\ watched'[f] = NULL
      /\ \A g \in Fds : g # f => sock'[g] = sock[g] /\ watched'[g] = watched[g]
  BY <1>1, <1>2 DEF IInv, Typed
<1>4. Typed'
  BY <1>1, <1>2 DEF IInv, Typed
<1>5. fd # f
  BY <1>2, FdAssumption DEF IInv, Paired
<1>6. Paired'
  BY <1>1, <1>2, <1>3, <1>5 DEF IInv, Paired, Typed
<1>7. OwnArg'
  BY <1>1, <1>2, <1>3 DEF IInv, Paired, OwnArg, Allocated
<1>8. CalledIsOver'
  BY <1>1, <1>2, <1>3, RequestAssumption DEF IInv, CalledIsOver
<1>9. EventsAreValid'
  <2>1. ASSUME NEW a \in batch
        PROVE  a \in Allocated /\ sockfd[a] \in Fds /\ sockfd[a] # f
               /\ sock[sockfd[a]] # NULL /\ watched[sockfd[a]] = a
    BY <1>2 DEF IInv, EventsAreValid, Allocated, Typed
  <2> QED
    BY <1>1, <1>3, <2>1 DEF EventsAreValid, Allocated
<1>10. NothingLeftBehind'
  <2>1. \A a \in Allocated : sockfd[a] \in Fds /\ (a # cur /\ watched[sockfd[a]] = a => sockfd[a] # f)
    BY <1>2 DEF Allocated, IInv, Typed
  <2> QED
    BY <1>1, <1>3, <2>1 DEF IInv, NothingLeftBehind, Allocated
<1> QED
  BY <1>4, <1>6, <1>7, <1>8, <1>9, <1>10 DEF IInv

LEMMA FreeArgKeeps ==
  ASSUME IInv, FreeArg
  PROVE  IInv'
PROOF
<1>1. /\ at = "free" /\ at' = "wait"
      /\ sockfd' = [sockfd EXCEPT ![cur] = NULL]
      /\ UNCHANGED <<issued, fd, failed, sock, watched, asked, batch, calls>>
  BY DEF FreeArg, mainVars
<1>2. cur \in Args \ batch /\ \A f \in Fds : watched[f] # cur
  BY <1>1 DEF IInv, OwnArg
<1>3. \A a \in Args : a # cur => sockfd'[a] = sockfd[a]
  BY <1>1, <1>2 DEF IInv, Typed
<1>4. sockfd'[cur] = NULL
  BY <1>1, <1>2 DEF IInv, Typed
<1>5. Typed' /\ OwnArg'
  BY <1>1, <1>2 DEF IInv, Typed, OwnArg
<1>6. Paired'
  BY <1>1, <1>2, <1>3 DEF IInv, Paired, Typed
<1>7. CalledIsOver'
  BY <1>1 DEF IInv, CalledIsOver
<1>8. EventsAreValid'
  BY <1>1, <1>2, <1>3 DEF IInv, EventsAreValid, Allocated
<1>9. NothingLeftBehind'
  BY <1>1, <1>2, <1>3, <1>4 DEF IInv, NothingLeftBehind, Allocated
<1> QED
  BY <1>5, <1>6, <1>7, <1>8, <1>9 DEF IInv

LEMMA NextKeepsIInv == IInv /\ [Next]_vars => IInv'
PROOF
<1> SUFFICES ASSUME IInv, [Next]_vars PROVE IInv'
  OBVIOUS
<1>1. CASE \E r \in Requests :
             OpenSocket(r) \/ ConnectFails(r) \/ Segment(r) \/ ServerCloses(r)
  BY <1>1, OpenSocketKeeps, ConnectFailsKeeps, SegmentKeeps, ServerClosesKeeps
<1>2. CASE (\E a \in Args : Register(a)) \/ RegisterFails \/ Exit
  BY <1>2, RegisterKeeps, RegisterFailsKeeps, ExitKeeps
<1>3. CASE ThreadStep
  BY <1>3, WaitKeeps, NextEventKeeps, RecvAndCallKeeps, CloseSocketKeeps, FreeArgKeeps
     DEF ThreadStep
<1>4. CASE UNCHANGED vars
  BY <1>4, OutsideKeeps DEF vars, mainVars, threadVars, argVars
<1> QED
  BY <1>1, <1>2, <1>3, <1>4 DEF Next

LEMMA SpecKeepsIInv == Spec => []IInv
PROOF
<1> QED
  BY InitEstablishesIInv, NextKeepsIInv, PTL DEF Spec

-----------------------------------------------------------------------------
(* EventsAreValid: the thread never follows an ep_arg that was freed, nor   *)
(* takes a descriptor that was closed, or given to main again, for its own. *)
THEOREM EventsAreValidHolds == Spec => []EventsAreValid
PROOF
<1>1. IInv => EventsAreValid
  BY DEF IInv
<1> QED
  BY <1>1, SpecKeepsIInv, PTL

(* NothingLeftBehind: unless a call failed, async_http_client_request and   *)
(* the thread's loop close and free all they open and allocate.             *)
THEOREM NothingLeftBehindHolds == Spec => []NothingLeftBehind
PROOF
<1>1. IInv => NothingLeftBehind
  BY DEF IInv
<1> QED
  BY <1>1, SpecKeepsIInv, PTL

(* CalledOnce: the loop of the thread calls back at most once for each      *)
(* request, also when its ep_arg and its descriptor have come to be those   *)
(* of another.                                                              *)
THEOREM CalledOnceHolds == Spec => []CalledOnce
PROOF
<1>1. IInv => CalledOnce
  BY DEF IInv, Typed, CalledIsOver, CalledOnce
<1> QED
  BY <1>1, SpecKeepsIInv, PTL

LEMMA TypeKept == TypeOK /\ [Next]_vars => TypeOK'
<1> SUFFICES ASSUME TypeOK, [Next]_vars PROVE TypeOK' OBVIOUS
<1> USE DEF TypeOK, mainVars, threadVars, netVars, argVars
<1>1. ASSUME NEW r \in Requests, OpenSocket(r) \/ ConnectFails(r) PROVE TypeOK'
  BY <1>1 DEF OpenSocket, ConnectFails, Begin
<1>2. ASSUME NEW r \in Requests, Segment(r) PROVE TypeOK' BY <1>2 DEF Segment
<1>3. ASSUME NEW r \in Requests, ServerCloses(r) PROVE TypeOK' BY <1>3 DEF ServerCloses
<1>4. ASSUME NEW a \in Args, Register(a) PROVE TypeOK' BY <1>4 DEF Register, Allocate
<1>5. CASE RegisterFails BY <1>5 DEF RegisterFails, Allocate
<1>6. CASE Exit BY <1>6 DEF Exit
<1>7. CASE Wait BY <1>7 DEF Wait, ReadyArgs
<1>8. CASE RecvAndCall
  <2> DEFINE r == asked[cur]
  <2>1. calls' = [calls EXCEPT ![r] = @ + 1] BY <1>8 DEF RecvAndCall
  <2> HIDE DEF r
  <2>2. calls' \in [Requests -> Nat]
    <3>1. CASE r \in Requests BY <2>1, <3>1
    <3>2. CASE r \notin Requests
      <4>1. calls' = calls BY <2>1, <3>2
      <4> QED BY <4>1
    <3> QED BY <3>1, <3>2
  <2> QED BY <1>8, <2>2 DEF RecvAndCall
<1>9. CASE CloseSocket BY <1>9 DEF CloseSocket, ClosedSockets
<1>10. CASE FreeArg BY <1>10 DEF FreeArg
<1>11. ASSUME NEW a \in Args, NextEvent(a) PROVE TypeOK' BY <1>11 DEF NextEvent
<1>12. CASE UNCHANGED vars BY <1>12 DEF vars
<1> QED
  BY <1>1, <1>2, <1>3, <1>4, <1>5, <1>6, <1>7, <1>8, <1>9, <1>10, <1>11, <1>12
  DEF Next, ThreadStep

(* TypeOK: the values of the variables.                                     *)
THEOREM TypeCorrect == Spec => []TypeOK
<1>1. ASSUME Init PROVE TypeOK
  <2>1. [r \in Requests |-> 0] \in [Requests -> Nat] OBVIOUS
  <2> QED BY <1>1, <2>1 DEF Init, TypeOK
<1> QED BY <1>1, TypeKept, PTL DEF Spec

-----------------------------------------------------------------------------
(* The blocking client: an answer and a buffer of any length, and any time  *)
(* limit.                                                                   *)

Pieces == 0..Beyond
Texts == Seq(Pieces)

HttpTyped ==
  /\ stage \in {"resolve", "connect", "send", "select", "recv", "noSocket",
               "returned", "crashed"}
  /\ tv \in 0..Budget /\ waited \in Nat
  /\ buffer \in Texts /\ result \in Texts /\ unread \in Texts
  /\ sent \in 0..MaxPieces
  /\ more \in BOOLEAN /\ fin \in BOOLEAN /\ reset \in BOOLEAN /\ wasReset \in BOOLEAN

(* Nothing is sent before there is a connection, select uses up its ticks,  *)
(* and a reset that is still to be reported has come.                       *)
HttpInv ==
  /\ HttpTyped
  /\ stage \in {"resolve", "connect", "noSocket"} => sent = 0
  /\ tv + waited = Budget
  /\ reset => wasReset
  /\ AnswerIsRead

(* What recv takes from the front goes to the end of the text.              *)
LEMMA TakenInOrder ==
  ASSUME NEW S, NEW s \in Seq(S), NEW t \in Seq(S), NEW len \in 1..Len(t)
  PROVE  /\ SubSeq(t, 1, len) \in Seq(S) /\ SubSeq(t, len + 1, Len(t)) \in Seq(S)
         /\ (s \o SubSeq(t, 1, len)) \o SubSeq(t, len + 1, Len(t)) = s \o t
<1> DEFINE front == SubSeq(t, 1, len)
           rest == SubSeq(t, len + 1, Len(t))
<1>1. Len(t) \in Nat /\ \A i \in 1..Len(t) : t[i] \in S BY LenProperties, ElementOfSeq
<1>2. front \in Seq(S) /\ rest \in Seq(S)
  <2>1. \A i \in 1..len : t[i] \in S BY <1>1
  <2>2. \A i \in (len + 1)..Len(t) : t[i] \in S BY <1>1
  <2> QED BY <1>1, <2>1, <2>2, SubSeqProperties
<1>3. front \o rest = t
  <2>1. front \o rest = SubSeq(t, 1, Len(t)) BY <1>1, ConcatAdjacentSubSeq
  <2> QED BY <2>1, SubSeqFull
<1> HIDE DEF front, rest
<1>4. (s \o front) \o rest = s \o (front \o rest) BY <1>2, ConcatAssociative
<1> QED BY <1>2, <1>3, <1>4 DEF front, rest

LEMMA AppendedLast ==
  ASSUME NEW S, NEW s \in Seq(S), NEW t \in Seq(S), NEW e \in S
  PROVE  s \o Append(t, e) = Append(s \o t, e)
<1>1. Append(t, e) = t \o <<e>> /\ Append(s \o t, e) = (s \o t) \o <<e>>
  BY AppendIsConcat, ConcatProperties
<1>2. <<e>> \in Seq(S) OBVIOUS
<1> QED BY <1>1, <1>2, ConcatAssociative

(* The answer so far goes on with the next piece.                           *)
LEMMA AnswerGoesOn ==
  ASSUME NEW n \in 0..(MaxPieces - 1),
         NEW s \in Texts, NEW t \in Texts, s \o t = Answer(n)
  PROVE  s \o Append(t, n + 1) = Answer(n + 1)
<1> DEFINE a == Answer(n)
           b == Answer(n + 1)
<1>1. n \in Nat /\ n + 1 \in Pieces /\ MaxPieces \in Nat BY SizeAssumption DEF Pieces, Beyond
<1>2. a \in Texts /\ b \in Texts /\ Len(a) = n /\ Len(b) = n + 1
      /\ (\A i \in 1..n : a[i] = i) /\ \A i \in 1..(n + 1) : b[i] = i
  BY <1>1 DEF Answer, Texts, Pieces, Beyond
<1> HIDE DEF a, b
<1>3. Append(a, n + 1) \in Texts /\ Len(Append(a, n + 1)) = n + 1
      /\ (\A i \in 1..n : Append(a, n + 1)[i] = a[i]) /\ Append(a, n + 1)[n + 1] = n + 1
  BY <1>1, <1>2, AppendProperties DEF Texts
<1>4. Append(a, n + 1) = b
  <2>1. \A i \in 1..(n + 1) : Append(a, n + 1)[i] = b[i] BY <1>1, <1>2, <1>3
  <2> QED BY <1>2, <1>3, <2>1, SeqEqual DEF Texts
<1>5. s \o Append(t, n + 1) = Append(s \o t, n + 1) BY <1>1, AppendedLast DEF Texts
<1> QED BY <1>4, <1>5 DEF a, b

(* The steps that leave the answer and its pieces where they are.           *)
LEMMA OtherStepsKeep ==
  ASSUME HttpInv,
         \/ Resolve \/ Connect \/ NoSocket
         \/ SelectReady \/ SelectWaits \/ SelectTimesOut
         \/ RecvEnd \/ ServerGoesOn \/ ServerEnds \/ Reset
         \/ UNCHANGED httpVars
  PROVE  HttpInv'
<1> USE SizeAssumption
<1> USE DEF HttpInv, HttpTyped, AnswerIsRead, Answer,
            clientVars, serverVars
<1>1. CASE Resolve BY <1>1 DEF Resolve
<1>2. CASE Connect BY <1>2 DEF Connect
<1>3. CASE NoSocket BY <1>3 DEF NoSocket
<1>4. CASE SelectReady BY <1>4 DEF SelectReady
<1>5. CASE SelectWaits BY <1>5 DEF SelectWaits, Remaining
<1>6. CASE SelectTimesOut
  BY <1>6 DEF SelectTimesOut, IsReadable
<1>7. CASE RecvEnd BY <1>7 DEF RecvEnd, EndOfAnswer
<1>8. CASE ServerEnds
  BY <1>8 DEF ServerEnds, Connected
<1>9. CASE Reset BY <1>9 DEF Reset, Connected
<1>10. CASE UNCHANGED httpVars BY <1>10 DEF httpVars
<1>11. CASE ServerGoesOn
  BY <1>11 DEF ServerGoesOn, Connected
<1> QED BY <1>1, <1>2, <1>3, <1>4, <1>5, <1>6, <1>7, <1>8, <1>9, <1>10, <1>11

LEMMA SendKeeps ==
  ASSUME HttpInv, Send
  PROVE  HttpInv'
<1> USE SizeAssumption
<1>1. buffer' \in Texts
  <2>1. buffer' = <<0>> BY DEF Send, Request
  <2>2. 0 \in Pieces BY DEF Pieces, Beyond
  <2> QED BY <2>1, <2>2 DEF Texts
<1> QED
  BY <1>1
  DEF HttpInv, HttpTyped, AnswerIsRead, Answer, Send

LEMMA OverwrittenIsText ==
  ASSUME buffer \in Texts, NEW front \in Texts
  PROVE  Overwritten(front) \in Texts
<1>1. Len(front) \in Nat /\ Len(buffer) \in Nat BY LenProperties DEF Texts
<1>2. \A i \in (Len(front) + 1)..Len(buffer) : buffer[i] \in Pieces
  BY <1>1, ElementOfSeq DEF Texts
<1>3. SubSeq(buffer, Len(front) + 1, Len(buffer)) \in Texts
  BY <1>1, <1>2, SubSeqProperties DEF Texts
<1> QED BY <1>3, ConcatProperties DEF Texts, Overwritten

LEMMA RecvDataKeeps ==
  ASSUME HttpInv, RecvData
  PROVE  HttpInv'
<1>1. PICK len \in 1..BufferPieces :
        /\ len <= Len(unread)
        /\ buffer' = Overwritten(SubSeq(unread, 1, len))
        /\ unread' = SubSeq(unread, len + 1, Len(unread))
        /\ stage' = "select" /\ result' = result \o SubSeq(unread, 1, len)
  <2>1. \A len \in 1..BufferPieces : ~EndOfAnswer(len)
    BY SizeAssumption DEF EndOfAnswer
  <2> QED BY <2>1, Zenon DEF RecvData
<1>2. stage = "recv" /\ UNCHANGED <<tv, more, sent, fin, reset, wasReset, waited>>
  BY DEF RecvData
<1>3. buffer \in Texts /\ result \in Texts /\ unread \in Texts BY DEF HttpInv, HttpTyped
<1> DEFINE front == SubSeq(unread, 1, len)
<1>4. Len(unread) \in Nat /\ len \in 1..Len(unread) BY <1>1, <1>3, LenProperties, SizeAssumption DEF Texts
<1>5. /\ front \in Texts /\ unread' \in Texts
      /\ (result \o front) \o unread' = result \o unread
  BY <1>1, <1>3, <1>4, TakenInOrder DEF Texts
<1>6. buffer' \in Texts BY <1>1, <1>3, <1>5, OverwrittenIsText
<1>7. result' = result \o front BY <1>1
<1>8. result' \in Texts
  <2> HIDE DEF front
  <2> QED BY <1>3, <1>5, <1>7, ConcatProperties DEF Texts
<1>9. result' \o unread' = result \o unread BY <1>5, <1>7
<1>10. HttpTyped' BY <1>1, <1>2, <1>5, <1>6, <1>8 DEF HttpInv, HttpTyped
<1> QED
  BY <1>1, <1>2, <1>9, <1>10 DEF HttpInv, AnswerIsRead, Answer

LEMMA RecvMoreKeeps ==
  ASSUME HttpInv, RecvMore
  PROVE  HttpInv'
<1>1. buffer' \in Texts
  <2>1. <<Beyond>> \in Texts BY SizeAssumption DEF Texts, Pieces, Beyond
  <2>2. buffer \in Texts /\ buffer' = Overwritten(<<Beyond>>)
    BY DEF HttpInv, HttpTyped, RecvMore
  <2> QED BY <2>1, <2>2, OverwrittenIsText
<1>2. stage' = "select" BY DEF RecvMore, EndOfAnswer
<1> QED
  BY <1>1, <1>2
  DEF HttpInv, HttpTyped, AnswerIsRead, Answer, RecvMore

LEMMA RecvFailsKeeps ==
  ASSUME HttpInv, RecvFails
  PROVE  HttpInv'
<1>1. result' \in Texts
  <2>1. result \in Texts /\ buffer \in Texts BY DEF HttpInv, HttpTyped
  <2>2. result \o buffer \in Texts BY <2>1, ConcatProperties DEF Texts
  <2>3. result' = result \/ result' = result \o buffer BY DEF RecvFails
  <2> QED BY <2>1, <2>2, <2>3
<1> QED BY <1>1 DEF HttpInv, HttpTyped, AnswerIsRead, RecvFails

LEMMA ServerSendsKeeps ==
  ASSUME HttpInv, ServerSends
  PROVE  HttpInv'
<1> USE SizeAssumption
<1>1. /\ sent \in 0..(MaxPieces - 1) /\ sent' = sent + 1 /\ unread' = Append(unread, sent + 1)
      /\ UNCHANGED <<stage, tv, buffer, result, more, fin, reset, wasReset, waited>>
      /\ stage \in {"send", "select", "recv"}
  BY DEF HttpInv, HttpTyped, ServerSends, Connected,
         clientVars
<1>2. unread \in Texts /\ result \in Texts BY DEF HttpInv, HttpTyped
<1>3. unread' \in Texts
  <2>1. sent + 1 \in Pieces BY <1>1 DEF Pieces, Beyond
  <2> QED BY <1>1, <1>2, <2>1, AppendProperties DEF Texts
<1>4. HttpTyped' BY <1>1, <1>3 DEF HttpInv, HttpTyped
<1>5. ~wasReset => result' \o unread' = Answer(sent')
  BY <1>1, <1>2, AnswerGoesOn DEF HttpInv, AnswerIsRead
<1>6. \A n \in Nat : Answer(n)' = Answer(n) OBVIOUS
<1> QED BY <1>1, <1>4, <1>5 DEF HttpInv, AnswerIsRead, Answer

LEMMA HttpInvHolds == HttpSpec => []HttpInv
<1> USE SizeAssumption
<1>1. ASSUME HttpInit PROVE HttpInv
  <2>1. <<>> \in Texts /\ <<>> \o <<>> = <<>> BY EmptySeq, ConcatEmptySeq DEF Texts
  <2>2. Answer(0) = <<>> BY DEF Answer
  <2>3. /\ stage \in {"resolve", "connect"} /\ tv = Budget /\ waited = 0
        /\ buffer = <<>> /\ result = <<>> /\ unread = <<>>
        /\ more = FALSE /\ sent = 0 /\ fin = FALSE /\ reset = FALSE /\ wasReset = FALSE
    BY <1>1 DEF HttpInit
  <2>4. result \o unread = Answer(sent) BY <2>1, <2>2, <2>3
  <2>5. HttpTyped
    <3>1. 0 \in 0..MaxPieces /\ Budget \in 0..Budget OBVIOUS
    <3>2. buffer \in Texts /\ result \in Texts /\ unread \in Texts BY <2>1, <2>3
    <3> QED BY <2>3, <3>1, <3>2 DEF HttpTyped
  <2> QED BY <2>3, <2>4, <2>5 DEF HttpInv, AnswerIsRead
<1>2. HttpInv /\ [HttpNext]_httpVars => HttpInv'
  BY OtherStepsKeep, SendKeeps, RecvDataKeeps, RecvMoreKeeps, RecvFailsKeeps, ServerSendsKeeps
  DEF HttpNext, ClientStep, Done
<1> QED BY <1>1, <1>2, PTL DEF HttpSpec

(* While the connection is not reset, what the client has read and what is  *)
(* on its way make up the answer, in order.                                 *)
THEOREM AnswerIsReadHolds == HttpSpec => []AnswerIsRead
<1>1. HttpInv => AnswerIsRead BY DEF HttpInv
<1> QED BY <1>1, HttpInvHolds, PTL

(* The client spends no more than the time of its timeval in select, at     *)
(* whatever pace the answer comes: the loop does not set tv again.          *)
THEOREM WaitIsBounded == HttpSpec => [](waited <= Budget)
<1>1. HttpInv => waited <= Budget BY DEF HttpInv, HttpTyped
<1> QED BY <1>1, HttpInvHolds, PTL

(* TypeOK: the values of the variables.                                     *)
THEOREM HttpTypeCorrect == HttpSpec => []HttpTypeOK
<1>1. ASSUME NEW s \in Texts PROVE Range(s) \subseteq 0..Beyond
  <2>1. \A i \in DOMAIN s : s[i] \in Pieces BY DEF Texts
  <2> QED BY <2>1 DEF Range, Pieces
<1>2. HttpInv => HttpTypeOK
  <2> SUFFICES ASSUME HttpInv PROVE HttpTypeOK OBVIOUS
  <2>1. \A s \in {buffer, result, unread} : s \in Texts BY DEF HttpInv, HttpTyped
  <2>2. \A s \in {buffer, result, unread} : Range(s) \subseteq 0..Beyond
    BY <1>1, <2>1
  <2> QED BY <2>2 DEF HttpInv, HttpTyped, HttpTypeOK, Ended
<1> QED BY <1>2, HttpInvHolds, PTL

-----------------------------------------------------------------------------
(* MakeGuid.c: any makers and fields of any size.                           *)

(* A quotient and a remainder are the ones there are. *)
LEMMA QuotientUnique ==
  ASSUME NEW d \in Nat \ {0}, NEW a \in Int, NEW b \in Int,
         NEW r \in 0..(d - 1), NEW q \in 0..(d - 1), a * d + r = b * d + q
  PROVE  a = b /\ r = q
<1>1. ASSUME NEW i \in Int, NEW k \in Int, i < k PROVE i * d \in Int /\ k * d \in Int /\ i * d + d <= k * d
  BY <1>1
<1> DEFINE ad == a * d
           bd == b * d
<1>2. a < b => ad + d <= bd BY <1>1
<1>3. b < a => bd + d <= ad BY <1>1
<1>4. ad \in Int /\ bd \in Int /\ ad + r = bd + q OBVIOUS
<1>5. a = b => ad = bd OBVIOUS
<1> HIDE DEF ad, bd
<1> QED BY <1>2, <1>3, <1>4, <1>5

LEMMA QuotientIs ==
  ASSUME NEW d \in Nat \ {0}, NEW a \in Int, NEW r \in 0..(d - 1)
  PROVE  a * d + r \in Int /\ (a * d + r) % d = r /\ (a * d + r) \div d = a
<1> DEFINE n == a * d + r
           k == n \div d
           m == n % d
<1>1. n \in Int OBVIOUS
<1> HIDE DEF n
<1>2. k \in Int /\ m \in 0..(d - 1) /\ n = d * k + m BY <1>1
<1> HIDE DEF k, m
<1>3. d * k = k * d BY <1>2
<1>4. a * d + r = k * d + m BY <1>2, <1>3 DEF n
<1>5. a = k /\ r = m BY <1>2, <1>4, QuotientUnique
<1> QED BY <1>1, <1>5 DEF n, k, m

(* What is left of an increment after the shift. *)
Signed(count) == IF count % 8 < 4 THEN count % 8 ELSE (count % 8) - 8

(* An int keeps a number but for a multiple of its values. *)
LEMMA AsIntIs ==
  ASSUME MakerFields, NEW n \in Int
  PROVE  /\ \E k \in Int : AsInt(n) = n - k * Ints
         /\ AsInt(n) \in Int
<1>1. Ints \in Nat \ {0} BY DEF MakerFields
<1> DEFINE k == n \div Ints
           m == n % Ints
<1>2. k \in Int /\ m \in 0..(Ints - 1) /\ n = Ints * k + m BY <1>1
<1>3. AsInt(n) = m \/ AsInt(n) = m - Ints BY DEF AsInt
<1> HIDE DEF k, m
<1>4. m = n - k * Ints BY <1>1, <1>2
<1>5. m - Ints = n - (k + 1) * Ints BY <1>1, <1>2
<1>6. k + 1 \in Int /\ m \in Int /\ m - Ints \in Int BY <1>1, <1>2
<1> QED
  <2>1. CASE AsInt(n) = m BY <1>2, <1>4, <1>6, <2>1
  <2>2. CASE AsInt(n) = m - Ints BY <1>5, <1>6, <2>2
  <2> QED BY <1>3, <2>1, <2>2

(* tmp << 29 keeps three bits of tmp, the highest of them as the sign. *)
LEMMA ShiftedIncrementIs ==
  ASSUME MakerFields, NEW count \in Nat
  PROVE  ShiftedIncrement(count) = Signed(count) * Times
<1>1. Times \in Nat \ {0} /\ Ints = 8 * Times /\ Ints \in Nat \ {0} BY DEF MakerFields
<1> DEFINE v == AsInt(count)
<1>2. v \in Int BY AsIntIs
<1>3. PICK k \in Int : v = count - k * Ints BY AsIntIs
<1> HIDE DEF v
<1> DEFINE kt == k * Times
<1>4. kt \in Int /\ v = count - 8 * kt BY <1>1, <1>3
<1> HIDE DEF kt
<1>5. v % 8 = count % 8 BY <1>2, <1>4
<1> DEFINE h == v \div 8
           c == v % 8
<1>6. h \in Int /\ c \in 0..7 /\ v = 8 * h + c BY <1>2
<1> HIDE DEF h, c
<1> DEFINE ct == c * Times
<1>7. v * Times = h * Ints + ct BY <1>1, <1>6
<1>8. ct \in 0..(Ints - 1) /\ (ct < 4 * Times <=> c < 4) /\ ct - Ints = (c - 8) * Times
  BY <1>1, <1>6
<1> HIDE DEF ct
<1>9. (v * Times) % Ints = ct
  <2> DEFINE w == h * Ints + ct
  <2>1. w % Ints = ct BY <1>1, <1>6, <1>8, QuotientIs
  <2>2. v * Times = w BY <1>7
  <2> HIDE DEF w
  <2> QED BY <2>1, <2>2
<1>10. Ints \div 2 = 4 * Times BY <1>1
<1>11. ShiftedIncrement(count) = IF ct < 4 * Times THEN ct ELSE ct - Ints
  BY <1>9, <1>10 DEF ShiftedIncrement, AsInt, v
<1>12. c = count % 8 BY <1>5 DEF c
<1> QED BY <1>8, <1>11, <1>12 DEF Signed, ct

(* A digit in front that is smaller makes the number smaller. *)
LEMMA Below ==
  ASSUME NEW d \in Nat \ {0}, NEW a \in Int, NEW b \in Int, NEW r \in Int, a < b, r < d
  PROVE  a * d + r \in Int /\ b * d \in Int /\ a * d + r < b * d
<1>1. a * d + d <= b * d /\ a * d \in Int /\ b * d \in Int OBVIOUS
<1> DEFINE ad == a * d
           bd == b * d
<1>2. ad + d <= bd /\ ad \in Int /\ bd \in Int BY <1>1
<1> HIDE DEF ad, bd
<1>3. ad + r < bd BY <1>2
<1> QED BY <1>2, <1>3 DEF ad, bd

(* The fields a number is made of. *)
LEMMA FieldsAre ==
  ASSUME MakerFields, NEW m \in Makers, NEW count \in Nat
  PROVE  /\ ServerNumbers \in Nat \ {0} /\ IndexNumbers \in Nat \ {0}
         /\ Increments \in Nat \ {0} /\ Increments % 8 = 0 /\ Increments >= 8
         /\ Times \in Nat \ {0}
         /\ m[1] \in 0..(ServerNumbers - 1) /\ m[2] \in 1..(IndexNumbers - 1)
         /\ m = <<m[1], m[2]>>
         /\ Signed(count) \in (-4)..3
<1>1. Increments \in Nat \ {0} /\ Increments % 8 = 0 BY DEF MakerFields
<1>2. Increments >= 8 BY <1>1
<1>3. count % 8 \in 0..7 OBVIOUS
<1>4. Signed(count) \in (-4)..3 BY <1>3 DEF Signed
<1>5. m[1] \in Servers /\ m[2] \in Indexes /\ m = <<m[1], m[2]>> BY DEF Makers
<1>6. ServerNumbers \in Nat \ {0} /\ IndexNumbers \in Nat \ {0} /\ Times \in Nat \ {0}
  BY DEF MakerFields
<1>7. m[1] \in 0..(ServerNumbers - 1) /\ m[2] \in 1..(IndexNumbers - 1)
  BY <1>5 DEF MakerFields
<1> QED BY <1>1, <1>2, <1>4, <1>5, <1>6, <1>7

(* Index and increment in one number, which is not negative, and with the   *)
(* server.                                                                  *)
Low(m, count) == m[2] * Increments + Signed(count)
Number(m, count) == m[1] * (IndexNumbers * Increments) + Low(m, count)

LEMMA LowIs ==
  ASSUME MakerFields, NEW m \in Makers, NEW count \in Nat
  PROVE  Low(m, count) \in 0..(IndexNumbers * Increments - 1)
<1> DEFINE g == Signed(count)
           i == m[2]
<1>1. g \in (-4)..3 /\ i \in 1..(IndexNumbers - 1) /\ IndexNumbers \in Nat
      /\ Increments \in Nat \ {0} /\ Increments >= 8
  BY FieldsAre
<1> HIDE DEF g, i
<1>2. i * Increments + g < IndexNumbers * Increments /\ i * Increments + g \in Int
  BY <1>1, Below
<1>3. 0 * Increments + (-g) < i * Increments BY <1>1, Below
<1> DEFINE p == i * Increments
           q == IndexNumbers * Increments
<1>4. p \in Int /\ q \in Int /\ p + g < q /\ -g < p BY <1>1, <1>2, <1>3
<1> HIDE DEF p, q
<1>5. p + g \in 0..(q - 1) BY <1>1, <1>4
<1> QED BY <1>5 DEF p, q, g, i, Low

(* The id, as a number that is followed by the time.                        *)
LEMMA MakeGuidIs ==
  ASSUME MakerFields, NEW m \in Makers, NEW count \in Nat, NEW t \in Nat
  PROVE  /\ KeptTime(t) \in 0..(Times - 1)
         /\ Number(m, count) \in 0..(ServerNumbers * IndexNumbers * Increments - 1)
         /\ MakeGuid(m, count, t) = Number(m, count) * Times + KeptTime(t)
<1>1. Times \in Nat \ {0} /\ IndexNumbers \in Nat \ {0} /\ Increments \in Nat \ {0}
      /\ ServerNumbers \in Nat \ {0} /\ m[1] \in 0..(ServerNumbers - 1)
      /\ m[2] \in Int /\ Signed(count) \in Int
  BY FieldsAre
<1>2. KeptTime(t) \in 0..(Times - 1) BY <1>1 DEF KeptTime
<1> DEFINE field == IndexNumbers * Increments
<1>3. field \in Nat \ {0} BY <1>1
<1>4. Low(m, count) \in 0..(field - 1) BY LowIs
<1>5. Number(m, count) \in 0..(ServerNumbers * IndexNumbers * Increments - 1)
  <2>1. ServerNumbers * IndexNumbers * Increments = ServerNumbers * field BY <1>1
  <2> HIDE DEF field
  <2> DEFINE s == m[1]
             l == Low(m, count)
             all == ServerNumbers * field
  <2>2. s \in 0..(ServerNumbers - 1) /\ l \in 0..(field - 1) BY <1>1, <1>4
  <2> HIDE DEF s, l
  <2>3. s * field + l < ServerNumbers * field BY <1>1, <1>3, <2>2, Below
  <2>4. s * field + l \in Nat /\ all \in Nat BY <1>1, <1>3, <2>2
  <2>5. s * field + l \in 0..(all - 1)
    <3> DEFINE n == s * field + l
    <3>1. n < all /\ n \in Nat /\ all \in Nat BY <2>3, <2>4
    <3> HIDE DEF n, all
    <3>2. n \in 0..(all - 1) BY <3>1
    <3> QED BY <3>2 DEF n
  <2>6. Number(m, count) = s * field + l BY DEF Number, field, s, l
  <2> QED BY <2>1, <2>5, <2>6
<1>6. MakeGuid(m, count, t) = Number(m, count) * Times + KeptTime(t)
  <2> DEFINE a == m[1]
             b == m[2]
             g == Signed(count)
             k == KeptTime(t)
  <2>1. a \in Int /\ b \in Int /\ g \in Int /\ k \in Int BY <1>1, <1>2
  <2>2. MakeGuid(m, count, t)
          = a * (field * Times) + b * (Increments * Times) + g * Times + k
    BY ShiftedIncrementIs DEF MakeGuid
  <2>3. Number(m, count) = a * field + (b * Increments + g) BY DEF Number, Low
  <2> HIDE DEF a, b, g, k, field
  <2>4. a * (field * Times) = (a * field) * Times BY <1>1, <1>3, <2>1
  <2>5. b * (Increments * Times) = (b * Increments) * Times BY <1>1, <2>1
  <2> DEFINE af == a * field
             bi == b * Increments
  <2>6. af \in Int /\ bi \in Int BY <1>1, <1>3, <2>1
  <2>7. Number(m, count) = af + (bi + g)
        /\ MakeGuid(m, count, t) = af * Times + bi * Times + g * Times + k
    BY <2>2, <2>3, <2>4, <2>5
  <2> HIDE DEF af, bi
  <2>8. (af + (bi + g)) * Times = af * Times + bi * Times + g * Times BY <1>1, <2>1, <2>6
  <2> QED BY <2>7, <2>8 DEF k
<1> QED BY <1>2, <1>5, <1>6

(* Two ids are equal when all that they keep is.                            *)
LEMMA SameId ==
  ASSUME MakerFields, NEW m \in Makers, NEW n \in Makers,
         NEW c \in Nat, NEW e \in Nat, NEW t \in Nat, NEW u \in Nat
  PROVE  MakeGuid(m, c, t) = MakeGuid(n, e, u)
           <=> m = n /\ KeptTime(t) = KeptTime(u) /\ (c - e) % 8 = 0
<1>1. Times \in Nat \ {0} /\ IndexNumbers \in Nat \ {0} /\ Increments \in Nat \ {0}
      /\ Increments >= 8
  BY FieldsAre
<1> DEFINE a == Number(m, c)
           b == Number(n, e)
           k == KeptTime(t)
           l == KeptTime(u)
<1>2. a \in Int /\ b \in Int /\ k \in 0..(Times - 1) /\ l \in 0..(Times - 1)
      /\ MakeGuid(m, c, t) = a * Times + k /\ MakeGuid(n, e, u) = b * Times + l
  BY MakeGuidIs
<1>3. Signed(c) = Signed(e) <=> (c - e) % 8 = 0
  <2>1. Signed(c) = Signed(e) <=> c % 8 = e % 8 BY DEF Signed
  <2>2. c % 8 = e % 8 <=> (c - e) % 8 = 0 OBVIOUS
  <2> QED BY <2>1, <2>2
<1>4. a = b <=> m = n /\ Signed(c) = Signed(e)
  <2>1. m = n /\ Signed(c) = Signed(e) => a = b BY DEF Number, Low
  <2> SUFFICES ASSUME a = b PROVE m = n /\ Signed(c) = Signed(e) BY <2>1
  <2> DEFINE field == IndexNumbers * Increments
  <2>2. field \in Nat \ {0} BY <1>1
  <2>3. Low(m, c) \in 0..(field - 1) /\ Low(n, e) \in 0..(field - 1) BY LowIs
  <2>4. m[1] \in Int /\ n[1] \in Int /\ m[2] \in Int /\ n[2] \in Int
        /\ m = <<m[1], m[2]>> /\ n = <<n[1], n[2]>>
    BY FieldsAre
  <2>5. m[1] * field + Low(m, c) = n[1] * field + Low(n, e) BY DEF Number
  <2> HIDE DEF field
  <2>6. m[1] = n[1] /\ Low(m, c) = Low(n, e) BY <2>2, <2>3, <2>4, <2>5, QuotientUnique
  <2> DEFINE g == Signed(c) + 4
             h == Signed(e) + 4
             i == m[2] * Increments
             j == n[2] * Increments
  <2>7. Signed(c) \in (-4)..3 /\ Signed(e) \in (-4)..3 BY FieldsAre
  <2>8. g \in 0..(Increments - 1) /\ h \in 0..(Increments - 1) BY <1>1, <2>7
  <2>9. i \in Int /\ j \in Int /\ i + Signed(c) = j + Signed(e)
    BY <1>1, <2>4, <2>6 DEF Low
  <2> HIDE DEF i, j
  <2>10. i + g = j + h BY <2>7, <2>9
  <2> HIDE DEF g, h
  <2>11. m[2] = n[2] /\ g = h BY <1>1, <2>4, <2>8, <2>10, QuotientUnique DEF i, j
  <2>12. Signed(c) = Signed(e) BY <2>7, <2>11 DEF g, h
  <2> QED BY <2>4, <2>6, <2>11, <2>12
<1> HIDE DEF a, b, k, l
<1>5. a * Times + k = b * Times + l <=> a = b /\ k = l BY <1>1, <1>2, QuotientUnique
<1> QED BY <1>2, <1>3, <1>4, <1>5 DEF k, l

(* The sign bit is clear, and time and server can be read from an id.       *)
LEMMA ReadBack ==
  ASSUME MakerFields, NEW m \in Makers, NEW c \in Nat, NEW t \in Nat,
         NEW id, id = MakeGuid(m, c, t)
  PROVE  /\ id \in Ids
         /\ id % Times = KeptTime(t)
         /\ id \div (IndexNumbers * Increments * Times) = m[1]
<1>1. Times \in Nat \ {0} /\ IndexNumbers \in Nat \ {0} /\ Increments \in Nat \ {0}
      /\ ServerNumbers \in Nat \ {0} /\ m[1] \in Nat
  BY FieldsAre
<1> DEFINE a == Number(m, c)
           k == KeptTime(t)
           all == ServerNumbers * IndexNumbers * Increments
           field == IndexNumbers * Increments
           s == m[1]
           low == Low(m, c)
<1>2. a \in 0..(all - 1) /\ k \in 0..(Times - 1) /\ id = a * Times + k BY MakeGuidIs
<1>3. all \in Nat /\ field \in Nat /\ s \in Nat BY <1>1
<1>4. low \in 0..(field - 1) BY LowIs
<1>5. a = s * field + low BY DEF Number
<1>6. Ids = 0..(all * Times - 1) BY DEF Ids
<1> HIDE DEF a, k, all, field, s, low
<1>7. id \in Ids
  <2>1. id \in Nat BY <1>1, <1>2
  <2>2. id < all * Times /\ all * Times \in Int BY <1>1, <1>2, <1>3, Below
  <2> DEFINE top == all * Times
  <2>3. id < top /\ top \in Int BY <2>2
  <2> HIDE DEF top
  <2>4. id \in 0..(top - 1) BY <2>1, <2>3
  <2> QED BY <1>6, <2>4 DEF top
<1>8. id % Times = k
  <2>1. a \in Int BY <1>1, <1>2, <1>3
  <2>2. (a * Times + k) % Times = k BY <1>1, <1>2, <2>1, QuotientIs
  <2> QED BY <1>2, <2>2
<1>9. id \div (IndexNumbers * Increments * Times) = s
  <2> DEFINE rest == low * Times + k
             d == field * Times
  <2>1. rest \in Int /\ d \in Int /\ rest < d BY <1>1, <1>2, <1>3, <1>4, Below
  <2>2. rest \in Nat BY <1>1, <1>2, <1>4
  <2>3. s * d = (s * field) * Times BY <1>1, <1>3
  <2> DEFINE sf == s * field
  <2>4. sf \in Int /\ a = sf + low /\ s * d = sf * Times BY <1>3, <1>5, <2>3
  <2>5. d = IndexNumbers * Increments * Times BY DEF field
  <2> HIDE DEF sf
  <2>6. (sf + low) * Times = sf * Times + low * Times BY <1>1, <1>4, <2>4
  <2>7. id = s * d + rest
    <3> DEFINE x == sf * Times
               y == low * Times
    <3>1. x \in Int /\ y \in Int BY <1>1, <1>4, <2>4
    <3>2. id = (x + y) + k BY <1>2, <2>4, <2>6
    <3>3. s * d = x /\ rest = y + k BY <2>4
    <3> HIDE DEF x, y, rest, d
    <3>4. x + y + k = x + (y + k) BY <1>2, <3>1
    <3> QED BY <3>2, <3>3, <3>4
  <2> HIDE DEF rest, d
  <2>8. d \in Nat \ {0} /\ rest \in 0..(d - 1) BY <2>1, <2>2
  <2>9. id \div d = s BY <1>3, <2>7, <2>8, QuotientIs
  <2> QED BY <2>5, <2>9
<1> QED BY <1>7, <1>8, <1>9 DEF k, s

(* The ids that are kept were made of what is kept with them.               *)
GuidInv ==
  /\ now \in Nat
  /\ g_IncrementId \in [Makers -> Nat]
  /\ \A r \in kept : /\ r.maker \in Makers /\ r.time \in Nat /\ r.count \in Nat
                      /\ r.id = MakeGuid(r.maker, r.count, r.time)

LEMMA GuidNextKeeps == GuidInv /\ [GuidNext]_guidVars => GuidInv'
<1> SUFFICES ASSUME GuidInv, [GuidNext]_guidVars PROVE GuidInv' OBVIOUS
<1>1. CASE Second BY <1>1 DEF Second, GuidInv
<1>2. ASSUME NEW m \in Makers, Generate(m) PROVE GuidInv'
  <2> DEFINE new == [maker |-> m, time |-> now, count |-> g_IncrementId[m],
                     id |-> MakeGuid(m, g_IncrementId[m], now)]
  <2>1. now' = now /\ kept' \subseteq kept \cup {new} BY <1>2 DEF Generate
  <2>2. g_IncrementId' \in [Makers -> Nat] BY <1>2 DEF Generate, GuidInv
  <2>3. g_IncrementId[m] \in Nat /\ now \in Nat BY DEF GuidInv
  <2>4. /\ new.maker = m /\ new.time = now /\ new.count = g_IncrementId[m]
        /\ new.id = MakeGuid(m, g_IncrementId[m], now)
    OBVIOUS
  <2> HIDE DEF new
  <2>5. ASSUME NEW r \in kept'
        PROVE  /\ r.maker \in Makers /\ r.time \in Nat /\ r.count \in Nat
               /\ r.id = MakeGuid(r.maker, r.count, r.time)
    BY <2>1, <2>3, <2>4 DEF GuidInv
  <2>6. \A m1 \in Makers, c \in Nat, t \in Nat :
          MakeGuid(m1, c, t)' = MakeGuid(m1, c, t)
    OBVIOUS
  <2> QED BY <2>1, <2>2, <2>3, <2>5, <2>6 DEF GuidInv
<1>3. ASSUME NEW m \in Makers, Restart(m) PROVE GuidInv'
  BY <1>3 DEF Restart, GuidInv
<1>4. CASE UNCHANGED guidVars BY <1>4 DEF guidVars, GuidInv
<1> QED BY <1>1, <1>2, <1>3, <1>4 DEF GuidNext

(* An id is repeated exactly after eight others of one process within a     *)
(* second (of a round of the clock): never by another process or in another *)
(* second, and always by the ninth, as only three bits of the increment     *)
(* survive, or by a process that was restarted.  The sign bit stays clear,  *)
(* and time and server can be read back, although the increment may be      *)
(* negative.                                                                *)
RepeatsEveryEighth ==
  /\ \A r, s \in kept :
       r.id = s.id <=> /\ r.maker = s.maker
                       /\ KeptTime(r.time) = KeptTime(s.time)
                       /\ (r.count - s.count) % 8 = 0
  /\ \A r \in kept :
       /\ r.id \in Ids
       /\ r.id % Times = KeptTime(r.time)
       /\ r.id \div (IndexNumbers * Increments * Times) = r.maker[1]

(* Which ids of MakeGuid.c are equal, and what can be read back from one.   *)
THEOREM RepeatsEveryEighthHolds ==
  ASSUME MakerFields, StartTime \in Nat
  PROVE  GuidSpec => []RepeatsEveryEighth
<1>1. GuidInit => GuidInv BY DEF GuidInit, GuidInv
<1>2. GuidInv => RepeatsEveryEighth
  <2> SUFFICES ASSUME GuidInv PROVE RepeatsEveryEighth OBVIOUS
  <2>1. ASSUME NEW r \in kept, NEW s \in kept
        PROVE  r.id = s.id <=> /\ r.maker = s.maker
                               /\ KeptTime(r.time) = KeptTime(s.time)
                               /\ (r.count - s.count) % 8 = 0
    <3>1. /\ r.maker \in Makers /\ r.time \in Nat /\ r.count \in Nat
          /\ r.id = MakeGuid(r.maker, r.count, r.time)
          /\ s.maker \in Makers /\ s.time \in Nat /\ s.count \in Nat
          /\ s.id = MakeGuid(s.maker, s.count, s.time)
      BY DEF GuidInv
    <3>2. MakeGuid(r.maker, r.count, r.time) = MakeGuid(s.maker, s.count, s.time)
            <=> /\ r.maker = s.maker
                /\ KeptTime(r.time) = KeptTime(s.time)
                /\ (r.count - s.count) % 8 = 0
      BY <3>1, SameId
    <3> QED BY <3>1, <3>2
  <2>2. ASSUME NEW r \in kept
        PROVE  /\ r.id \in Ids
               /\ r.id % Times = KeptTime(r.time)
               /\ r.id \div (IndexNumbers * Increments * Times) = r.maker[1]
    BY ReadBack DEF GuidInv
  <2> QED BY <2>1, <2>2 DEF RepeatsEveryEighth
<1> QED BY <1>1, <1>2, GuidNextKeeps, PTL DEF GuidSpec
=============================================================================
