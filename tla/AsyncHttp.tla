----------------------------- MODULE AsyncHttp -----------------------------
(***************************************************************************)
(* The asynchronous client of async_http.c: main opens a socket for each   *)
(* request and hands it to epoll with an ep_arg; a thread takes the events *)
(* and calls back.  The two share the descriptor numbers and the heap, and *)
(* interleave with the servers that answer.                                *)
(***************************************************************************)
EXTENDS Integers, FiniteSets

CONSTANTS
  Requests,
  NULL,
  Fds,         \* the descriptors socket may return
  Args         \* the ep_arg objects malloc may return

ASSUME FdAssumption == Fds \subseteq Nat /\ IsFiniteSet(Fds) /\ NULL \notin Fds
ASSUME RequestAssumption == NULL \notin Requests \cup Args

VARIABLES
  issued,    \* the requests main has begun
  fd,        \* the socket of main's request between socket and epoll_ctl
  exited,    \* main has returned, and the process is gone
  sock,      \* the request each open descriptor belongs to
  watched,   \* the ep_arg each descriptor in epoll is registered with, or NULL
  sockfd,    \* the descriptor in each ep_arg that is allocated, or NULL
  asked,     \* the request each ep_arg was last allocated for
  batch,     \* the ep_args of the events still to be handled
  at,        \* what the thread does next with its ep_arg
  cur,       \* its ep_arg
  arrived,   \* requests with data that has come and not been received
  ended,     \* requests whose server has closed the connection
  calls,     \* the times each request was called back; history
  failed     \* a call of main has failed and left something behind; history

mainVars == <<issued, fd, exited, failed>>
threadVars == <<batch, at, cur>>
netVars == <<arrived, ended>>
argVars == <<sockfd, asked>>
vars == <<mainVars, threadVars, netVars, argVars, sock, watched, calls>>

TypeOK ==
  /\ issued \subseteq Requests
  /\ fd \in Fds \cup {NULL}
  /\ exited \in BOOLEAN
  /\ sock \in [Fds -> Requests \cup {NULL}]
  /\ watched \in [Fds -> Args \cup {NULL}]
  /\ sockfd \in [Args -> Fds \cup {NULL}]
  /\ asked \in [Args -> Requests \cup {NULL}]
  /\ batch \subseteq Args
  /\ at \in {"wait", "recv", "close", "free"}
  /\ cur \in Args \cup {NULL}
  /\ arrived \subseteq Requests /\ ended \subseteq Requests
  /\ calls \in [Requests -> Nat]
  /\ failed \in BOOLEAN

Init ==
  /\ issued = {} /\ fd = NULL /\ exited = FALSE
  /\ sock = [f \in Fds |-> NULL]
  /\ watched = [f \in Fds |-> NULL]
  /\ sockfd = [a \in Args |-> NULL] /\ asked = [a \in Args |-> NULL]
  /\ batch = {} /\ at = "wait" /\ cur = NULL
  /\ arrived = {} /\ ended = {}
  /\ calls = [r \in Requests |-> 0]
  /\ failed = FALSE

FreeFds == {f \in Fds : sock[f] = NULL}
Allocated == {a \in Args : sockfd[a] # NULL}
Lowest(f) == f \in FreeFds /\ \A g \in FreeFds : f <= g

-----------------------------------------------------------------------------
(* main: async_http_client_request for one request after the other *)

Begin(r) ==
  /\ ~exited /\ fd = NULL
  /\ r \notin issued
  /\ issued' = issued \cup {r}

(* socket, connect and send. *)
OpenSocket(r) ==
  /\ Begin(r)
  /\ \E f \in Fds : Lowest(f) /\ sock' = [sock EXCEPT ![f] = r] /\ fd' = f
  /\ UNCHANGED <<exited, failed, threadVars, netVars, argVars, watched, calls>>

(* No address for the host; no descriptor, so that connect fails; or        *)
(* connect fails, and the socket stays open.                                *)
ConnectFails(r) ==
  /\ Begin(r)
  /\ \/ UNCHANGED <<sock, failed>>
     \/ /\ \E f \in Fds : Lowest(f) /\ sock' = [sock EXCEPT ![f] = r]
        /\ failed' = TRUE
  /\ UNCHANGED <<fd, exited, threadVars, netVars, argVars, watched, calls>>

Allocate(a) ==
  /\ a \notin Allocated
  /\ sockfd' = [sockfd EXCEPT ![a] = fd]
  /\ asked' = [asked EXCEPT ![a] = sock[fd]]

(* malloc and epoll_ctl. *)
Register(a) ==
  /\ ~exited /\ fd # NULL
  /\ Allocate(a)
  /\ watched' = [watched EXCEPT ![fd] = a]
  /\ fd' = NULL
  /\ UNCHANGED <<issued, exited, failed, threadVars, netVars, sock, calls>>

(* malloc or epoll_ctl fails: the socket stays open, and what was allocated *)
(* stays allocated.                                                         *)
RegisterFails ==
  /\ ~exited /\ fd # NULL
  /\ \/ UNCHANGED argVars
     \/ \E a \in Args : Allocate(a)
  /\ fd' = NULL /\ failed' = TRUE
  /\ UNCHANGED <<issued, exited, threadVars, netVars, sock, watched, calls>>

(* getchar returns, and main with it. *)
Exit ==
  /\ ~exited /\ fd = NULL /\ issued = Requests
  /\ exited' = TRUE
  /\ UNCHANGED <<issued, fd, failed, threadVars, netVars, argVars, sock, watched, calls>>

-----------------------------------------------------------------------------
(* The servers *)

Segment(r) ==
  /\ \E f \in Fds : sock[f] = r
  /\ r \notin ended
  /\ arrived' = arrived \cup {r}
  /\ UNCHANGED <<mainVars, threadVars, argVars, ended, sock, watched, calls>>

(* With the answer, or before it is complete. *)
ServerCloses(r) ==
  /\ \E f \in Fds : sock[f] = r
  /\ r \notin ended
  /\ ended' = ended \cup {r}
  /\ UNCHANGED <<mainVars, threadVars, argVars, arrived, sock, watched, calls>>

-----------------------------------------------------------------------------
(* Deliberate mistakes for the definition named in each comment. *)

EndUnseen(f) ==        \* Readable: the end of a connection is not reported
  sock[f] \in arrived
SocketsKept == sock    \* ClosedSockets: no close

KeptOpen ==            \* CloseSocket: the ep_arg is freed, and nothing closed
  /\ ~exited /\ at = "close"
  /\ at' = "free"
  /\ UNCHANGED <<mainVars, netVars, argVars, batch, cur, sock, watched, calls>>

ClosedAtTheEnd ==      \* CloseSocket: only when the server has closed
  LET done == sock[sockfd[cur]] \in ended
  IN  /\ ~exited /\ at = "close"
      /\ watched' = IF done THEN [watched EXCEPT ![sockfd[cur]] = NULL] ELSE watched
      /\ sock' = IF done THEN [sock EXCEPT ![sockfd[cur]] = NULL] ELSE sock
      /\ at' = IF done THEN "free" ELSE "wait"
      /\ cur' = IF done THEN cur ELSE NULL
      /\ UNCHANGED <<mainVars, netVars, argVars, batch, calls>>

-----------------------------------------------------------------------------
(* The thread: thread_client_callback *)

Readable(f) == sock[f] \in arrived \cup ended
ReadyArgs == {watched[f] : f \in {g \in Fds : watched[g] # NULL /\ Readable(g)}}

Wait ==
  /\ ~exited /\ at = "wait" /\ batch = {}
  /\ ReadyArgs # {}
  /\ batch' = ReadyArgs
  /\ UNCHANGED <<mainVars, netVars, argVars, at, cur, sock, watched, calls>>

NextEvent(a) ==
  /\ ~exited /\ at = "wait" /\ a \in batch
  /\ batch' = batch \ {a} /\ cur' = a /\ at' = "recv"
  /\ UNCHANGED <<mainVars, netVars, argVars, sock, watched, calls>>

(* One recv, and the callback of the ep_arg with whatever recv returned. *)
RecvAndCall ==
  /\ ~exited /\ at = "recv"
  /\ arrived' = arrived \ {sock[sockfd[cur]]}
  /\ calls' = [calls EXCEPT ![asked[cur]] = @ + 1]
  /\ at' = "close"
  /\ UNCHANGED <<mainVars, argVars, batch, cur, ended, sock, watched>>

(* epoll_ctl and close. *)
ClosedSockets == [sock EXCEPT ![sockfd[cur]] = NULL]

CloseSocket ==
  /\ ~exited /\ at = "close"
  /\ watched' = [watched EXCEPT ![sockfd[cur]] = NULL]
  /\ sock' = ClosedSockets
  /\ at' = "free"
  /\ UNCHANGED <<mainVars, netVars, argVars, batch, cur, calls>>

FreeArg ==
  /\ ~exited /\ at = "free"
  /\ sockfd' = [sockfd EXCEPT ![cur] = NULL]
  /\ at' = "wait" /\ cur' = NULL
  /\ UNCHANGED <<mainVars, netVars, asked, batch, sock, watched, calls>>

ThreadStep ==
  \/ Wait \/ RecvAndCall \/ CloseSocket \/ FreeArg
  \/ \E a \in Args : NextEvent(a)

Next ==
  \/ \E r \in Requests :
       OpenSocket(r) \/ ConnectFails(r) \/ Segment(r) \/ ServerCloses(r)
  \/ \E a \in Args : Register(a)
  \/ RegisterFails \/ Exit \/ ThreadStep

Spec == Init /\ [][Next]_vars

(* The thread's loop goes on. *)
Fairness == WF_vars(ThreadStep)

FairSpec == Spec /\ Fairness

-----------------------------------------------------------------------------
(* Properties *)

(* An event that is still to be handled points to an ep_arg that has not    *)
(* been freed, whose descriptor is open and registered with it, whatever    *)
(* main has opened since the events were taken.                             *)
EventsAreValid ==
  \A a \in batch \cup (IF at \in {"recv", "close"} THEN {cur} ELSE {}) :
    /\ a \in Allocated
    /\ sock[sockfd[a]] # NULL
    /\ watched[sockfd[a]] = a

(* A request is called back at most once, in however many pieces its answer *)
(* comes and whichever later requests use its descriptor and its ep_arg.    *)
CalledOnce == \A r \in Requests : calls[r] <= 1

(* Nothing is left behind when nothing failed: an open descriptor is in     *)
(* epoll or main's, and an ep_arg is in epoll or being freed.               *)
NothingLeftBehind ==
  ~failed =>
    /\ \A f \in Fds : sock[f] # NULL => watched[f] # NULL \/ f = fd
    /\ \A a \in Allocated : watched[sockfd[a]] = a \/ (a = cur /\ at = "free")

(* A request that epoll watches is called back once data has come or its    *)
(* server has closed the connection, unless the process ends first.         *)
AnsweredAreCalled ==
  \A r \in Requests :
    (r \in arrived \cup ended /\ \E f \in Fds : sock[f] = r /\ watched[f] # NULL)
      ~> (calls[r] > 0 \/ exited)
=============================================================================
