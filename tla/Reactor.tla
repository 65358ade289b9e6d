------------------------------ MODULE Reactor ------------------------------
(***************************************************************************)
(* The epoll server of Reactor/: one thread waits for events and hands     *)
(* each to an EventHandle, which accepts a connection, receives data or    *)
(* closes.  Its clients and the kernel take steps of their own between any *)
(* two events of a batch.                                                  *)
(***************************************************************************)
EXTENDS Integers, Sequences, FiniteSets

CONSTANTS
  Clients,
  NULL,        \* no client
  Listen,      \* the descriptor of the listening socket, socketfd
  Fds,         \* the descriptors left for connections
  MaxOpened    \* bound: connections the clients open

ASSUME FdAssumption ==
  Fds \subseteq Nat /\ IsFiniteSet(Fds) /\ Listen \in Nat \ Fds
ASSUME ClientAssumption == NULL \notin Clients /\ IsFiniteSet(Clients)
ASSUME BoundAssumption == MaxOpened \in Nat

VARIABLES
  backlog,     \* connections the kernel holds for accept
  sock,        \* the client at the other end of each open descriptor
  watched,     \* the descriptors in the interest list of m_epfd
  batch,       \* events of the last epoll_wait still to be handled
  ep_events,   \* the descriptors with an entry in the map of the reactor
  peer,        \* what each client has done with its connection
  unread,      \* clients with data the server has not received
  opened,      \* connections opened so far
  failures     \* calls of fcntl and epoll_ctl that have failed; history

serverVars == <<batch, ep_events>>
kernelVars == <<backlog, sock, watched>>
clientVars == <<peer, unread, opened>>
vars == <<serverVars, kernelVars, clientVars, failures>>

PeerStates == {"away", "up", "fin", "rst"}

TypeOK ==
  /\ backlog \in Seq(Clients)
  /\ sock \in [Fds -> Clients \cup {NULL}]
  /\ watched \subseteq Fds
  /\ batch \subseteq Fds \cup {Listen}
  /\ ep_events \subseteq Fds
  /\ peer \in [Clients -> PeerStates]
  /\ unread \subseteq Clients
  /\ opened \in 0..MaxOpened
  /\ failures \in Nat

(* main has registered the listening socket; its entry stays for ever. *)
Init ==
  /\ backlog = <<>>
  /\ sock = [f \in Fds |-> NULL]
  /\ watched = {}
  /\ batch = {}
  /\ ep_events = {}
  /\ peer = [c \in Clients |-> "away"]
  /\ unread = {}
  /\ opened = 0
  /\ failures = 0

OpenFds == {f \in Fds : sock[f] # NULL}

-----------------------------------------------------------------------------
(* Clients *)

Connect(c) ==
  /\ peer[c] = "away" /\ opened < MaxOpened
  /\ peer' = [peer EXCEPT ![c] = "up"]
  /\ opened' = opened + 1
  /\ backlog' = Append(backlog, c)
  /\ UNCHANGED <<serverVars, sock, watched, unread, failures>>

Send(c) ==
  /\ peer[c] = "up"
  /\ unread' = unread \cup {c}
  /\ UNCHANGED <<serverVars, kernelVars, peer, opened, failures>>

(* The client closes, or its end is reset, which discards what it sent. *)
HangUp(c) ==
  /\ peer[c] = "up"
  /\ \/ peer' = [peer EXCEPT ![c] = "fin"] /\ UNCHANGED unread
     \/ peer' = [peer EXCEPT ![c] = "rst"] /\ unread' = unread \ {c}
  /\ UNCHANGED <<serverVars, kernelVars, opened, failures>>

-----------------------------------------------------------------------------
(* The server *)

(* Deliberate mistakes for the definition named in each comment, here and   *)
(* below.                                                                   *)
AlwaysReadable(c) == TRUE               \* Readable: EPOLLOUT asked for too
HangUpUnseen(c) == c \in unread         \* Readable: EPOLLIN only for data

HungUp(c) == peer[c] \in {"fin", "rst"}
Readable(c) == c \in unread \/ HungUp(c)

ReadyByTurns ==                         \* Ready: listener after the others
  LET readable == {f \in watched : Readable(sock[f])}
  IN  IF readable = {} /\ backlog # <<>> THEN {Listen} ELSE readable
StoredNever(f) == ep_events             \* Stored: no insert
RegisteredOnce(f) ==     \* RegisterEventHandle: epoll only for a new entry
  /\ ep_events' = ep_events \cup {f}
  /\ watched' = IF f \in ep_events THEN watched ELSE watched \cup {f}
  /\ UNCHANGED failures

(* EPOLLIN is level-triggered. *)
Ready ==
  {f \in watched : Readable(sock[f])}
    \cup (IF backlog # <<>> THEN {Listen} ELSE {})

WaitEvent ==
  /\ batch = {} /\ Ready # {}
  /\ batch' = Ready
  /\ UNCHANGED <<ep_events, kernelVars, clientVars, failures>>

Consumed(f) == batch \ {f}

(* RegisterEventHandle inserts the new handle unless the map has an entry   *)
(* for the descriptor, and goes on to epoll either way.                     *)
Stored(f) == ep_events \cup {f}

RegisterEventHandle(f) ==
  /\ ep_events' = Stored(f)
  /\ \/ watched' = watched \cup {f} /\ UNCHANGED failures
     \/ UNCHANGED watched /\ failures' = failures + 1

FreeFds == Fds \ OpenFds

(* accept takes the lowest free descriptor and the oldest connection. *)
HandAccept ==
  /\ Listen \in batch
  /\ batch' = Consumed(Listen)
  /\ backlog # <<>>
  /\ \E f \in FreeFds :
       /\ \A g \in FreeFds : f <= g
       /\ sock' = [sock EXCEPT ![f] = Head(backlog)]
       /\ backlog' = Tail(backlog)
       /\ \/ RegisterEventHandle(f)
          \/ UNCHANGED <<ep_events, watched>> /\ failures' = failures + 1
  /\ UNCHANGED clientVars

(* accept fails: no descriptor is free, or no connection is there. *)
HandAcceptFail ==
  /\ Listen \in batch
  /\ batch' = Consumed(Listen)
  /\ FreeFds = {} \/ backlog = <<>>
  /\ UNCHANGED <<ep_events, kernelVars, clientVars, failures>>

(* recv returned data, which is dropped. *)
Receive(f) ==
  /\ unread' = unread \ {sock[f]}
  /\ UNCHANGED <<sock, watched, peer>>

(* recv returned 0 or -1, the latter also when it finds nothing to receive. *)
(* close takes the descriptor out of epoll, but not out of the map.         *)
Unwatched(f) == watched \ {f}

Close(f) ==
  /\ sock' = [sock EXCEPT ![f] = NULL]
  /\ watched' = Unwatched(f)
  /\ peer' = [c \in Clients |-> IF c = sock[f] THEN "away" ELSE peer[c]]
  /\ UNCHANGED unread

HandRecv(f) ==
  /\ f \in batch
  /\ batch' = Consumed(f)
  /\ IF f \notin ep_events THEN UNCHANGED <<sock, watched, peer, unread>>
     ELSE IF sock[f] \in unread THEN Receive(f) ELSE Close(f)
  /\ UNCHANGED <<ep_events, backlog, opened, failures>>

ServerStep ==
  \/ WaitEvent \/ HandAccept \/ HandAcceptFail
  \/ \E f \in Fds : HandRecv(f)

ClientStep == \E c \in Clients : Connect(c) \/ Send(c) \/ HangUp(c)

Next == ServerStep \/ ClientStep

Spec == Init /\ [][Next]_vars

(* Run's loop goes on for ever. *)
Fairness == WF_vars(ServerStep)

FairSpec == Spec /\ Fairness

-----------------------------------------------------------------------------
(* Properties *)

(* What epoll watches is open and has an entry in the map, and every event  *)
(* that is still to be handled is about such a connection, which also has   *)
(* something to receive, however many events of the batch were handled      *)
(* before it.                                                               *)
NoStaleEvent ==
  /\ watched \subseteq OpenFds \cap ep_events
  /\ \A f \in batch \cap Fds : f \in watched /\ Readable(sock[f])

(* Each failure of fcntl or epoll_ctl costs the server one descriptor for   *)
(* good, because nobody closes a connection that is not watched, and        *)
(* nothing else costs one: a descriptor that is used again is watched       *)
(* again, though the map still has the entry of its last use.               *)
OnlyFailuresLeak == Cardinality(OpenFds \ watched) = failures

(* The server closes a connection only when its client has hung up.         *)
ClosesOnlyFinished ==
  [][\A f \in Fds :
       sock[f] # NULL /\ sock'[f] = NULL => HungUp(sock[f])]_vars

(* A connection epoll watches is closed once its client hung up; one in the *)
(* backlog is accepted, or every descriptor is taken.                       *)
FinishedAreClosed ==
  \A c \in Clients :
    (HungUp(c) /\ \E f \in watched : sock[f] = c) ~> (peer[c] = "away")
QueuedAreAccepted ==
  \A c \in Clients :
    (\E k \in DOMAIN backlog : backlog[k] = c)
      ~> ((\E f \in Fds : sock[f] = c) \/ FreeFds = {})
=============================================================================
