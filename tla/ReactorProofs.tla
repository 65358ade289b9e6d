--------------------------- MODULE ReactorProofs ---------------------------
(***************************************************************************)
(* Proofs about Reactor for any clients and descriptors, and any number of *)
(* connections.                                                            *)
(***************************************************************************)
EXTENDS Reactor, SequenceTheorems, TLAPS, FiniteSetTheorems

-----------------------------------------------------------------------------
(* The backlog: a connection joins at the tail and leaves at the head.     *)

(* Nothing is in the list twice. *)
NoRepeats(s) == \A i, k \in DOMAIN s : s[i] = s[k] => i = k

(* What is linked at the tail of a list is in it, besides what was.         *)
LEMMA RangeOfAppend ==
  ASSUME NEW S, NEW s \in Seq(S), NEW e \in S
  PROVE  Range(Append(s, e)) = Range(s) \cup {e}
PROOF
<1>1. /\ Append(s, e) \in Seq(S) /\ Len(Append(s, e)) = Len(s) + 1
      /\ \A i \in 1..Len(s) : Append(s, e)[i] = s[i]
      /\ Append(s, e)[Len(s) + 1] = e
  BY AppendProperties
<1>2. Len(s) \in Nat
  OBVIOUS
<1>3. Range(s) = {s[i] : i \in 1..Len(s)}
  BY DEF Range
<1>4. Range(Append(s, e)) = {Append(s, e)[i] : i \in 1..(Len(s) + 1)}
  BY <1>1 DEF Range
<1> QED
  BY <1>1, <1>2, <1>3, <1>4

(* Appending something new repeats nothing. *)
LEMMA AppendFresh ==
  ASSUME NEW S, NEW s \in Seq(S), NEW e \in S, e \notin Range(s), NoRepeats(s)
  PROVE  NoRepeats(Append(s, e))
  BY AppendProperties, LenProperties, RangeEquality DEF NoRepeats

(* Unlinking the head of a list without repetitions removes it for good. *)
LEMMA TailLosesHead ==
  ASSUME NEW S, NEW s \in Seq(S), s # <<>>, NoRepeats(s)
  PROVE  /\ NoRepeats(Tail(s))
         /\ Range(Tail(s)) = Range(s) \ {Head(s)}
         /\ Head(s) \in Range(s)
PROOF
<1>1. /\ Tail(s) \in Seq(S) /\ Len(Tail(s)) = Len(s) - 1
      /\ \A i \in 1..Len(Tail(s)) : Tail(s)[i] = s[i + 1]
      /\ Head(s) = s[1] /\ Len(s) \in Nat \ {0}
  BY HeadTailProperties, EmptySeq
<1>2. DOMAIN s = 1..Len(s) /\ DOMAIN Tail(s) = 1..(Len(s) - 1)
  BY <1>1
<1>3. /\ Range(s) = {s[i] : i \in 1..Len(s)}
      /\ Range(Tail(s)) = {Tail(s)[i] : i \in 1..(Len(s) - 1)}
  BY <1>2 DEF Range
<1>4. NoRepeats(Tail(s))
  BY <1>1, <1>2 DEF NoRepeats
<1>5. \A i \in 2..Len(s) : s[i] # s[1] /\ s[i] = Tail(s)[i - 1]
  BY <1>1, <1>2 DEF NoRepeats
<1>6. Range(Tail(s)) \subseteq Range(s) \ {Head(s)}
  BY <1>1, <1>2, <1>3 DEF NoRepeats
<1>7. ASSUME NEW e \in Range(s), e # Head(s)
      PROVE  e \in Range(Tail(s))
  <2>1. PICK i \in 1..Len(s) : e = s[i]
    BY <1>3
  <2>2. i # 1
    BY <1>1, <1>7, <2>1
  <2>3. i - 1 \in 1..(Len(s) - 1) /\ e = Tail(s)[i - 1]
    BY <1>1, <1>5, <2>1, <2>2
  <2> QED
    BY <1>3, <2>3
<1> QED
  BY <1>1, <1>3, <1>4, <1>6, <1>7

-----------------------------------------------------------------------------

(* The types of what the argument is about. *)
Typed ==
  /\ backlog \in Seq(Clients)
  /\ sock \in [Fds -> Clients \cup {NULL}]
  /\ watched \subseteq Fds
  /\ batch \subseteq Fds \cup {Listen}
  /\ ep_events \subseteq Fds
  /\ peer \in [Clients -> PeerStates]

(* A connection is at one place at most, and somewhere unless it is away. *)
OnePlace ==
  /\ NoRepeats(backlog)
  /\ \A f, g \in Fds : sock[f] = sock[g] /\ sock[f] # NULL => f = g
  /\ \A f \in Fds : sock[f] \notin Range(backlog)
  /\ \A c \in Clients :
       peer[c] # "away" <=> c \in Range(backlog) \/ \E f \in Fds : sock[f] = c

IInv ==
  /\ Typed
  /\ OnePlace
  /\ NoStaleEvent

-----------------------------------------------------------------------------
LEMMA InitEstablishesIInv == Init => IInv
PROOF
<1> SUFFICES ASSUME Init PROVE IInv
  OBVIOUS
<1>1. Range(backlog) = {} /\ NoRepeats(backlog) /\ backlog \in Seq(Clients)
  BY DEF Init, Range, NoRepeats
<1>2. Typed
  BY <1>1 DEF Init, Typed, PeerStates
<1>3. OnePlace
  BY <1>1, ClientAssumption DEF Init, OnePlace
<1>4. NoStaleEvent
  BY DEF Init, NoStaleEvent
<1> QED
  BY <1>2, <1>3, <1>4 DEF IInv

(* A new connection joins the backlog; its client had none. *)
LEMMA ConnectKeeps ==
  ASSUME IInv, NEW c \in Clients, Connect(c)
  PROVE  IInv'
PROOF
<1>1. /\ c \notin Range(backlog)
      /\ \A f \in Fds : sock[f] # c
  BY DEF IInv, OnePlace, Connect
<1>2. /\ backlog' = Append(backlog, c) /\ backlog \in Seq(Clients)
      /\ NoRepeats(backlog)
  BY DEF IInv, Typed, OnePlace, Connect
<1>3. /\ backlog' \in Seq(Clients)
      /\ Range(backlog') = Range(backlog) \cup {c}
      /\ NoRepeats(backlog')
  BY <1>1, <1>2, RangeOfAppend, AppendFresh
<1>4. /\ peer' = [peer EXCEPT ![c] = "up"]
      /\ UNCHANGED <<sock, watched, batch, ep_events, unread>>
  BY DEF Connect, serverVars
<1>5. Typed'
  BY <1>3, <1>4 DEF IInv, Typed, PeerStates
<1>6. OnePlace'
  BY <1>1, <1>3, <1>4, <1>5 DEF IInv, Typed, OnePlace
<1>7. NoStaleEvent'
  <2>1. \A f \in Fds : Readable(sock[f]) => Readable(sock[f])'
    BY <1>1, <1>4 DEF IInv, Typed, Readable, HungUp
  <2> QED
    BY <1>4, <2>1 DEF IInv, NoStaleEvent, OpenFds
<1> QED
  BY <1>5, <1>6, <1>7 DEF IInv

LEMMA SendKeeps ==
  ASSUME IInv, NEW c \in Clients, Send(c)
  PROVE  IInv'
PROOF
<1>1. /\ unread' = unread \cup {c}
      /\ UNCHANGED <<sock, watched, batch, ep_events, peer, backlog>>
  BY DEF Send, serverVars, kernelVars
<1> QED
  BY <1>1 DEF IInv, Typed, OnePlace, NoStaleEvent, OpenFds, Readable, HungUp

(* Who hangs up stays where it is, and its end is readable. *)
LEMMA HangUpKeeps ==
  ASSUME IInv, NEW c \in Clients, HangUp(c)
  PROVE  IInv'
PROOF
<1>1. /\ \E s \in {"fin", "rst"} : peer' = [peer EXCEPT ![c] = s]
      /\ peer[c] = "up"
      /\ unread \ {c} \subseteq unread'
      /\ UNCHANGED <<sock, watched, batch, ep_events, backlog>>
  BY DEF HangUp, serverVars, kernelVars
<1>2. Typed'
  BY <1>1 DEF IInv, Typed, PeerStates
<1>3. OnePlace'
  BY <1>1 DEF IInv, Typed, OnePlace
<1>4. NoStaleEvent'
  <2>1. ASSUME NEW f \in batch \cap Fds
        PROVE  Readable(sock[f])'
    <3>1. Readable(sock[f]) /\ sock[f] \in Clients
      BY DEF IInv, NoStaleEvent, Typed, OpenFds
    <3> QED
      BY <1>1, <3>1 DEF IInv, Typed, Readable, HungUp
  <2> QED
    BY <1>1, <2>1 DEF IInv, NoStaleEvent, OpenFds
<1> QED
  BY <1>2, <1>3, <1>4 DEF IInv

LEMMA WaitEventKeeps ==
  ASSUME IInv, WaitEvent
  PROVE  IInv'
PROOF
<1>1. /\ batch' \subseteq {f \in watched : Readable(sock[f])} \cup {Listen}
      /\ UNCHANGED <<sock, watched, ep_events, peer, backlog, unread>>
  BY DEF WaitEvent, Ready, kernelVars, clientVars
<1>2. Typed' /\ OnePlace'
  BY <1>1 DEF IInv, Typed, OnePlace
<1>3. NoStaleEvent'
  <2>1. Listen \notin Fds
    BY FdAssumption
  <2> QED
    BY <1>1, <2>1 DEF IInv, NoStaleEvent, OpenFds, Readable, HungUp
<1> QED
  BY <1>2, <1>3 DEF IInv

(* The connection goes from the backlog to a descriptor that was free, so   *)
(* that nothing in the batch is about it.                                   *)
LEMMA HandAcceptKeeps ==
  ASSUME IInv, HandAccept
  PROVE  IInv'
PROOF
<1>1. PICK f \in FreeFds :
        /\ sock' = [sock EXCEPT ![f] = Head(backlog)]
        /\ backlog' = Tail(backlog)
        /\ RegisterEventHandle(f) \/ UNCHANGED <<ep_events, watched>>
  BY DEF HandAccept
<1>2. f \in Fds /\ sock[f] = NULL
  BY DEF FreeFds, OpenFds
<1>3. /\ backlog \in Seq(Clients) /\ backlog # <<>> /\ NoRepeats(backlog)
      /\ sock \in [Fds -> Clients \cup {NULL}]
  BY DEF IInv, Typed, OnePlace, HandAccept
<1>4. /\ backlog' \in Seq(Clients)
      /\ Head(backlog) \in Clients
      /\ NoRepeats(backlog')
      /\ Range(backlog') = Range(backlog) \ {Head(backlog)}
      /\ Head(backlog) \in Range(backlog)
  BY <1>1, <1>3, TailLosesHead, HeadTailProperties
<1>5. /\ batch' \subseteq batch
      /\ ep_events \subseteq ep_events' /\ ep_events' \subseteq ep_events \cup {f}
      /\ watched \subseteq watched'
      /\ watched' = watched \/ (watched' = watched \cup {f} /\ f \in ep_events')
      /\ UNCHANGED <<peer, unread>>
  BY <1>1 DEF HandAccept, Consumed, RegisterEventHandle, Stored, clientVars
<1>6. Typed'
  BY <1>1, <1>2, <1>3, <1>4, <1>5 DEF IInv, Typed
<1>7. OnePlace'
  <2>1. /\ sock'[f] = Head(backlog)
        /\ \A g \in Fds : g # f => sock'[g] = sock[g]
    BY <1>1, <1>2, <1>3
  <2>2. \A g \in Fds : sock[g] # Head(backlog)
    BY <1>4 DEF IInv, OnePlace
  <2>3. \A g, h \in Fds : sock'[g] = sock'[h] /\ sock'[g] # NULL => g = h
    BY <2>1, <2>2 DEF IInv, OnePlace
  <2>4. \A g \in Fds : sock'[g] \notin Range(backlog')
    BY <1>4, <2>1 DEF IInv, OnePlace
  <2>5. ASSUME NEW c \in Clients
        PROVE  peer'[c] # "away" <=> c \in Range(backlog') \/ \E g \in Fds : sock'[g] = c
    <3>1. (\E g \in Fds : sock'[g] = c) <=> (c = Head(backlog) \/ \E g \in Fds : sock[g] = c)
      BY <1>2, <2>1, ClientAssumption
    <3>2. c \in Range(backlog') <=> (c \in Range(backlog) /\ c # Head(backlog))
      BY <1>4
    <3>3. peer[c] # "away" <=> c \in Range(backlog) \/ \E g \in Fds : sock[g] = c
      BY DEF IInv, OnePlace
    <3> QED
      BY <1>4, <1>5, <3>1, <3>2, <3>3
  <2> QED
    BY <1>4, <2>3, <2>4, <2>5 DEF OnePlace
<1>8. NoStaleEvent'
  <2>1. f \notin watched
    BY <1>2 DEF IInv, NoStaleEvent, OpenFds
  <2>2. sock'[f] # NULL /\ \A g \in Fds : g # f => sock'[g] = sock[g]
    BY <1>1, <1>2, <1>3, <1>4, ClientAssumption
  <2>3. watched' \subseteq (OpenFds \cap ep_events)'
    BY <1>2, <1>5, <2>2 DEF IInv, NoStaleEvent, OpenFds
  <2>4. ASSUME NEW g \in (batch \cap Fds)'
        PROVE  g \in watched' /\ Readable(sock[g])'
    <3>1. g \in watched /\ Readable(sock[g]) /\ g # f
      BY <1>5, <2>1 DEF IInv, NoStaleEvent
    <3> QED
      BY <1>5, <2>2, <2>4, <3>1 DEF Readable, HungUp
  <2> QED
    BY <2>3, <2>4 DEF NoStaleEvent
<1> QED
  BY <1>6, <1>7, <1>8 DEF IInv

LEMMA HandAcceptFailKeeps ==
  ASSUME IInv, HandAcceptFail
  PROVE  IInv'
PROOF
<1>1. /\ batch' \subseteq batch
      /\ UNCHANGED <<sock, watched, ep_events, peer, backlog, unread>>
  BY DEF HandAcceptFail, Consumed, kernelVars, clientVars
<1> QED
  BY <1>1 DEF IInv, Typed, OnePlace, NoStaleEvent, OpenFds, Readable, HungUp

(* Data is received, or the connection closed, for one descriptor; the      *)
(* others have other clients, and their events stay what they are.          *)
LEMMA HandRecvKeeps ==
  ASSUME IInv, NEW f \in Fds, HandRecv(f)
  PROVE  IInv'
PROOF
<1>1. /\ f \in batch /\ f \in watched /\ f \in ep_events
      /\ sock[f] \in Clients /\ Readable(sock[f])
      /\ watched \subseteq ep_events
  BY DEF HandRecv, IInv, NoStaleEvent, OpenFds, Typed
<1>2. /\ batch' = batch \ {f}
      /\ UNCHANGED <<ep_events, backlog>>
  BY DEF HandRecv, Consumed
<1>3. \A g \in Fds : g # f => sock[g] # sock[f]
  BY <1>1, ClientAssumption DEF IInv, OnePlace
<1>4. CASE sock[f] \in unread
  <2>1. /\ unread' = unread \ {sock[f]}
        /\ UNCHANGED <<sock, watched, peer>>
    BY <1>1, <1>4 DEF HandRecv, Receive
  <2>2. Typed' /\ OnePlace'
    BY <1>2, <2>1 DEF IInv, Typed, OnePlace
  <2>3. NoStaleEvent'
    BY <1>2, <1>3, <2>1 DEF IInv, NoStaleEvent, OpenFds, Readable, HungUp
  <2> QED
    BY <2>2, <2>3 DEF IInv
<1>5. CASE sock[f] \notin unread
  <2>1. /\ sock' = [sock EXCEPT ![f] = NULL]
        /\ watched' = watched \ {f}
        /\ peer' = [c \in Clients |-> IF c = sock[f] THEN "away" ELSE peer[c]]
        /\ UNCHANGED unread
    BY <1>1, <1>5 DEF HandRecv, Close, Unwatched
  <2>2. Typed'
    BY <1>2, <2>1 DEF IInv, Typed, PeerStates
  <2>3. /\ sock'[f] = NULL
        /\ \A g \in Fds : g # f => sock'[g] = sock[g]
    BY <2>1 DEF IInv, Typed
  <2>4. NULL \notin Range(backlog)
    BY ClientAssumption, RangeOfSeq DEF IInv, Typed
  <2>5. OnePlace'
    <3>1. \A g, h \in Fds : sock'[g] = sock'[h] /\ sock'[g] # NULL => g = h
      BY <2>3 DEF IInv, OnePlace
    <3>2. \A g \in Fds : sock'[g] \notin Range(backlog)
      BY <2>3, <2>4 DEF IInv, OnePlace
    <3>3. ASSUME NEW c \in Clients
          PROVE  peer'[c] # "away" <=> c \in Range(backlog) \/ \E g \in Fds : sock'[g] = c
      <4>1. CASE c = sock[f]
        <5>1. c \notin Range(backlog)
          BY <4>1 DEF IInv, OnePlace
        <5> QED
          BY <1>3, <2>1, <2>3, <4>1, <5>1, ClientAssumption
      <4>2. CASE c # sock[f]
        <5>1. (\E g \in Fds : sock'[g] = c) <=> (\E g \in Fds : sock[g] = c)
          BY <2>3, <4>2, ClientAssumption
        <5>2. peer'[c] = peer[c]
          BY <2>1, <4>2
        <5>3. peer[c] # "away" <=> c \in Range(backlog) \/ \E g \in Fds : sock[g] = c
          BY DEF IInv, OnePlace
        <5> QED
          BY <5>1, <5>2, <5>3
      <4> QED
        BY <4>1, <4>2
    <3> QED
      BY <1>2, <3>1, <3>2, <3>3 DEF IInv, OnePlace
  <2>6. NoStaleEvent'
    <3>1. ASSUME NEW g \in (batch \cap Fds)'
          PROVE  g \in watched' /\ Readable(sock[g])'
      <4>1. g # f /\ g \in watched /\ Readable(sock[g]) /\ sock[g] \in Clients
        BY <1>2 DEF IInv, NoStaleEvent, OpenFds, Typed
      <4>2. peer'[sock[g]] = peer[sock[g]]
        BY <1>3, <2>1, <4>1
      <4> QED
        BY <2>1, <2>3, <4>1, <4>2 DEF Readable, HungUp
    <3>2. watched' \subseteq (OpenFds \cap ep_events)'
      BY <1>2, <2>1, <2>3 DEF IInv, NoStaleEvent, OpenFds
    <3> QED
      BY <3>1, <3>2 DEF NoStaleEvent
  <2> QED
    BY <2>2, <2>5, <2>6 DEF IInv
<1> QED
  BY <1>4, <1>5

LEMMA NextKeepsIInv == IInv /\ [Next]_vars => IInv'
PROOF
<1> SUFFICES ASSUME IInv, [Next]_vars PROVE IInv'
  OBVIOUS
<1>1. CASE ServerStep
  BY <1>1, WaitEventKeeps, HandAcceptKeeps, HandAcceptFailKeeps, HandRecvKeeps DEF ServerStep
<1>2. CASE ClientStep
  BY <1>2, ConnectKeeps, SendKeeps, HangUpKeeps DEF ClientStep
<1>3. CASE UNCHANGED vars
  BY <1>3 DEF vars, serverVars, kernelVars, clientVars, IInv, Typed, OnePlace,
              NoStaleEvent, OpenFds, Readable, HungUp
<1> QED
  BY <1>1, <1>2, <1>3 DEF Next

LEMMA SpecKeepsIInv == Spec => []IInv
PROOF
<1> QED
  BY InitEstablishesIInv, NextKeepsIInv, PTL DEF Spec

-----------------------------------------------------------------------------
(* NoStaleEvent: an event of a batch still concerns an open connection that *)
(* has something to receive, whatever EventHandle did with those before it. *)
THEOREM NoStaleEventHolds == Spec => []NoStaleEvent
PROOF
<1>1. IInv => NoStaleEvent
  BY DEF IInv
<1> QED
  BY <1>1, SpecKeepsIInv, PTL

-----------------------------------------------------------------------------
(* Open descriptors that nobody watches *)

(* There are as many as calls have failed. *)
Leaked ==
  /\ failures \in Nat
  /\ OnlyFailuresLeak

(* The accepted connection is watched, or a call has failed for it. *)
LEMMA HandAcceptLeaks ==
  ASSUME IInv, Leaked, HandAccept
  PROVE  Leaked'
PROOF
<1> DEFINE U == OpenFds \ watched
<1>1. PICK f \in FreeFds :
        /\ sock' = [sock EXCEPT ![f] = Head(backlog)]
        /\ \/ RegisterEventHandle(f)
           \/ UNCHANGED <<ep_events, watched>> /\ failures' = failures + 1
  BY DEF HandAccept
<1>2. f \in Fds /\ f \notin OpenFds /\ f \notin watched
  BY DEF FreeFds, IInv, NoStaleEvent
<1>3. Head(backlog) \in Clients /\ Head(backlog) # NULL
  BY HeadTailProperties, ClientAssumption DEF HandAccept, IInv, Typed
<1>4. OpenFds' = OpenFds \cup {f}
  BY <1>1, <1>2, <1>3 DEF OpenFds, IInv, Typed
<1>5. IsFiniteSet(U) /\ f \notin U
  BY <1>2, FdAssumption, FS_Subset DEF OpenFds
<1>6. CASE watched' = watched \cup {f} /\ failures' = failures
  <2>1. U' = U
    BY <1>2, <1>4, <1>6
  <2> QED
    BY <1>6, <2>1 DEF Leaked, OnlyFailuresLeak
<1>7. CASE watched' = watched /\ failures' = failures + 1
  <2>1. U' = U \cup {f}
    BY <1>2, <1>4, <1>7
  <2>2. Cardinality(U \cup {f}) = Cardinality(U) + 1
    BY <1>5, FS_AddElement
  <2> QED
    BY <1>7, <2>1, <2>2 DEF Leaked, OnlyFailuresLeak
<1> QED
  BY <1>1, <1>6, <1>7 DEF RegisterEventHandle

(* HandRecv closes only what is watched: an event that is still to be       *)
(* handled is never about a connection that no call watched.                *)
LEMMA HandRecvLeaks ==
  ASSUME IInv, Leaked, NEW f \in Fds, HandRecv(f)
  PROVE  Leaked'
PROOF
<1>1. f \in watched /\ UNCHANGED failures
  BY DEF HandRecv, IInv, NoStaleEvent
<1>2. (OpenFds \ watched)' = OpenFds \ watched
  <2>1. CASE UNCHANGED <<sock, watched>>
    BY <2>1 DEF OpenFds
  <2>2. CASE Close(f)
    <3>1. watched' = watched \ {f} /\ OpenFds' = OpenFds \ {f}
      BY <2>2 DEF Close, Unwatched, OpenFds, IInv, Typed
    <3> QED
      BY <1>1, <3>1
  <2> QED
    BY <2>1, <2>2 DEF HandRecv, Receive
<1> QED
  BY <1>1, <1>2 DEF Leaked, OnlyFailuresLeak

(* OnlyFailuresLeak: the descriptors that are open and not watched are as   *)
(* many as calls of fcntl and epoll_ctl have failed, however often the      *)
(* others are used again.                                                   *)
THEOREM OnlyFailuresLeakHolds == Spec => []OnlyFailuresLeak
PROOF
<1>1. Init => Leaked
  <2> SUFFICES ASSUME Init PROVE Leaked
    OBVIOUS
  <2>1. OpenFds \ watched = {}
    BY DEF Init, OpenFds
  <2> QED
    BY <2>1, FS_EmptySet DEF Init, Leaked, OnlyFailuresLeak
<1>2. IInv /\ Leaked /\ [Next]_vars => Leaked'
  <2> SUFFICES ASSUME IInv, Leaked, [Next]_vars PROVE Leaked'
    OBVIOUS
  <2>1. CASE UNCHANGED <<sock, watched, failures>>
    BY <2>1 DEF Leaked, OnlyFailuresLeak, OpenFds
  <2>2. \/ HandAccept
        \/ \E f \in Fds : HandRecv(f)
        \/ UNCHANGED <<sock, watched, failures>>
    BY DEF Next, ServerStep, ClientStep, WaitEvent, HandAcceptFail, Connect, Send, HangUp,
           kernelVars, vars
  <2> QED
    BY <2>1, <2>2, HandAcceptLeaks, HandRecvLeaks
<1>3. Leaked => OnlyFailuresLeak
  BY DEF Leaked
<1> QED
  BY <1>1, <1>2, <1>3, SpecKeepsIInv, PTL DEF Spec

(* ClosesOnlyFinished: HandRecv closes a connection only when recv has told *)
(* it that the client is gone.                                              *)
THEOREM ClosesOnlyFinishedHolds == Spec => ClosesOnlyFinished
PROOF
<1> DEFINE Finished == \A f \in Fds : sock[f] # NULL /\ sock'[f] = NULL => HungUp(sock[f])
<1>1. ASSUME IInv, [Next]_vars, NEW f \in Fds, sock[f] # NULL, sock'[f] = NULL
      PROVE  HungUp(sock[f])
  <2>1. CASE HandRecv(f)
    <3>1. Close(f) /\ Readable(sock[f]) /\ sock[f] \notin unread
      BY <1>1, <2>1 DEF HandRecv, Receive, IInv, NoStaleEvent
    <3> QED
      BY <3>1 DEF Readable
  <2>2. ASSUME NEW g \in Fds, HandRecv(g), g # f
        PROVE  FALSE
    BY <1>1, <2>2 DEF HandRecv, Receive, Close, IInv, Typed
  <2>3. CASE HandAccept
    <3>1. PICK g \in FreeFds : sock' = [sock EXCEPT ![g] = Head(backlog)]
      BY <2>3 DEF HandAccept
    <3>2. g # f
      BY <1>1 DEF FreeFds, OpenFds
    <3> QED
      BY <1>1, <3>1, <3>2 DEF IInv, Typed
  <2>4. CASE UNCHANGED sock
    BY <1>1, <2>4
  <2>5. \/ \E g \in Fds : HandRecv(g)
        \/ HandAccept
        \/ UNCHANGED sock
    BY <1>1 DEF Next, ServerStep, ClientStep, WaitEvent, HandAcceptFail, Connect, Send,
                HangUp, kernelVars, vars
  <2> QED
    BY <2>1, <2>2, <2>3, <2>4, <2>5
<1>2. IInv /\ [Next]_vars => [Finished]_vars
  BY <1>1
<1> QED
  BY <1>2, SpecKeepsIInv, PTL DEF Spec, ClosesOnlyFinished

-----------------------------------------------------------------------------
LEMMA TypeKept == TypeOK /\ [Next]_vars => TypeOK'
<1> SUFFICES ASSUME TypeOK, [Next]_vars PROVE TypeOK' OBVIOUS
<1> USE DEF TypeOK, serverVars, kernelVars, clientVars
<1>1. CASE WaitEvent BY <1>1 DEF WaitEvent, Ready
<1>2. CASE HandAccept
  <2>1. backlog # <<>> /\ Head(backlog) \in Clients /\ Tail(backlog) \in Seq(Clients)
    BY <1>2, HeadTailProperties DEF HandAccept
  <2> QED
    BY <1>2, <2>1 DEF HandAccept, Consumed, RegisterEventHandle, Stored, FreeFds
<1>3. CASE HandAcceptFail BY <1>3 DEF HandAcceptFail, Consumed
<1>4. ASSUME NEW f \in Fds, HandRecv(f) PROVE TypeOK'
  BY <1>4 DEF HandRecv, Consumed, Receive, Close, Unwatched, PeerStates
<1>5. ASSUME NEW c \in Clients, Connect(c) PROVE TypeOK'
  <2>1. backlog' \in Seq(Clients) BY <1>5, AppendProperties DEF Connect
  <2> QED BY <1>5, <2>1, BoundAssumption DEF Connect, PeerStates
<1>6. ASSUME NEW c \in Clients, Send(c) \/ HangUp(c) PROVE TypeOK'
  BY <1>6 DEF Send, HangUp, PeerStates
<1>7. CASE UNCHANGED vars BY <1>7 DEF vars
<1> QED
  BY <1>1, <1>2, <1>3, <1>4, <1>5, <1>6, <1>7 DEF Next, ServerStep, ClientStep

(* TypeOK: the values of the variables. *)
THEOREM TypeCorrect == Spec => []TypeOK
<1>1. Init => TypeOK BY BoundAssumption, EmptySeq DEF Init, TypeOK, PeerStates
<1> QED BY <1>1, TypeKept, PTL DEF Spec
=============================================================================
