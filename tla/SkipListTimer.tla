---------------------------- MODULE SkipListTimer ----------------------------
(***************************************************************************)
(* The timer of SkipListTimer: a skip list of timers ordered by expiry     *)
(* time, and the loop of main that fires the ones that are due.  One       *)
(* thread uses the list; its steps interleave with the clock's.            *)
(***************************************************************************)
EXTENDS Integers, FiniteSets

CONSTANTS
  Nodes,           \* the SkipListNode objects operator new may hand out
  Header,          \* m_header
  NULL,
  MaxLevel,        \* SKIPLIST_MAXLEVEL
  Words,           \* 2^32: the values of int and of uint32_t
  Thousand,        \* the 1000 of getcurrent_time
  StartSec,        \* tv_sec when the program starts
  Delays,          \* the delays the program passes to Add_timer
  HandlerDelays,   \* the delays a handler passes to Add_timer
  CancelsTwins,    \* the program deletes a timer although another has, or had,
                   \* the same expiry time
  DirtyHeap,       \* operator new may hand out memory that is not zero
  MaxSec,          \* bound: seconds the clock runs
  MaxAdds          \* bound: calls of Add_timer

ASSUME NodeAssumption ==
  IsFiniteSet(Nodes) /\ Header \notin Nodes /\ NULL \notin Nodes \cup {Header}
ASSUME WidthAssumption ==
  /\ MaxLevel \in Nat \ {0} /\ Thousand \in Nat \ {0}
  /\ Words \in Nat \ {0} /\ Words % 2 = 0
ASSUME DelayAssumption ==
  Delays \subseteq Nat /\ HandlerDelays \subseteq Nat
ASSUME SwitchAssumption == CancelsTwins \in BOOLEAN /\ DirtyHeap \in BOOLEAN
ASSUME ClockAssumption == StartSec \in Nat /\ MaxSec \in Nat /\ MaxAdds \in Nat

VARIABLES
  nxt,        \* m_level[i]->m_next of each node and of the header
  score,      \* m_score, an unsigned long
  height,     \* the levels the constructor gave the node
  m_level,
  m_length,
  live,       \* the nodes that exist
  sec,        \* tv_sec
  drawn,      \* the level RandomLevel draws in this second
  pc,         \* where expire_timer is
  now,        \* the time expire_timer read, 0 when it does not run
  x,          \* the node whose handler runs
  status,     \* what the user of each node may expect of it
  expiry,     \* when it should fire, on a clock that does not wrap
  adds        \* calls of Add_timer so far

listVars == <<nxt, score, height, m_level, m_length, live>>
loopVars == <<pc, now, x>>
clockVars == <<sec, drawn>>
userVars == <<status, expiry, adds>>
vars == <<listVars, loopVars, clockVars, userVars>>

Levels == 0..(MaxLevel - 1)
Armed == {n \in Nodes : status[n] = "armed"}
Dropped == {n \in Nodes : status[n] = "dropped"}

(* Deliberate mistakes for the definition named in each comment.            *)
LinkedToTop(h) == 0..(m_level - 1)            \* LinkedLevels: m_level, not h
NotLarger(m, s) == score[m] <= s              \* Smaller: <= for <
Overdue(n) == score[n] < now                  \* Due: < for <=
DueNext(n) == score[n] <= now + 1             \* Due: one too early
DueExactly(n) == score[n] = now               \* Due: == for <=

(* getcurrent_time before it is cut to 32 bits: a thousand per second, and  *)
(* one more every thousand seconds, where tv_usec was meant.                *)
ClockAt(t) == t * Thousand + t \div Thousand
Clock == ClockAt(sec)
CurrentTime == Clock % Words

(* The constructor of a node takes the uint32_t as an int, and keeps that   *)
(* as an unsigned long, which has the values of two words.                  *)
StoredScore(s) == IF s < Words \div 2 THEN s ELSE Words * Words - Words + s

TypeOK ==
  /\ nxt \in [Nodes \cup {Header} -> [Levels -> Nodes \cup {NULL}]]
  /\ score \in [Nodes -> 0..(Words * Words - 1)]
  /\ height \in [Nodes -> 0..MaxLevel]
  /\ m_level \in 1..MaxLevel
  /\ m_length \in Nat
  /\ live \subseteq Nodes
  /\ sec \in StartSec..(StartSec + MaxSec)
  /\ drawn \in 1..MaxLevel
  /\ pc \in {"main", "check", "handler", "aborted"}
  /\ now \in 0..(Words - 1)
  /\ x \in Nodes \cup {NULL}
  /\ status \in [Nodes -> {"off", "armed", "fired", "dropped"}]
  /\ expiry \in [Nodes -> Nat]
  /\ adds \in 0..MaxAdds

Init ==
  /\ nxt = [n \in Nodes \cup {Header} |-> [i \in Levels |-> NULL]]
  /\ score = [n \in Nodes |-> 0]
  /\ height = [n \in Nodes |-> 0]
  /\ m_level = 1
  /\ m_length = 0
  /\ live = {}
  /\ sec = StartSec
  /\ drawn \in 1..MaxLevel
  /\ pc = "main" /\ now = 0 /\ x = NULL
  /\ status = [n \in Nodes |-> "off"]
  /\ expiry = [n \in Nodes |-> 0]
  /\ adds = 0

-----------------------------------------------------------------------------
(* The skip list *)

Smaller(m, s) == score[m] < s

(* The while loop of one level: from n on, the last node whose successor is *)
(* not smaller than s.                                                      *)
Walk(i, n, s) ==
  LET from[p \in Nodes \cup {Header}] ==
        IF nxt[p][i] # NULL /\ Smaller(nxt[p][i], s)
        THEN from[nxt[p][i]] ELSE p
  IN  from[n]

(* temp[i]: each level is searched from where the level above ended, and    *)
(* the levels above m_level start at the header.                            *)
Temp(s) ==
  LET temp[i \in 0..MaxLevel] ==
        IF i >= m_level THEN Header ELSE Walk(i, temp[i + 1], s)
  IN  temp

GetMinNode == nxt[Header][0]

LinkedLevels(h) == 0..(h - 1)

Insert_node(n, s) ==
  LET temp == Temp(s)
      h == drawn
  IN  /\ nxt' = [p \in Nodes \cup {Header} |-> [i \in Levels |->
                   IF i \notin LinkedLevels(h) THEN nxt[p][i]
                   ELSE IF p = n THEN nxt[temp[i]][i]
                   ELSE IF p = temp[i] THEN n ELSE nxt[p][i]]]
      /\ score' = [score EXCEPT ![n] = StoredScore(s)]
      /\ height' = [height EXCEPT ![n] = h]
      /\ m_level' = IF h > m_level THEN h ELSE m_level
      /\ m_length' = m_length + 1
      /\ live' = live \cup {n}

UnlinkedLevels == 0..(m_level - 1)
ShrunkLength == m_length - 1

(* The loop that lowers m_level while the header has no node there. *)
LevelInUse(first) ==
  CHOOSE k \in 1..m_level :
    /\ k = 1 \/ first[k - 1] # NULL
    /\ \A i \in k..(m_level - 1) : first[i] = NULL

(* Del_node given the score of its argument: what it unlinks and deletes is *)
(* the first node with that score.                                          *)
Del_node(s) ==
  LET temp == Temp(s)
      del == nxt[temp[0]][0]
      unlinked == [p \in Nodes \cup {Header} |-> [i \in Levels |->
                     IF i \in UnlinkedLevels /\ p = temp[i] /\ nxt[p][i] = del
                     THEN nxt[del][i] ELSE nxt[p][i]]]
  IN  IF del # NULL /\ score[del] = s
      THEN /\ nxt' = [unlinked EXCEPT ![del] = [i \in Levels |-> NULL]]
           /\ m_level' = LevelInUse(unlinked[Header])
           /\ m_length' = ShrunkLength
           /\ live' = live \ {del}
           /\ score' = [score EXCEPT ![del] = 0]
           /\ height' = [height EXCEPT ![del] = 0]
      ELSE UNCHANGED listVars

(* The destructor of a node deletes every slot of m_level that is not NULL, *)
(* also those above the node's height, which nobody has set.                *)
DestructorAborts == DirtyHeap /\ \E n \in live \ live' : height[n] < MaxLevel

(* Where the program is after Del_node, which should lead to there. *)
AfterDelete(there) ==
  \/ pc' = there
  \/ DestructorAborts /\ pc' = "aborted"

-----------------------------------------------------------------------------
(* The program *)

(* Add_timer, called with d between two passes or in a handler. *)
Add_timer(n, d) ==
  /\ n \in Nodes \ live
  /\ adds < MaxAdds
  /\ Insert_node(n, (CurrentTime + d) % Words)
  /\ status' = [status EXCEPT ![n] = "armed"]
  /\ expiry' = [expiry EXCEPT ![n] = Clock + d]
  /\ adds' = adds + 1
  /\ UNCHANGED <<loopVars, clockVars>>

Add(n) ==
  \/ pc = "main" /\ \E d \in Delays : Add_timer(n, d)
  \/ pc = "handler" /\ \E d \in HandlerDelays : Add_timer(n, d)

(* The score Del_timer reads through the pointer its caller kept; the node  *)
(* may be gone, and any value be in its place.                              *)
ScoreRead(n) == IF n \in live THEN {score[n]} ELSE {0} \cup {score[m] : m \in live}

(* The user deletes a timer it believes to be pending.  A dropped one had   *)
(* another of its expiry time.                                              *)
Del_timer(n) ==
  /\ pc \in {"main", "handler"}
  /\ n \in Armed \cup Dropped
  /\ \/ CancelsTwins
     \/ n \in Armed /\ \A m \in live \ {n} : expiry[m] # expiry[n]
  /\ \E s \in ScoreRead(n) : Del_node(s)
  /\ AfterDelete(pc)
  /\ status' = [status EXCEPT ![n] = "off"]
  /\ UNCHANGED <<now, x, clockVars, expiry, adds>>

Due(n) == score[n] <= now
HeadIsDue == GetMinNode # NULL /\ Due(GetMinNode)

ExpireStart ==
  /\ pc = "main"
  /\ pc' = "check" /\ now' = CurrentTime
  /\ UNCHANGED <<listVars, x, clockVars, userVars>>

ExpireFire ==
  /\ pc = "check"
  /\ HeadIsDue
  /\ pc' = "handler" /\ x' = GetMinNode
  /\ status' = [status EXCEPT ![GetMinNode] = "fired"]
  /\ UNCHANGED <<listVars, now, clockVars, expiry, adds>>

(* The handler returns, and Del_HeadNode deletes what is then first: the    *)
(* timer that fired, or one that its handler armed for the time at which it *)
(* was due itself, since Insert_node puts a node before those of the same   *)
(* score.  That one is dropped, unfired, and the one that fired stays in    *)
(* the list, to fire again.                                                 *)
AfterHandler(n) ==
  CASE n = x /\ x \in live /\ GetMinNode # x -> "armed"
    [] n = GetMinNode /\ n \in Armed -> "dropped"
    [] OTHER -> status[n]

Del_HeadNode ==
  /\ pc = "handler"
  /\ IF GetMinNode = NULL THEN UNCHANGED listVars
     ELSE Del_node(score[GetMinNode])
  /\ AfterDelete("check")
  /\ x' = NULL
  /\ status' = [n \in Nodes |-> AfterHandler(n)]
  /\ UNCHANGED <<now, clockVars, expiry, adds>>

ExpireReturn ==
  /\ pc = "check"
  /\ ~HeadIsDue
  /\ pc' = "main" /\ now' = 0
  /\ UNCHANGED <<listVars, x, clockVars, userVars>>

(* RandomLevel seeds with the second, so that all draws of it are the same. *)
Tick ==
  /\ pc # "aborted" /\ sec < StartSec + MaxSec
  /\ sec' = sec + 1
  /\ drawn' \in 1..MaxLevel
  /\ UNCHANGED <<listVars, loopVars, userVars>>

LoopStep == ExpireStart \/ ExpireFire \/ Del_HeadNode \/ ExpireReturn

Next ==
  \/ LoopStep \/ Tick
  \/ \E n \in Nodes : Add(n) \/ Del_timer(n)

Spec == Init /\ [][Next]_vars

(* main's loop goes on for ever, and its handlers return. *)
Fairness == WF_vars(LoopStep)

FairSpec == Spec /\ Fairness

-----------------------------------------------------------------------------
(* Properties *)

(* An order of the nodes, given as the place of each: of the expiry times,  *)
(* and without two nodes at one place.                                      *)
Ordered(place) ==
  \A m, n \in live :
    /\ place[m] = place[n] => m = n
    /\ place[m] < place[n] => expiry[m] <= expiry[n]

(* On level i the node p, or the header, is followed by the next of those   *)
(* that are high enough.                                                    *)
Linked(place, i, p) ==
  LET later == {m \in live : height[m] > i /\ (p = Header \/ place[m] > place[p])}
  IN  IF later = {} THEN nxt[p][i] = NULL
      ELSE nxt[p][i] \in later /\ \A m \in later : place[nxt[p][i]] <= place[m]

(* Level 0 holds the nodes that exist, ordered by expiry time, and each     *)
(* level those of them that are high enough, in the same order: Insert_node *)
(* and Del_node, which search level by level, miss no level of the node     *)
(* they link or unlink.  GetMinNode and the break of expire_timer rely on   *)
(* it.  m_length counts the list, and m_level is the highest level in use,  *)
(* or 1.                                                                    *)
LevelsAreSublists ==
  /\ m_length = Cardinality(live)
  /\ \A n \in live : height[n] \in 1..m_level
  /\ m_level = 1 \/ \E n \in live : height[n] = m_level
  /\ \E place \in [live -> 1..m_length] :
       /\ Ordered(place)
       /\ \A i \in Levels : \A p \in {Header} \cup {n \in live : height[n] > i} :
            Linked(place, i, p)

(* The list holds the timers that are still to fire and the one whose       *)
(* handler runs: Del_timer took out the timer it was given and no other,    *)
(* and Del_HeadNode the one that fired, or for it the one dropped.          *)
ArmedIsListed == live = Armed \cup ({x} \ {NULL})

(* What getcurrent_time leaves out of the clock, until it wraps again.      *)
Round == Words * (ClockAt(StartSec) \div Words)

(* No time that the program reads or passes on leaves the lower half of a   *)
(* word, where a score keeps its value.                                     *)
TimesFit ==
  \A t \in StartSec..(StartSec + MaxSec), d \in {0} \cup Delays \cup HandlerDelays :
    ClockAt(t) + d - Round < Words \div 2

(* When expire_timer returns, none of the timers that are still to fire is  *)
(* due at the time it read, whatever the handlers have armed and deleted    *)
(* and however far the clock has gone on meanwhile.                         *)
PassLeavesNothingDue ==
  [][ExpireReturn => \A n \in Armed : expiry[n] > Round + now]_vars

(* The list and the loop do what a timer promises.                          *)
Service == INSTANCE TimerService WITH Timers <- Nodes, clock <- Clock, running <- x
TimerServiceSpec == Service!Spec

(* A timer that is due leaves the list, unless Del_node has crashed: no     *)
(* pass and no handler forgets it.  A handler that arms one with no delay   *)
(* each time it runs keeps its pass going while the clock stands; it may    *)
(* do so MaxAdds times.                                                     *)
DueTimersFire ==
  \A n \in Nodes :
    LET overdue == n \in live /\ expiry[n] <= Clock
    IN  overdue ~> (~overdue \/ pc = "aborted")
=============================================================================
