------------------------ MODULE SkipListTimerProofs ------------------------
(***************************************************************************)
(* Proofs about SkipListTimer for any nodes, delays and number of levels,  *)
(* while no time leaves the lower half of a 32-bit word, and for programs  *)
(* that delete no timer beside another of the same expiry time.            *)
(***************************************************************************)
EXTENDS SkipListTimer, FiniteSetTheorems, WellFoundedInduction, TLAPS

(* The walks compare with nodes of a lower score. *)
Lower(i, s) == {m \in live : height[m] > i /\ score[m] < s}

(* p is where the search of level i ends: the last node with a lower score, *)
(* or the header.                                                           *)
IsLast(place, i, s, p) ==
  /\ p \in {Header} \cup Lower(i, s)
  /\ \A m \in Lower(i, s) : p # Header /\ place[m] <= place[p]

OnLevel(i) == {Header} \cup {n \in live : height[n] > i}

(* The shape of the list, with the order of its nodes. *)
Shape ==
  /\ nxt \in [Nodes \cup {Header} -> [Levels -> Nodes \cup {NULL}]]
  /\ score \in [Nodes -> Nat] /\ height \in [Nodes -> 0..MaxLevel]
  /\ live \subseteq Nodes /\ m_length \in Nat /\ m_level \in 1..MaxLevel
  /\ \A n \in live : height[n] \in 1..m_level
  /\ \A p \in Nodes, i \in Levels : p \notin OnLevel(i) => nxt[p][i] = NULL

Sorted(place) ==
  \A m, n \in live :
    /\ place[m] = place[n] => m = n
    /\ place[m] < place[n] => score[m] <= score[n]

Listed(place) ==
  /\ place \in [live -> 1..m_length]
  /\ Sorted(place)
  /\ \A i \in Levels : \A p \in OnLevel(i) : Linked(place, i, p)

-----------------------------------------------------------------------------
(* Induction over the list is the existence of a least number. *)

LEMMA LeastNatural ==
  ASSUME NEW T, T \subseteq Nat, T # {}
  PROVE  \E m \in T : \A k \in T : m <= k
<1>1. IsWellFoundedOn(OpToRel(<, Nat), Nat) BY NatLessThanWellFounded
<1>2. \E m \in T : \A k \in T : ~(<<k, m>> \in OpToRel(<, Nat)) BY <1>1, WFMin
<1>3. \A k, m \in T : ~(<<k, m>> \in OpToRel(<, Nat)) => m <= k BY DEF OpToRel
<1> QED BY <1>2, <1>3

LEMMA LastOne ==
  ASSUME NEW length \in Nat, NEW S, NEW place \in [S -> 1..length], NEW some, some \subseteq S,
         some # {}
  PROVE  \E z \in some : \A m \in some : place[m] <= place[z]
<1> DEFINE T == {length - place[m] : m \in some}
<1>1. T \subseteq Nat /\ T # {} OBVIOUS
<1>2. PICK t \in T : \A k \in T : t <= k BY <1>1, LeastNatural
<1>3. PICK z \in some : t = length - place[z] OBVIOUS
<1>4. \A m \in some : t <= length - place[m] BY <1>2
<1> QED BY <1>3, <1>4

LEMMA LastExists ==
  ASSUME Shape, NEW place, Listed(place), NEW i \in Levels, NEW s \in Nat
  PROVE  \E z : IsLast(place, i, s, z)
<1>1. CASE Lower(i, s) = {} BY <1>1 DEF IsLast
<1>2. CASE Lower(i, s) # {}
  <2>1. \E z \in Lower(i, s) : \A m \in Lower(i, s) : place[m] <= place[z]
    BY <1>2, LastOne DEF Shape, Listed, Lower
  <2>2. Header \notin Lower(i, s) BY NodeAssumption DEF Shape, Lower
  <2> QED BY <2>1, <2>2 DEF IsLast
<1> QED BY <1>1, <1>2

(* What follows a node that the search passes, and what it stops at.        *)
LEMMA Following ==
  ASSUME Shape, NEW place, Listed(place), NEW i \in Levels, NEW s \in Nat,
         NEW z, IsLast(place, i, s, z), NEW p \in {Header} \cup Lower(i, s)
  PROVE  /\ p = z => ~(nxt[p][i] # NULL /\ Smaller(nxt[p][i], s))
         /\ p # z => /\ nxt[p][i] # NULL /\ nxt[p][i] \in Lower(i, s)
                     /\ p # Header => place[nxt[p][i]] > place[p]
<1>1. p \in OnLevel(i) /\ Linked(place, i, p) BY DEF OnLevel, Lower, Listed
<1> DEFINE later == {m \in live : height[m] > i /\ (p = Header \/ place[m] > place[p])}
<1>2. IF later = {} THEN nxt[p][i] = NULL
      ELSE nxt[p][i] \in later /\ \A m \in later : place[nxt[p][i]] <= place[m]
  BY <1>1 DEF Linked
<1>3. \A m \in live : m \in Nodes /\ m # Header /\ m # NULL /\ place[m] \in Nat /\ score[m] \in Nat
  BY NodeAssumption DEF Shape, Listed
<1> HIDE DEF later
<1>4. \A m \in later : m \in live /\ height[m] > i /\ (p # Header => place[m] > place[p])
  BY DEF later
<1>5. \A m \in live : height[m] > i /\ (p = Header \/ place[m] > place[p]) => m \in later
  BY DEF later
<1>6. CASE p = z
  <2> SUFFICES ASSUME nxt[p][i] # NULL, Smaller(nxt[p][i], s) PROVE FALSE BY <1>6
  <2>1. nxt[p][i] \in later BY <1>2
  <2>2. nxt[p][i] \in Lower(i, s) BY <1>4, <2>1 DEF Smaller, Lower
  <2>3. p # Header /\ place[nxt[p][i]] <= place[p] BY <1>6, <2>2 DEF IsLast
  <2>4. p \in live BY <2>3 DEF Lower
  <2> QED BY <1>3, <1>4, <2>1, <2>3, <2>4
<1>7. CASE p # z
  <2>1. z \in Lower(i, s) /\ z \in live /\ height[z] > i /\ score[z] < s
    BY <1>7 DEF IsLast, Lower
  <2>2. p # Header => p \in live /\ place[p] < place[z]
    <3> SUFFICES ASSUME p # Header PROVE p \in live /\ place[p] < place[z] OBVIOUS
    <3>1. p \in Lower(i, s) /\ p \in live BY DEF Lower
    <3>2. place[p] <= place[z] BY <3>1 DEF IsLast
    <3>3. place[p] # place[z] BY <1>7, <2>1, <3>1 DEF Listed, Sorted
    <3> QED BY <1>3, <2>1, <3>1, <3>2, <3>3
  <2>3. z \in later BY <1>5, <2>1, <2>2
  <2>4. nxt[p][i] \in later /\ place[nxt[p][i]] <= place[z] BY <1>2, <2>3
  <2>5. nxt[p][i] \in live /\ height[nxt[p][i]] > i BY <1>4, <2>4
  <2>6. score[nxt[p][i]] <= score[z]
    <3>1. place[nxt[p][i]] = place[z] \/ place[nxt[p][i]] < place[z] BY <1>3, <2>1, <2>4, <2>5
    <3>2. CASE nxt[p][i] = z BY <1>3, <2>1, <3>2
    <3>3. CASE place[nxt[p][i]] < place[z] BY <2>1, <2>5, <3>3 DEF Listed, Sorted
    <3> QED BY <2>1, <2>5, <3>1, <3>2, <3>3 DEF Listed, Sorted
  <2>7. nxt[p][i] \in Lower(i, s) BY <1>3, <2>1, <2>5, <2>6 DEF Lower
  <2> QED BY <1>3, <1>4, <1>7, <2>4, <2>5, <2>7
<1> QED BY <1>6, <1>7

(* The while loop of one level, from a node it passes, ends at the last one. *)
LEMMA WalkEnds ==
  ASSUME Shape, NEW place, Listed(place), NEW i \in Levels, NEW s \in Nat,
         NEW z, IsLast(place, i, s, z), NEW p \in {Header} \cup Lower(i, s)
  PROVE  Walk(i, p, s) = z
<1> DEFINE S == Nodes \cup {Header}
           passed == {Header} \cup Lower(i, s)
           goesOn(q) == nxt[q][i] # NULL /\ Smaller(nxt[q][i], s)
<1>1. passed \subseteq S /\ z \in passed /\ Header \notin Lower(i, s) /\ NULL \notin S
  <2>1. Lower(i, s) \subseteq Nodes BY DEF Shape, Lower
  <2>2. Header \notin Nodes /\ NULL \notin Nodes /\ NULL # Header BY NodeAssumption
  <2>3. z \in passed BY DEF IsLast
  <2>4. Header \notin Lower(i, s) BY <2>1, <2>2
  <2>5. NULL \notin S BY <2>2
  <2>6. passed \subseteq S BY <2>1
  <2> HIDE DEF passed, S
  <2> QED BY <2>3, <2>4, <2>5, <2>6
<1>a. ASSUME NEW q \in passed
      PROVE  /\ q = z => ~goesOn(q)
             /\ q # z => goesOn(q) /\ nxt[q][i] \in Lower(i, s)
                         /\ (q # Header => place[nxt[q][i]] > place[q])
  <2>1. q \in {Header} \cup Lower(i, s) BY <1>a
  <2>2. /\ q = z => ~(nxt[q][i] # NULL /\ Smaller(nxt[q][i], s))
        /\ q # z => /\ nxt[q][i] # NULL /\ nxt[q][i] \in Lower(i, s)
                    /\ q # Header => place[nxt[q][i]] > place[q]
    BY <2>1, Following
  <2>3. nxt[q][i] \in Lower(i, s) => Smaller(nxt[q][i], s) BY DEF Lower, Smaller
  <2> QED BY <2>2, <2>3
<1>2. ~goesOn(z) /\ \A q \in passed \ {z} : goesOn(q) /\ nxt[q][i] \in Lower(i, s)
  <2> HIDE DEF goesOn, passed
  <2> QED BY <1>1, <1>a
<1>3. \A q \in passed \ {z} : q # Header => place[nxt[q][i]] > place[q]
  <2> HIDE DEF goesOn, passed
  <2> QED BY <1>1, <1>a
<1>4. ASSUME NEW q \in S \ passed PROVE ~goesOn(q)
  <2>1. CASE q \notin OnLevel(i)
    <3>1. q \in Nodes BY <1>4, <2>1 DEF OnLevel
    <3> QED BY <2>1, <3>1 DEF Shape
  <2>2. CASE q \in OnLevel(i)
    <3>1. q \in live /\ height[q] > i /\ ~(score[q] < s) BY <1>4, <2>2 DEF OnLevel, Lower
    <3> SUFFICES ASSUME goesOn(q) PROVE FALSE OBVIOUS
    <3>2. Linked(place, i, q) BY <2>2 DEF Listed
    <3>3. q # Header BY <1>4
    <3>4. nxt[q][i] \in live /\ height[nxt[q][i]] > i /\ place[nxt[q][i]] > place[q]
      BY <3>2, <3>3 DEF Linked
    <3>5. score[q] <= score[nxt[q][i]] BY <3>1, <3>4 DEF Listed, Sorted
    <3>6. score[nxt[q][i]] < s BY DEF Smaller
    <3>7. score[q] \in Nat /\ score[nxt[q][i]] \in Nat BY <3>1, <3>4 DEF Shape
    <3> QED BY <3>1, <3>5, <3>6, <3>7
  <2> QED BY <2>1, <2>2
<1> DEFINE Solves(f) == f = [q \in S |-> IF goesOn(q) THEN f[nxt[q][i]] ELSE q]
           f0 == [q \in S |-> IF q \in passed THEN z ELSE q]
<1>5. Solves(f0)
  <2>1. ASSUME NEW q \in S PROVE f0[q] = IF goesOn(q) THEN f0[nxt[q][i]] ELSE q
    <3>1. CASE q \in passed \ {z}
      <4>1. goesOn(q) /\ nxt[q][i] \in passed BY <1>2, <3>1
      <4>2. f0[q] = z /\ f0[nxt[q][i]] = z BY <1>1, <3>1, <4>1
      <4> QED BY <4>1, <4>2
    <3>2. CASE q = z BY <1>1, <1>2, <3>2
    <3>3. CASE q \notin passed BY <1>4, <3>3
    <3> QED BY <3>1, <3>2, <3>3
  <2> HIDE DEF goesOn
  <2>2. f0 = [q \in S |-> f0[q]] OBVIOUS
  <2> QED BY <2>1, <2>2
<1> DEFINE g == CHOOSE f : Solves(f)
<1>6. Solves(g) BY <1>5
<1>7. Walk(i, p, s) = g[p] BY DEF Walk
<1> HIDE DEF g, f0
<1>8. \A q \in S : g[q] = IF goesOn(q) THEN g[nxt[q][i]] ELSE q BY <1>6
<1> HIDE DEF Solves, goesOn, S, passed
<1>9. g[z] = z BY <1>1, <1>2, <1>8
<1>10. \A q \in Lower(i, s) : g[q] = z
  <2> DEFINE wrong == {q \in Lower(i, s) : g[q] # z}
  <2> SUFFICES ASSUME wrong # {} PROVE FALSE OBVIOUS
  <2>1. PICK q \in wrong : \A m \in wrong : place[m] <= place[q]
    BY LastOne DEF Shape, Listed, Lower
  <2>2. q \in Lower(i, s) /\ q \in passed /\ q # z /\ q # Header BY <1>1, <1>9 DEF passed
  <2>3. nxt[q][i] \in Lower(i, s) /\ place[nxt[q][i]] > place[q] /\ goesOn(q)
    BY <1>2, <1>3, <2>2
  <2>4. g[q] = g[nxt[q][i]] BY <1>1, <1>8, <2>2, <2>3
  <2>5. nxt[q][i] \in wrong BY <2>1, <2>3, <2>4
  <2>6. place[nxt[q][i]] <= place[q] BY <2>1, <2>5
  <2>7. place[nxt[q][i]] \in Nat /\ place[q] \in Nat
    BY <2>2, <2>3 DEF Listed, Lower
  <2> QED BY <2>3, <2>6, <2>7
<1>11. CASE p = Header
  <2>1. CASE p = z BY <1>7, <1>9, <2>1
  <2>2. CASE p # z
    <3>1. goesOn(p) /\ nxt[p][i] \in Lower(i, s) /\ p \in S
      BY <1>1, <1>2, <1>11, <2>2 DEF passed
    <3>2. g[p] = g[nxt[p][i]] BY <1>8, <3>1
    <3> QED BY <1>7, <1>10, <3>1, <3>2
  <2> QED BY <2>1, <2>2
<1>12. CASE p \in Lower(i, s) BY <1>7, <1>10, <1>12
<1> QED BY <1>11, <1>12

(* Each level's search ends at the last node with a lower score. *)
LEMMA TempIsLast ==
  ASSUME Shape, NEW place, Listed(place), NEW s \in Nat
  PROVE  \A i \in Levels : IsLast(place, i, s, Temp(s)[i])
<1> DEFINE last(i) == CHOOSE z : IsLast(place, i, s, z)
           Solves(f) == f = [i \in 0..MaxLevel |->
                              IF i >= m_level THEN Header ELSE Walk(i, f[i + 1], s)]
           f0 == [i \in 0..MaxLevel |-> IF i >= m_level THEN Header ELSE last(i)]
<1>1. \A i \in Levels : IsLast(place, i, s, last(i)) BY LastExists
<1>2. MaxLevel \in Nat \ {0} /\ m_level \in 1..MaxLevel /\ Levels = 0..(MaxLevel - 1)
  BY WidthAssumption DEF Shape, Levels
<1>3. ASSUME NEW i \in Levels, i >= m_level PROVE IsLast(place, i, s, Header)
  <2>1. \A m \in live : height[m] \in 1..m_level BY DEF Shape
  <2>2. Lower(i, s) = {} BY <1>2, <1>3, <2>1 DEF Lower
  <2> QED BY <2>2 DEF IsLast
<1>4. ASSUME NEW i \in Levels, NEW q, i + 1 \in Levels => IsLast(place, i + 1, s, q),
             i + 1 \notin Levels => q = Header
      PROVE  Walk(i, q, s) = last(i)
  <2>1. q \in {Header} \cup Lower(i, s)
    <3>1. CASE i + 1 \in Levels
      <4>1. q = Header \/ q \in Lower(i + 1, s) BY <1>4, <3>1 DEF IsLast
      <4>2. \A m \in live : height[m] \in 0..MaxLevel BY DEF Shape
      <4>3. Lower(i + 1, s) \subseteq Lower(i, s) BY <1>2, <4>2 DEF Lower
      <4> QED BY <4>1, <4>3
    <3> QED BY <1>4, <3>1
  <2>2. IsLast(place, i, s, last(i)) BY <1>1
  <2> HIDE DEF last
  <2> QED BY <2>1, <2>2, WalkEnds
<1> HIDE DEF last
<1>5. Solves(f0)
  <2>1. ASSUME NEW i \in Levels, i < m_level PROVE Walk(i, f0[i + 1], s) = last(i)
    <3>1. i + 1 \in 0..MaxLevel BY <1>2
    <3>2. f0[i + 1] = IF i + 1 >= m_level THEN Header ELSE last(i + 1) BY <3>1
    <3> HIDE DEF f0
    <3>3. i + 1 \in Levels => IsLast(place, i + 1, s, f0[i + 1]) BY <1>1, <1>3, <3>2
    <3>4. i + 1 \notin Levels => f0[i + 1] = Header BY <1>2, <2>1, <3>2
    <3> QED BY <1>4, <3>3, <3>4
  <2>2. ASSUME NEW i \in 0..MaxLevel
        PROVE  f0[i] = IF i >= m_level THEN Header ELSE Walk(i, f0[i + 1], s)
    <3>1. CASE i >= m_level BY <3>1
    <3>2. CASE ~(i >= m_level)
      <4>1. i \in Levels /\ i < m_level BY <1>2, <3>2
      <4>2. f0[i] = last(i) BY <3>2
      <4> HIDE DEF f0
      <4> QED BY <2>1, <3>2, <4>1, <4>2
    <3> QED BY <3>1, <3>2
  <2>3. f0 = [i \in 0..MaxLevel |-> f0[i]] OBVIOUS
  <2> HIDE DEF f0
  <2> QED BY <2>2, <2>3
<1> DEFINE g == CHOOSE f : Solves(f)
<1>6. Solves(g) BY <1>5
<1>7. Temp(s) = g BY DEF Temp
<1> HIDE DEF g, f0
<1>8. \A i \in 0..MaxLevel : g[i] = IF i >= m_level THEN Header ELSE Walk(i, g[i + 1], s)
  BY <1>6
<1> HIDE DEF Solves
<1> DEFINE wrong == {i \in Levels : ~IsLast(place, i, s, g[i])}
<1>9. ASSUME wrong # {} PROVE FALSE
  <2> DEFINE at == [i \in Levels |-> i + 1]
  <2>1. at \in [Levels -> 1..MaxLevel] BY <1>2
  <2>2. \E z \in wrong : \A m \in wrong : at[m] <= at[z]
    <3>1. wrong \subseteq Levels OBVIOUS
    <3> HIDE DEF at, wrong
    <3> QED BY <1>2, <1>9, <2>1, <3>1, LastOne
  <2>3. PICK i \in wrong : \A m \in wrong : m <= i BY <1>2, <2>2
  <2>4. i \in Levels /\ ~IsLast(place, i, s, g[i]) OBVIOUS
  <2>5. i < m_level
    <3> SUFFICES ASSUME i >= m_level PROVE FALSE BY <1>2, <2>4
    <3>1. g[i] = Header BY <1>2, <1>8, <2>4
    <3> QED BY <1>3, <2>4, <3>1
  <2>6. g[i] = Walk(i, g[i + 1], s) BY <1>2, <1>8, <2>4, <2>5
  <2>7. i + 1 \in Levels => IsLast(place, i + 1, s, g[i + 1]) BY <1>2, <2>3, <2>4
  <2>8. i + 1 \notin Levels => g[i + 1] = Header
    <3> SUFFICES ASSUME i + 1 \notin Levels PROVE g[i + 1] = Header OBVIOUS
    <3>1. i + 1 \in 0..MaxLevel /\ i + 1 >= m_level BY <1>2, <2>4
    <3> QED BY <1>8, <3>1
  <2>9. g[i] = last(i) BY <1>4, <2>4, <2>6, <2>7, <2>8
  <2> QED BY <1>1, <2>4, <2>9
<1> HIDE DEF g
<1> QED BY <1>7, <1>9

(* What the search says of the nodes and links around its end. *)
LEMMA AtTheEnd ==
  ASSUME Shape, NEW place, Listed(place), NEW i \in Levels, NEW s \in Nat,
         NEW q, IsLast(place, i, s, q)
  PROVE  /\ q \in OnLevel(i) /\ q \in Nodes \cup {Header}
         /\ q # Header => q \in live /\ score[q] < s /\ height[q] > i
         /\ \A m \in live : height[m] > i =>
              (score[m] < s <=> q # Header /\ place[m] <= place[q])
<1>1. q # Header => q \in live /\ score[q] < s /\ height[q] > i
  BY DEF IsLast, Lower
<1>2. q \in OnLevel(i) /\ q \in Nodes \cup {Header} BY <1>1 DEF OnLevel, Shape
<1>3. ASSUME NEW m \in live, height[m] > i
      PROVE  score[m] < s <=> q # Header /\ place[m] <= place[q]
  <2>1. score[m] < s => q # Header /\ place[m] <= place[q] BY <1>3 DEF IsLast, Lower
  <2>2. ASSUME q # Header, place[m] <= place[q] PROVE score[m] < s
    <3>1. q \in live /\ score[q] < s BY <1>1, <2>2
    <3>2. score[q] \in Nat /\ score[m] \in Nat BY <3>1 DEF Shape
    <3>3. place[q] \in Nat /\ place[m] \in Nat BY <3>1 DEF Listed
    <3>4. CASE place[m] = place[q] BY <3>1, <3>4 DEF Listed, Sorted
    <3>5. CASE place[m] < place[q]
      <4>1. score[m] <= score[q] BY <3>1, <3>5 DEF Listed, Sorted
      <4> QED BY <3>1, <3>2, <4>1
    <3> QED BY <2>2, <3>3, <3>4, <3>5
  <2> QED BY <2>1, <2>2
<1> QED BY <1>1, <1>2, <1>3

(* An order with the node n put after all nodes of a lower score and before *)
(* the others.                                                              *)
Placed(to, place, n, s) ==
  /\ to \in [live \cup {n} -> 1..(m_length + 1)]
  /\ \A a, b \in live : /\ to[a] > to[b] <=> place[a] > place[b]
                        /\ to[a] = to[b] <=> place[a] = place[b]
  /\ \A a \in live : /\ score[a] < s => to[a] < to[n]
                     /\ ~(score[a] < s) => to[a] > to[n]

LEMMA InsertOrder ==
  ASSUME Shape, NEW place, Listed(place), NEW n \in Nodes \ live, NEW s \in Nat
  PROVE  \E to : Placed(to, place, n, s)
<1>1. 0 \in Levels BY WidthAssumption DEF Levels
<1>2. PICK q : IsLast(place, 0, s, q) BY <1>1, LastExists
<1>3. \A a \in live : height[a] > 0 BY DEF Shape
<1>4. PICK k \in 0..m_length : \A a \in live : score[a] < s <=> place[a] <= k
  <2>1. \A a \in live : score[a] < s <=> q # Header /\ place[a] <= place[q]
    BY <1>1, <1>2, <1>3, AtTheEnd
  <2>2. \A a \in live : place[a] \in 1..m_length BY DEF Listed
  <2>3. CASE q = Header
    <3>1. \A a \in live : score[a] < s <=> place[a] <= 0 BY <2>1, <2>2, <2>3
    <3>2. 0 \in 0..m_length BY DEF Shape
    <3> QED BY <3>1, <3>2
  <2>4. CASE q # Header
    <3>1. q \in live BY <1>1, <1>2, <2>4, AtTheEnd
    <3>2. place[q] \in 0..m_length BY <2>2, <3>1
    <3> QED BY <2>1, <2>4, <3>2
  <2> QED BY <2>3, <2>4
<1> DEFINE moved(a) == IF place[a] <= k THEN place[a] ELSE place[a] + 1
           to == [a \in live \cup {n} |-> IF a = n THEN k + 1 ELSE moved(a)]
<1>5. \A a \in live : place[a] \in 1..m_length /\ m_length \in Nat BY DEF Listed, Shape
<1>6. m_length \in Nat BY DEF Shape
<1>7. \A a \in live : a # n /\ to[a] = moved(a) OBVIOUS
<1>8. to[n] = k + 1 OBVIOUS
<1>9. to \in [live \cup {n} -> 1..(m_length + 1)]
  <2>1. \A a \in live : moved(a) \in 1..(m_length + 1) BY <1>5
  <2>2. k + 1 \in 1..(m_length + 1) BY <1>6
  <2> HIDE DEF moved
  <2> QED BY <2>1, <2>2
<1> HIDE DEF to
<1>10. \A a, b \in live : /\ to[a] > to[b] <=> place[a] > place[b]
                          /\ to[a] = to[b] <=> place[a] = place[b]
  BY <1>5, <1>6, <1>7
<1>11. \A a \in live : /\ score[a] < s => to[a] < to[n]
                       /\ ~(score[a] < s) => to[a] > to[n]
  BY <1>4, <1>5, <1>6, <1>7, <1>8
<1>12. Placed(to, place, n, s) BY <1>9, <1>10, <1>11 DEF Placed
<1> QED BY <1>12

(* The nodes of level i that come after p. *)
After(place, i, p) == {m \in live : height[m] > i /\ (p = Header \/ place[m] > place[p])}

LEMMA InsertLinks ==
  ASSUME Shape, NEW place, Listed(place), NEW n \in Nodes \ live, NEW s \in Nat,
         drawn \in 1..MaxLevel, Insert_node(n, s),
         NEW to, Placed(to, place, n, s),
         NEW i \in Levels, NEW p \in OnLevel(i)'
  PROVE  Linked(to, i, p)'
<1> DEFINE q == Temp(s)[i]
           later == After(to, i, p)'
<1> /\ to \in [live \cup {n} -> 1..(m_length + 1)]
    /\ \A a, b \in live : /\ to[a] > to[b] <=> place[a] > place[b]
                          /\ to[a] = to[b] <=> place[a] = place[b]
    /\ \A a \in live : /\ score[a] < s => to[a] < to[n]
                       /\ ~(score[a] < s) => to[a] > to[n]
  BY DEF Placed
<1>1. IsLast(place, i, s, q) BY TempIsLast
<1>2. q \in OnLevel(i) /\ (q # Header => q \in live /\ score[q] < s /\ height[q] > i)
  BY <1>1, AtTheEnd
<1>3. \A m \in live : height[m] > i => (score[m] < s <=> q # Header /\ place[m] <= place[q])
  BY <1>1, AtTheEnd
<1>4. /\ live' = live \cup {n} /\ height' = [height EXCEPT ![n] = drawn]
      /\ nxt' = [r \in Nodes \cup {Header} |-> [j \in Levels |->
                   IF j \notin LinkedLevels(drawn) THEN nxt[r][j]
                   ELSE IF r = n THEN nxt[Temp(s)[j]][j]
                   ELSE IF r = Temp(s)[j] THEN n ELSE nxt[r][j]]]
  BY DEF Insert_node
<1>5. n # Header /\ Header \notin live /\ n \notin live /\ n # q
  BY <1>2, NodeAssumption DEF Shape
<1>6. height'[n] = drawn /\ \A m \in live : height'[m] = height[m]
  BY <1>4, <1>5 DEF Shape
<1>7. \A m \in live : place[m] \in Nat /\ to[m] \in Nat /\ score[m] \in Nat
  BY DEF Shape, Listed
<1>8. to[n] \in Nat OBVIOUS
<1>9. drawn \in Nat /\ MaxLevel \in Nat /\ i \in Nat BY WidthAssumption DEF Levels
<1>10. drawn > i <=> i \in LinkedLevels(drawn) BY <1>9 DEF LinkedLevels
<1>11. p \in Nodes \cup {Header} /\ (p # Header => p \in live \cup {n})
  BY <1>4 DEF OnLevel, Shape
<1>12. \A m \in live : m \in later <=> height[m] > i /\ (p = Header \/ to[m] > to[p])
  BY <1>4, <1>6 DEF After
<1>13. n \in later <=> drawn > i /\ (p = Header \/ to[n] > to[p])
  BY <1>4, <1>6 DEF After
<1>14. later \subseteq live \cup {n} BY <1>4 DEF After
<1>15. /\ i \notin LinkedLevels(drawn) => nxt'[p][i] = nxt[p][i]
       /\ i \in LinkedLevels(drawn) /\ p = n => nxt'[p][i] = nxt[q][i]
       /\ i \in LinkedLevels(drawn) /\ p # n /\ p = q => nxt'[p][i] = n
       /\ i \in LinkedLevels(drawn) /\ p # n /\ p # q => nxt'[p][i] = nxt[p][i]
  BY <1>4, <1>11
<1>16. \A r \in OnLevel(i) :
         IF After(place, i, r) = {} THEN nxt[r][i] = NULL
         ELSE nxt[r][i] \in After(place, i, r) /\
              \A m \in After(place, i, r) : place[nxt[r][i]] <= place[m]
  BY DEF Listed, Linked, After
<1> HIDE DEF q, later
<1>17. SUFFICES IF later = {} THEN nxt'[p][i] = NULL
                ELSE nxt'[p][i] \in later /\ \A m \in later : to[nxt'[p][i]] <= to[m]
  BY DEF later, Linked, After
<1>18. ASSUME NEW r \in OnLevel(i), later = After(place, i, r), nxt'[p][i] = nxt[r][i]
       PROVE  IF later = {} THEN nxt'[p][i] = NULL
              ELSE nxt'[p][i] \in later /\ \A m \in later : to[nxt'[p][i]] <= to[m]
  <2>1. CASE later = {} BY <1>16, <1>18, <2>1
  <2>2. CASE later # {}
    <3>1. nxt'[p][i] \in later /\ \A m \in later : place[nxt'[p][i]] <= place[m]
      BY <1>16, <1>18, <2>2
    <3>2. later \subseteq live BY <1>18 DEF After
    <3>3. \A m \in later : to[nxt'[p][i]] <= to[m] BY <1>7, <3>1, <3>2
    <3> QED BY <2>2, <3>1, <3>3
  <2> QED BY <2>1, <2>2
<1>19. CASE n \notin later /\ p # n /\ nxt'[p][i] = nxt[p][i]
  <2>1. p \in OnLevel(i) BY <1>4, <1>6, <1>11, <1>19 DEF OnLevel
  <2>2. \A m \in live : m \in later <=> m \in After(place, i, p)
    <3>1. p # Header => p \in live BY <1>11, <1>19
    <3> QED BY <1>12, <3>1 DEF After
  <2>3. After(place, i, p) \subseteq live BY DEF After
  <2>4. later = After(place, i, p) BY <1>14, <1>19, <2>2, <2>3
  <2> QED BY <1>18, <1>19, <2>1, <2>4
<1>20. CASE i \in LinkedLevels(drawn) /\ p = n
  <2>1. n \notin later BY <1>5, <1>8, <1>13, <1>20
  <2>2. ASSUME NEW m \in live PROVE m \in later <=> m \in After(place, i, q)
    <3>1. m \in later <=> height[m] > i /\ ~(score[m] < s) BY <1>5, <1>7, <1>8, <1>12, <1>20
    <3>2. q # Header => place[q] \in Nat BY <1>2, <1>7
    <3>3. m \in After(place, i, q) <=> height[m] > i /\ ~(score[m] < s)
      BY <1>3, <1>7, <3>2 DEF After
    <3> QED BY <3>1, <3>3
  <2>3. After(place, i, q) \subseteq live BY DEF After
  <2>4. later = After(place, i, q) BY <1>14, <2>1, <2>2, <2>3
  <2> QED BY <1>2, <1>15, <1>18, <1>20, <2>4
<1>21. CASE i \in LinkedLevels(drawn) /\ p # n /\ p = q
  <2>1. n \in later BY <1>2, <1>5, <1>7, <1>8, <1>10, <1>13, <1>21
  <2>2. ASSUME NEW m \in later PROVE to[n] <= to[m]
    <3>1. CASE m = n BY <1>8, <3>1
    <3>2. CASE m \in live
      <4>1. height[m] > i /\ (q = Header \/ to[m] > to[q]) BY <1>12, <1>21, <3>2
      <4>2. q # Header => place[m] > place[q] BY <1>2, <3>2, <4>1
      <4>3. ~(score[m] < s) BY <1>2, <1>3, <1>7, <3>2, <4>1, <4>2
      <4> QED BY <1>7, <1>8, <3>2, <4>3
    <3> QED BY <1>14, <3>1, <3>2
  <2> QED BY <1>15, <1>21, <2>1, <2>2
<1>22. CASE i \in LinkedLevels(drawn) /\ p # n /\ p # q /\ n \in later
  <2>1. p \in {Header} \cup Lower(i, s)
    <3>1. CASE p # Header
      <4>1. p \in live /\ to[n] > to[p] BY <1>11, <1>13, <1>22, <3>1
      <4>2. height[p] > i BY <1>4, <1>6, <3>1, <4>1 DEF OnLevel
      <4>3. score[p] < s BY <1>7, <1>8, <4>1
      <4> QED BY <4>1, <4>2, <4>3 DEF Lower
    <3> QED BY <3>1
  <2>2. nxt[p][i] # NULL /\ nxt[p][i] \in Lower(i, s) BY <1>1, <1>22, <2>1, Following
  <2>3. nxt[p][i] \in live /\ height[nxt[p][i]] > i /\ score[nxt[p][i]] < s
    BY <2>2 DEF Lower
  <2>4. to[nxt[p][i]] < to[n] BY <2>3
  <2>5. p \in OnLevel(i) BY <2>1 DEF Lower, OnLevel
  <2>6. nxt[p][i] \in After(place, i, p) /\
        \A m \in After(place, i, p) : place[nxt[p][i]] <= place[m]
    BY <1>16, <2>2, <2>5, NodeAssumption DEF After, Linked, Listed
  <2>7. p # Header => p \in live BY <1>11, <1>22
  <2>8. nxt[p][i] \in later BY <1>12, <2>3, <2>6, <2>7 DEF After
  <2>9. ASSUME NEW m \in later PROVE to[nxt[p][i]] <= to[m]
    <3>1. CASE m = n BY <1>7, <1>8, <2>3, <2>4, <3>1
    <3>2. CASE m \in live
      <4>1. m \in After(place, i, p) BY <1>12, <2>7, <3>2 DEF After
      <4>2. place[nxt[p][i]] <= place[m] BY <2>6, <4>1
      <4> QED BY <1>7, <2>3, <3>2, <4>2
    <3> QED BY <1>14, <3>1, <3>2
  <2> QED BY <1>15, <1>22, <2>8, <2>9
<1>23. i \notin LinkedLevels(drawn) => n \notin later /\ p # n
  BY <1>4, <1>5, <1>6, <1>9, <1>10, <1>13 DEF OnLevel
<1> QED BY <1>15, <1>19, <1>20, <1>21, <1>22, <1>23

(* The list, with the counts that go with it. *)
ListInv ==
  /\ Shape
  /\ IsFiniteSet(live) /\ m_length = Cardinality(live)
  /\ m_level = 1 \/ \E n \in live : height[n] = m_level
  /\ \E place : Listed(place)

LEMMA InsertKeeps ==
  ASSUME ListInv, NEW n \in Nodes \ live, NEW s \in Nat, StoredScore(s) = s,
         drawn \in 1..MaxLevel, Insert_node(n, s)
  PROVE  ListInv'
<1>1. PICK place : Listed(place) BY DEF ListInv
<1>2. Shape BY DEF ListInv
<1>3. PICK to : Placed(to, place, n, s) BY <1>1, <1>2, InsertOrder
<1> /\ to \in [live \cup {n} -> 1..(m_length + 1)]
    /\ \A a, b \in live : /\ to[a] > to[b] <=> place[a] > place[b]
                          /\ to[a] = to[b] <=> place[a] = place[b]
    /\ \A a \in live : /\ score[a] < s => to[a] < to[n]
                       /\ ~(score[a] < s) => to[a] > to[n]
  BY <1>3 DEF Placed
<1>4. /\ live' = live \cup {n} /\ height' = [height EXCEPT ![n] = drawn]
      /\ nxt' = [r \in Nodes \cup {Header} |-> [j \in Levels |->
                   IF j \notin LinkedLevels(drawn) THEN nxt[r][j]
                   ELSE IF r = n THEN nxt[Temp(s)[j]][j]
                   ELSE IF r = Temp(s)[j] THEN n ELSE nxt[r][j]]]
      /\ score' = [score EXCEPT ![n] = s]
      /\ m_level' = (IF drawn > m_level THEN drawn ELSE m_level)
      /\ m_length' = m_length + 1
  BY DEF Insert_node
<1>5. n \in Nodes /\ n \notin live /\ n # Header /\ live \subseteq Nodes
  BY <1>2, NodeAssumption DEF Shape
<1>6. MaxLevel \in Nat /\ m_level \in 1..MaxLevel /\ Levels = 0..(MaxLevel - 1)
  BY <1>2, WidthAssumption DEF Shape, Levels
<1>7. /\ height'[n] = drawn /\ \A m \in live : height'[m] = height[m]
      /\ score'[n] = s /\ \A m \in live : score'[m] = score[m]
  BY <1>2, <1>4, <1>5 DEF Shape
<1>8. \A m \in live : place[m] \in Nat /\ to[m] \in Nat /\ score[m] \in Nat
  BY <1>1, <1>2, <1>3 DEF Shape, Listed
<1>9. Shape'
  <2>1. nxt' \in [Nodes \cup {Header} -> [Levels -> Nodes \cup {NULL}]]
    <3>1. ASSUME NEW j \in Levels PROVE nxt[Temp(s)[j]][j] \in Nodes \cup {NULL}
      <4>1. Temp(s)[j] \in Nodes \cup {Header} BY <1>1, <1>2, TempIsLast, AtTheEnd
      <4> QED BY <1>2, <4>1 DEF Shape
    <3>2. \A r \in Nodes \cup {Header}, j \in Levels : nxt[r][j] \in Nodes \cup {NULL}
      BY <1>2 DEF Shape
    <3> QED BY <1>4, <1>5, <3>1, <3>2
  <2>2. score' \in [Nodes -> Nat] /\ height' \in [Nodes -> 0..MaxLevel]
    BY <1>2, <1>4, <1>6 DEF Shape
  <2>3. live' \subseteq Nodes /\ m_length' \in Nat /\ m_level' \in 1..MaxLevel
    BY <1>2, <1>4, <1>5, <1>6 DEF Shape
  <2>4. \A m \in live' : height'[m] \in 1..m_level'
    <3>1. \A m \in live : height[m] \in 1..m_level BY <1>2 DEF Shape
    <3> QED BY <1>4, <1>6, <1>7, <3>1
  <2>5. ASSUME NEW r \in Nodes, NEW j \in Levels, r \notin OnLevel(j)'
        PROVE  nxt'[r][j] = NULL
    <3>1. r # Header /\ (r \in live' => ~(height'[r] > j)) BY <2>5 DEF OnLevel
    <3>2. CASE r = n
      <4>1. j \notin LinkedLevels(drawn) BY <1>4, <1>6, <1>7, <3>1, <3>2 DEF LinkedLevels
      <4>2. nxt'[r][j] = nxt[r][j] BY <1>4, <4>1
      <4>3. r \notin OnLevel(j) BY <1>5, <3>2 DEF OnLevel
      <4> QED BY <1>2, <4>2, <4>3 DEF Shape
    <3>3. CASE r # n
      <4>1. r \notin OnLevel(j) BY <1>4, <1>7, <3>1, <3>3 DEF OnLevel
      <4>2. r # Temp(s)[j] BY <1>1, <1>2, <4>1, TempIsLast, AtTheEnd
      <4>3. nxt'[r][j] = nxt[r][j] BY <1>4, <3>3, <4>2
      <4> QED BY <1>2, <4>1, <4>3 DEF Shape
    <3> QED BY <3>2, <3>3
  <2> QED BY <2>1, <2>2, <2>3, <2>4, <2>5 DEF Shape
<1>10. IsFiniteSet(live') /\ m_length' = Cardinality(live')
  BY <1>4, <1>5, FS_AddElement DEF ListInv
<1>11. m_level' = 1 \/ \E m \in live' : height'[m] = m_level'
  <2>1. CASE drawn > m_level BY <1>4, <1>7, <2>1
  <2>2. CASE ~(drawn > m_level) BY <1>4, <1>7, <2>2 DEF ListInv
  <2> QED BY <2>1, <2>2
<1>12. Listed(to)'
  <2>1. (to \in [live -> 1..m_length])' BY <1>3, <1>4
  <2>2. Sorted(to)'
    <3>1. ASSUME NEW a \in live', NEW b \in live'
          PROVE  /\ to[a] = to[b] => a = b
                 /\ to[a] < to[b] => score'[a] <= score'[b]
      <4>1. CASE a \in live /\ b \in live
        <5>1. /\ place[a] = place[b] => a = b
              /\ place[a] < place[b] => score[a] <= score[b]
          BY <1>1, <4>1 DEF Listed, Sorted
        <5>2. /\ to[a] = to[b] => place[a] = place[b]
              /\ to[b] > to[a] => place[b] > place[a]
          BY <1>3, <4>1
        <5> QED BY <1>7, <1>8, <4>1, <5>1, <5>2
      <4>2. CASE a = n /\ b \in live BY <1>3, <1>7, <1>8, <4>2
      <4>3. CASE a \in live /\ b = n BY <1>3, <1>7, <1>8, <4>3
      <4>4. CASE a = n /\ b = n BY <1>7, <4>4
      <4> QED BY <1>4, <4>1, <4>2, <4>3, <4>4
    <3> QED BY <3>1 DEF Sorted
  <2>3. ASSUME NEW i \in Levels, NEW p \in OnLevel(i)' PROVE Linked(to, i, p)'
    BY <1>1, <1>2, <1>3, <2>3, InsertLinks
  <2> QED BY <2>1, <2>2, <2>3 DEF Listed
<1> QED BY <1>9, <1>10, <1>11, <1>12 DEF ListInv

(* The node that follows the end of the search is the first of those whose  *)
(* score is not lower.                                                      *)
LEMMA FirstNotLower ==
  ASSUME Shape, NEW place, Listed(place), NEW s \in Nat, NEW d, d = nxt[Temp(s)[0]][0]
  PROVE  /\ d = NULL => \A m \in live : score[m] < s
         /\ d # NULL => /\ d \in live /\ ~(score[d] < s)
                        /\ \A m \in live : ~(score[m] < s) => place[d] <= place[m]
<1> DEFINE q == Temp(s)[0]
<1>1. 0 \in Levels BY WidthAssumption DEF Levels
<1>2. IsLast(place, 0, s, q) BY <1>1, TempIsLast
<1> HIDE DEF q
<1>3. d = nxt[q][0] BY DEF q
<1>4. \A m \in live : height[m] > 0 /\ place[m] \in Nat BY DEF Shape, Listed
<1>5. q \in OnLevel(0) /\ (q # Header => q \in live) BY <1>1, <1>2, AtTheEnd
<1>6. \A m \in live : score[m] < s <=> q # Header /\ place[m] <= place[q]
  BY <1>1, <1>2, <1>4, AtTheEnd
<1>7. \A m \in live : m \in After(place, 0, q) <=> ~(score[m] < s)
  BY <1>4, <1>5, <1>6 DEF After
<1>8. IF After(place, 0, q) = {} THEN nxt[q][0] = NULL
      ELSE nxt[q][0] \in After(place, 0, q) /\
           \A m \in After(place, 0, q) : place[nxt[q][0]] <= place[m]
  BY <1>1, <1>5 DEF Listed, Linked, After
<1>9. After(place, 0, q) \subseteq live /\ NULL \notin live
  BY NodeAssumption DEF After, Shape
<1> QED BY <1>3, <1>7, <1>8, <1>9

(* On each level, what precedes the first node of its score is the end of   *)
(* the search.                                                              *)
LEMMA Precedes ==
  ASSUME Shape, NEW place, Listed(place), NEW s \in Nat, NEW d \in live,
         d = nxt[Temp(s)[0]][0], NEW i \in Levels, NEW p \in OnLevel(i), nxt[p][i] = d
  PROVE  p = Temp(s)[i] /\ i \in UnlinkedLevels
<1>1. NULL \notin live /\ d # NULL BY NodeAssumption DEF Shape
<1>2. ~(score[d] < s) /\ \A m \in live : ~(score[m] < s) => place[d] <= place[m]
  BY <1>1, FirstNotLower
<1>3. d \in After(place, i, p)
  BY <1>1 DEF Listed, Linked, After
<1>4. height[d] > i /\ (p = Header \/ place[d] > place[p]) BY <1>3 DEF After
<1>5. \A m \in live : height[m] \in 1..m_level /\ place[m] \in Nat BY DEF Shape, Listed
<1>6. i \in UnlinkedLevels BY <1>4, <1>5 DEF UnlinkedLevels, Levels, Shape
<1>7. IsLast(place, i, s, Temp(s)[i]) BY TempIsLast
<1>8. ASSUME p # Temp(s)[i] PROVE FALSE
  <2>1. CASE p \in {Header} \cup Lower(i, s)
    <3>1. nxt[p][i] \in Lower(i, s) BY <1>7, <1>8, <2>1, Following
    <3> QED BY <1>2, <3>1 DEF Lower
  <2>2. CASE p \notin {Header} \cup Lower(i, s)
    <3>1. p \in live /\ p # Header /\ ~(score[p] < s) BY <2>2 DEF OnLevel, Lower
    <3>2. place[d] <= place[p] /\ place[d] > place[p] BY <1>2, <1>4, <3>1
    <3> QED BY <1>5, <3>1, <3>2
  <2> QED BY <2>1, <2>2
<1> QED BY <1>6, <1>8

(* The highest level on which something follows the header. *)
LEMMA LevelInUseIs ==
  ASSUME m_level \in Nat \ {0}, NEW first
  PROVE  /\ LevelInUse(first) \in 1..m_level
         /\ LevelInUse(first) = 1 \/ first[LevelInUse(first) - 1] # NULL
         /\ \A i \in LevelInUse(first)..(m_level - 1) : first[i] = NULL
<1> DEFINE used == {i \in 1..(m_level - 1) : first[i] # NULL}
           isTop(k) == /\ k = 1 \/ first[k - 1] # NULL
                       /\ \A i \in k..(m_level - 1) : first[i] = NULL
<1>1. \E k \in 1..m_level : isTop(k)
  <2>1. CASE used = {}
    <3>1. isTop(1) BY <2>1
    <3> HIDE DEF isTop
    <3> QED BY <3>1
  <2>2. CASE used # {}
    <3> DEFINE at == [i \in 1..(m_level - 1) |-> i]
    <3>1. at \in [1..(m_level - 1) -> 1..m_level] OBVIOUS
    <3>2. \E z \in used : \A m \in used : at[m] <= at[z]
      <4>1. used \subseteq 1..(m_level - 1) OBVIOUS
      <4> HIDE DEF at, used
      <4> QED BY <2>2, <3>1, <4>1, LastOne
    <3>3. PICK z \in used : \A m \in used : m <= z BY <3>2
    <3>4. z \in 1..(m_level - 1) /\ first[z] # NULL OBVIOUS
    <3>5. z + 1 \in 1..m_level /\ z + 1 - 1 = z BY <3>4
    <3>6. \A i \in (z + 1)..(m_level - 1) : first[i] = NULL
      <4> SUFFICES ASSUME NEW i \in (z + 1)..(m_level - 1), first[i] # NULL PROVE FALSE
        OBVIOUS
      <4>1. i \in used BY <3>4
      <4>2. i <= z BY <3>3, <4>1
      <4> QED BY <3>4, <4>2
    <3>7. isTop(z + 1) BY <3>4, <3>5, <3>6
    <3> HIDE DEF isTop
    <3> QED BY <3>5, <3>7
  <2> QED BY <2>1, <2>2
<1>2. LevelInUse(first) = CHOOSE k \in 1..m_level : isTop(k) BY DEF LevelInUse
<1> HIDE DEF isTop
<1>3. LevelInUse(first) \in 1..m_level /\ isTop(LevelInUse(first)) BY <1>1, <1>2
<1> QED BY <1>3 DEF isTop

(* The links when the node d has been taken out.                            *)
Unlinked(d) ==
  /\ \A i \in Levels : \A p \in OnLevel(i) \ {d} :
       nxt'[p][i] = IF nxt[p][i] = d THEN nxt[d][i] ELSE nxt[p][i]
  /\ \A i \in Levels : nxt'[d][i] = NULL
  /\ \A i \in Levels : \A p \in Nodes : p \notin OnLevel(i) => nxt'[p][i] = NULL

LEMMA DeleteUnlinks ==
  ASSUME Shape, NEW place, Listed(place), NEW s \in Nat, NEW d \in live,
         d = nxt[Temp(s)[0]][0], score[d] = s, Del_node(s)
  PROVE  /\ Unlinked(d) /\ nxt' \in [Nodes \cup {Header} -> [Levels -> Nodes \cup {NULL}]]
         /\ live' = live \ {d} /\ m_length' = m_length - 1
         /\ score' = [score EXCEPT ![d] = 0] /\ height' = [height EXCEPT ![d] = 0]
         /\ \E first : /\ m_level' = LevelInUse(first)
                       /\ \A i \in Levels : first[i] = nxt'[Header][i]
<1> DEFINE unlinked == [p \in Nodes \cup {Header} |-> [i \in Levels |->
                          IF i \in UnlinkedLevels /\ p = Temp(s)[i] /\ nxt[p][i] = d
                          THEN nxt[d][i] ELSE nxt[p][i]]]
<1>1. d # NULL /\ d # Header /\ d \in Nodes BY NodeAssumption DEF Shape
<1>2. /\ nxt' = [unlinked EXCEPT ![d] = [i \in Levels |-> NULL]]
      /\ m_level' = LevelInUse(unlinked[Header])
      /\ m_length' = m_length - 1 /\ live' = live \ {d}
      /\ score' = [score EXCEPT ![d] = 0] /\ height' = [height EXCEPT ![d] = 0]
  <2> DEFINE e == nxt[Temp(s)[0]][0]
             without == [p \in Nodes \cup {Header} |-> [i \in Levels |->
                           IF i \in UnlinkedLevels /\ p = Temp(s)[i] /\ nxt[p][i] = e
                           THEN nxt[e][i] ELSE nxt[p][i]]]
  <2>1. e # NULL /\ score[e] = s =>
          /\ nxt' = [without EXCEPT ![e] = [i \in Levels |-> NULL]]
          /\ m_level' = LevelInUse(without[Header])
          /\ m_length' = m_length - 1 /\ live' = live \ {e}
          /\ score' = [score EXCEPT ![e] = 0] /\ height' = [height EXCEPT ![e] = 0]
    BY Zenon DEF Del_node, ShrunkLength
  <2>2. e = d OBVIOUS
  <2>3. without = unlinked BY <2>2
  <2> HIDE DEF e, without, unlinked
  <2> QED BY <1>1, <2>1, <2>2, <2>3
<1>3. \A i \in Levels : nxt'[d][i] = NULL BY <1>1, <1>2
<1>4. \A p \in (Nodes \cup {Header}) \ {d}, i \in Levels : nxt'[p][i] = unlinked[p][i]
  BY <1>2
<1>5. \A p \in Nodes \cup {Header}, i \in Levels :
        unlinked[p][i] = IF i \in UnlinkedLevels /\ p = Temp(s)[i] /\ nxt[p][i] = d
                         THEN nxt[d][i] ELSE nxt[p][i]
  OBVIOUS
<1>6. \A i \in Levels : Temp(s)[i] \in OnLevel(i) BY TempIsLast, AtTheEnd
<1>7. \A p \in Nodes \cup {Header}, i \in Levels : nxt[p][i] \in Nodes \cup {NULL}
  BY DEF Shape
<1>8. unlinked \in [Nodes \cup {Header} -> [Levels -> Nodes \cup {NULL}]] BY <1>1, <1>7
<1> HIDE DEF unlinked
<1>9. nxt' \in [Nodes \cup {Header} -> [Levels -> Nodes \cup {NULL}]] BY <1>1, <1>2, <1>8
<1>10. ASSUME NEW i \in Levels, NEW p \in OnLevel(i) \ {d}
       PROVE  nxt'[p][i] = IF nxt[p][i] = d THEN nxt[d][i] ELSE nxt[p][i]
  <2>1. p \in (Nodes \cup {Header}) \ {d} BY DEF OnLevel, Shape
  <2>2. nxt[p][i] = d => p = Temp(s)[i] /\ i \in UnlinkedLevels BY Precedes
  <2> QED BY <1>4, <1>5, <2>1, <2>2
<1>11. ASSUME NEW i \in Levels, NEW p \in Nodes, p \notin OnLevel(i) PROVE nxt'[p][i] = NULL
  <2>1. p # Temp(s)[i] BY <1>6, <1>11
  <2>2. nxt[p][i] = NULL BY <1>11 DEF Shape
  <2> QED BY <1>3, <1>4, <1>5, <2>1, <2>2
<1>12. \A i \in Levels : unlinked[Header][i] = nxt'[Header][i] BY <1>1, <1>4
<1> QED BY <1>2, <1>3, <1>9, <1>10, <1>11, <1>12 DEF Unlinked

(* An order without the node d.                                             *)
Closed(to, place, d) ==
  /\ to \in [live \ {d} -> 1..(m_length - 1)]
  /\ \A a, b \in live \ {d} : /\ to[a] > to[b] <=> place[a] > place[b]
                              /\ to[a] = to[b] <=> place[a] = place[b]

LEMMA DeleteOrder ==
  ASSUME Shape, NEW place, Listed(place), NEW d \in live
  PROVE  \E to : Closed(to, place, d)
<1> DEFINE moved(a) == IF place[a] < place[d] THEN place[a] ELSE place[a] - 1
           to == [a \in live \ {d} |-> moved(a)]
<1>1. \A a \in live : place[a] \in 1..m_length BY DEF Listed
<1>2. m_length \in Nat /\ place[d] \in 1..m_length BY <1>1 DEF Shape
<1>3. \A a \in live \ {d} : place[a] # place[d] BY DEF Listed, Sorted
<1>4. \A a \in live \ {d} : to[a] = moved(a) OBVIOUS
<1>5. to \in [live \ {d} -> 1..(m_length - 1)]
  <2>1. \A a \in live \ {d} : moved(a) \in 1..(m_length - 1) BY <1>1, <1>2, <1>3
  <2> HIDE DEF moved
  <2> QED BY <2>1
<1> HIDE DEF to
<1>6. \A a, b \in live \ {d} : /\ to[a] > to[b] <=> place[a] > place[b]
                               /\ to[a] = to[b] <=> place[a] = place[b]
  BY <1>1, <1>2, <1>3, <1>4
<1>7. Closed(to, place, d) BY <1>5, <1>6 DEF Closed
<1> QED BY <1>7

LEMMA DeleteLinks ==
  ASSUME Shape, NEW place, Listed(place), NEW d \in live, Unlinked(d), live' = live \ {d},
         height' = [height EXCEPT ![d] = 0], NEW to, Closed(to, place, d),
         NEW i \in Levels, NEW p \in OnLevel(i)'
  PROVE  Linked(to, i, p)'
<1> DEFINE later == After(to, i, p)'
<1>1. d # Header /\ d # NULL /\ Header \notin live /\ live \subseteq Nodes
  BY NodeAssumption DEF Shape
<1>2. \A m \in live \ {d} : height'[m] = height[m] BY DEF Shape
<1>3. p \in OnLevel(i) \ {d} /\ (p # Header => p \in live \ {d}) BY <1>1, <1>2 DEF OnLevel
<1>4. \A r \in OnLevel(i) :
         IF After(place, i, r) = {} THEN nxt[r][i] = NULL
         ELSE nxt[r][i] \in After(place, i, r) /\
              \A m \in After(place, i, r) : place[nxt[r][i]] <= place[m]
  BY DEF Listed, Linked, After
<1>5. nxt'[p][i] = IF nxt[p][i] = d THEN nxt[d][i] ELSE nxt[p][i] BY <1>3 DEF Unlinked
<1>6. /\ to \in [live \ {d} -> 1..(m_length - 1)]
      /\ \A a, b \in live \ {d} : /\ to[a] > to[b] <=> place[a] > place[b]
                                  /\ to[a] = to[b] <=> place[a] = place[b]
  BY DEF Closed
<1>7. \A m \in live : place[m] \in Nat /\ (m # d => place[m] # place[d] /\ to[m] \in Nat)
  BY <1>6 DEF Listed, Sorted
<1>8. later = After(place, i, p) \ {d}
  <2>1. ASSUME NEW m \in live \ {d} PROVE m \in later <=> m \in After(place, i, p)
    BY <1>2, <1>3, <1>6 DEF After
  <2>2. later \subseteq live \ {d} /\ After(place, i, p) \subseteq live BY DEF After
  <2> QED BY <2>1, <2>2
<1>9. later \subseteq live \ {d} BY DEF After
<1> HIDE DEF later
<1>10. SUFFICES IF later = {} THEN nxt'[p][i] = NULL
                ELSE nxt'[p][i] \in later /\ \A m \in later : to[nxt'[p][i]] <= to[m]
  BY DEF later, Linked, After
<1>11. ASSUME NEW r \in OnLevel(i), later = After(place, i, r) \ {d}, nxt[r][i] # d,
              nxt'[p][i] = nxt[r][i]
       PROVE  IF later = {} THEN nxt'[p][i] = NULL
              ELSE nxt'[p][i] \in later /\ \A m \in later : to[nxt'[p][i]] <= to[m]
  <2>1. CASE After(place, i, r) = {} BY <1>4, <1>11, <2>1
  <2>2. CASE After(place, i, r) # {}
    <3>1. nxt'[p][i] \in later /\ \A m \in later : place[nxt'[p][i]] <= place[m]
      BY <1>4, <1>11, <2>2
    <3>2. \A m \in later : to[nxt'[p][i]] <= to[m] BY <1>6, <1>7, <1>9, <3>1
    <3> QED BY <3>1, <3>2
  <2> QED BY <2>1, <2>2
<1>12. CASE nxt[p][i] # d BY <1>3, <1>5, <1>8, <1>11, <1>12
<1>13. CASE nxt[p][i] = d
  <2>1. d \in After(place, i, p) /\ \A m \in After(place, i, p) : place[d] <= place[m]
    BY <1>1, <1>3, <1>4, <1>13
  <2>2. d \in OnLevel(i) BY <2>1 DEF After, OnLevel
  <2>3. After(place, i, d) = After(place, i, p) \ {d}
    <3>1. ASSUME NEW m \in live
          PROVE  m \in After(place, i, d) <=> m \in After(place, i, p) /\ m # d
      <4>1. p = Header \/ place[d] > place[p] BY <2>1 DEF After
      <4>2. p # Header => place[p] \in Nat BY <1>3, <1>7
      <4>3. m \in After(place, i, p) /\ m # d => place[m] > place[d] BY <1>7, <2>1
      <4>4. m \in After(place, i, d) <=> height[m] > i /\ place[m] > place[d]
        BY <1>1 DEF After
      <4>5. m \in After(place, i, p) <=> height[m] > i /\ (p = Header \/ place[m] > place[p])
        BY DEF After
      <4>6. place[m] > place[d] => m # d /\ (p = Header \/ place[m] > place[p])
        BY <1>7, <4>1, <4>2
      <4> QED BY <4>3, <4>4, <4>5, <4>6
    <3>2. After(place, i, d) \subseteq live /\ After(place, i, p) \subseteq live BY DEF After
    <3> QED BY <3>1, <3>2
  <2>4. nxt[d][i] # d
    <3> SUFFICES ASSUME nxt[d][i] = d PROVE FALSE OBVIOUS
    <3>1. d \in After(place, i, d) BY <1>1, <1>4, <2>2
    <3> QED BY <2>3, <3>1
  <2>5. later = After(place, i, d) \ {d} BY <1>8, <2>3
  <2> QED BY <1>5, <1>11, <1>13, <2>2, <2>4, <2>5
<1> QED BY <1>12, <1>13

(* The list without the node d.                                             *)
TakenOut(d) ==
  /\ live' = live \ {d} /\ score' = [score EXCEPT ![d] = 0]
  /\ \A m \in live' : score'[m] = score[m] /\ height'[m] = height[m]
  /\ nxt'[Header][0] = IF nxt[Header][0] = d THEN nxt[d][0] ELSE nxt[Header][0]

LEMMA DeleteKeeps ==
  ASSUME ListInv, NEW s \in Nat, NEW d \in live, d = nxt[Temp(s)[0]][0], score[d] = s,
         Del_node(s)
  PROVE  ListInv' /\ TakenOut(d)
<1>1. PICK place : Listed(place) BY DEF ListInv
<1>2. Shape BY DEF ListInv
<1>3. /\ Unlinked(d) /\ nxt' \in [Nodes \cup {Header} -> [Levels -> Nodes \cup {NULL}]]
      /\ live' = live \ {d} /\ m_length' = m_length - 1
      /\ score' = [score EXCEPT ![d] = 0] /\ height' = [height EXCEPT ![d] = 0]
      /\ \E first : /\ m_level' = LevelInUse(first)
                    /\ \A i \in Levels : first[i] = nxt'[Header][i]
  BY <1>1, <1>2, DeleteUnlinks
<1>4. PICK to : Closed(to, place, d) BY <1>1, <1>2, DeleteOrder
<1>5. d \in Nodes /\ d # Header /\ d # NULL /\ live \subseteq Nodes
  BY <1>2, NodeAssumption DEF Shape
<1>6. MaxLevel \in Nat /\ m_level \in 1..MaxLevel /\ Levels = 0..(MaxLevel - 1) /\ 0 \in Levels
  BY <1>2, WidthAssumption DEF Shape, Levels
<1>7. \A m \in live' : score'[m] = score[m] /\ height'[m] = height[m]
  BY <1>2, <1>3 DEF Shape
<1>8. \A i \in Levels : \A p \in OnLevel(i)' : Linked(to, i, p)'
  BY <1>1, <1>2, <1>3, <1>4, DeleteLinks
<1>9. IsFiniteSet(live') /\ m_length' = Cardinality(live') /\ m_length' \in Nat
  <2>1. IsFiniteSet(live) /\ m_length = Cardinality(live) BY DEF ListInv
  <2>2. IsFiniteSet(live') /\ Cardinality(live') = Cardinality(live) - 1
    BY <1>3, <2>1, FS_RemoveElement
  <2> QED BY <1>3, <2>1, <2>2, FS_CardinalityType
<1>10. PICK first : /\ m_level' = LevelInUse(first)
                    /\ \A i \in Levels : first[i] = nxt'[Header][i]
  BY <1>3
<1>11. /\ m_level' \in 1..m_level
       /\ m_level' = 1 \/ first[m_level' - 1] # NULL
       /\ \A i \in m_level'..(m_level - 1) : first[i] = NULL
  BY <1>6, <1>10, LevelInUseIs
<1>12. ASSUME NEW i \in Levels PROVE nxt'[Header][i] = NULL <=> \A m \in live' : ~(height'[m] > i)
  <2>1. Linked(to, i, Header)' BY <1>8 DEF OnLevel
  <2>2. NULL \notin live' BY <1>3, <1>2, NodeAssumption DEF Shape
  <2> QED BY <2>1, <2>2 DEF Linked
<1>13. \A m \in live' : height'[m] \in 1..m_level'
  <2> SUFFICES ASSUME NEW m \in live', height'[m] > m_level' PROVE FALSE
    <3>1. \A m \in live' : height'[m] \in 1..m_level BY <1>2, <1>3, <1>7 DEF Shape
    <3> QED BY <1>6, <1>11, <3>1
  <2>1. height'[m] \in 1..m_level BY <1>2, <1>3, <1>7 DEF Shape
  <2>2. m_level' \in Levels /\ m_level' \in m_level'..(m_level - 1) BY <1>6, <1>11, <2>1
  <2>3. nxt'[Header][m_level'] = NULL BY <1>10, <1>11, <2>2
  <2> QED BY <1>12, <2>2, <2>3
<1>14. m_level' = 1 \/ \E m \in live' : height'[m] = m_level'
  <2> SUFFICES ASSUME m_level' # 1 PROVE \E m \in live' : height'[m] = m_level' OBVIOUS
  <2> m_level' \in 1..m_level BY <1>11
  <2>1. m_level' - 1 \in Levels
    <3>1. MaxLevel \in Nat BY <1>6
    <3>2. \A k \in 1..MaxLevel : k # 1 => k - 1 \in 0..(MaxLevel - 1) BY <3>1
    <3>3. m_level' \in 1..MaxLevel BY <1>6
    <3> QED BY <3>2, <3>3 DEF Levels
  <2>2. nxt'[Header][m_level' - 1] # NULL BY <1>10, <1>11, <2>1
  <2>3. PICK m \in live' : height'[m] > m_level' - 1 BY <1>12, <2>1, <2>2
  <2>4. height'[m] \in 1..m_level' BY <1>13
  <2> QED BY <1>6, <1>11, <2>3, <2>4
<1>15. Shape'
  <2>1. score' \in [Nodes -> Nat] /\ height' \in [Nodes -> 0..MaxLevel] /\ live' \subseteq Nodes
    BY <1>2, <1>3, <1>5, <1>6 DEF Shape
  <2>2. m_level' \in 1..MaxLevel BY <1>6, <1>11
  <2>3. ASSUME NEW p \in Nodes, NEW i \in Levels, p \notin OnLevel(i)' PROVE nxt'[p][i] = NULL
    <3>1. CASE p = d BY <1>3, <3>1 DEF Unlinked
    <3>2. CASE p # d
      <4>1. p \notin OnLevel(i) BY <1>3, <1>7, <2>3, <3>2 DEF OnLevel
      <4> QED BY <1>3, <4>1 DEF Unlinked
    <3> QED BY <3>1, <3>2
  <2> QED BY <1>3, <1>9, <1>13, <2>1, <2>2, <2>3 DEF Shape
<1>16. Listed(to)'
  <2>1. (to \in [live -> 1..m_length])' BY <1>3, <1>4 DEF Closed
  <2>2. Sorted(to)'
    <3>1. ASSUME NEW a \in live', NEW b \in live'
          PROVE  /\ to[a] = to[b] => a = b
                 /\ to[a] < to[b] => score'[a] <= score'[b]
      <4>1. a \in live \ {d} /\ b \in live \ {d} BY <1>3
      <4>2. /\ place[a] = place[b] => a = b
            /\ place[a] < place[b] => score[a] <= score[b]
        BY <1>1, <4>1 DEF Listed, Sorted
      <4>3. /\ to[a] = to[b] => place[a] = place[b]
            /\ to[b] > to[a] => place[b] > place[a]
        BY <1>4, <4>1 DEF Closed
      <4>4. place[a] \in Nat /\ place[b] \in Nat BY <1>1, <4>1 DEF Listed
      <4>5. to[a] \in Nat /\ to[b] \in Nat BY <2>1
      <4> QED BY <1>7, <4>2, <4>3, <4>4, <4>5
    <3> QED BY <3>1 DEF Sorted
  <2> QED BY <1>8, <2>1, <2>2 DEF Listed
<1>17. nxt'[Header][0] = IF nxt[Header][0] = d THEN nxt[d][0] ELSE nxt[Header][0]
  BY <1>3, <1>5, <1>6 DEF Unlinked, OnLevel
<1>18. ListInv' BY <1>9, <1>14, <1>15, <1>16 DEF ListInv
<1> QED BY <1>3, <1>7, <1>17, <1>18 DEF TakenOut

(* Del_node, called with the score of a node that no other of the same      *)
(* score precedes, takes out that node.                                     *)
LEMMA DeletesThatNode ==
  ASSUME ListInv, NEW place, Listed(place), NEW n \in live,
         \A m \in live \ {n} : score[m] = score[n] => place[n] < place[m]
  PROVE  n = nxt[Temp(score[n])[0]][0] /\ score[n] \in Nat
<1> DEFINE d == nxt[Temp(score[n])[0]][0]
<1>1. Shape /\ score[n] \in Nat /\ n \in live BY DEF ListInv, Shape
<1>2. d # NULL => /\ d \in live /\ ~(score[d] < score[n])
                  /\ \A m \in live : ~(score[m] < score[n]) => place[d] <= place[m]
  BY <1>1, FirstNotLower
<1>3. d = NULL => \A m \in live : score[m] < score[n] BY <1>1, FirstNotLower
<1> HIDE DEF d
<1>4. d # NULL BY <1>1, <1>3
<1>5. d \in live /\ ~(score[d] < score[n]) /\ place[d] <= place[n] BY <1>1, <1>2, <1>4
<1>6. score[d] \in Nat /\ place[d] \in Nat /\ place[n] \in Nat BY <1>1, <1>5 DEF Shape, Listed
<1>7. ASSUME d # n PROVE FALSE
  <2>1. place[d] # place[n] BY <1>1, <1>5, <1>7 DEF Listed, Sorted
  <2>2. place[d] < place[n] BY <1>5, <1>6, <2>1
  <2>3. score[d] <= score[n] BY <1>1, <1>5, <2>2 DEF Listed, Sorted
  <2>4. score[d] = score[n] BY <1>1, <1>5, <1>6, <2>3
  <2>5. place[n] < place[d] BY <1>5, <1>7, <2>4
  <2> QED BY <1>6, <2>2, <2>5
<1> QED BY <1>1, <1>7 DEF d

(* The head of the list is the node that all others follow.                 *)
LEMMA HeadIsFirst ==
  ASSUME ListInv, NEW place, Listed(place)
  PROVE  /\ GetMinNode = NULL <=> live = {}
         /\ GetMinNode # NULL => /\ GetMinNode \in live
                                 /\ \A m \in live : /\ place[GetMinNode] <= place[m]
                                                    /\ score[GetMinNode] <= score[m]
<1>1. Shape BY DEF ListInv
<1>2. 0 \in Levels /\ Header \in OnLevel(0) BY WidthAssumption DEF Levels, OnLevel
<1>3. \A m \in live : height[m] > 0 /\ place[m] \in Nat /\ score[m] \in Nat
  BY <1>1 DEF Shape, Listed
<1>4. After(place, 0, Header) = live BY <1>3 DEF After
<1>5. NULL \notin live BY <1>1, NodeAssumption DEF Shape
<1>6. IF live = {} THEN GetMinNode = NULL
      ELSE GetMinNode \in live /\ \A m \in live : place[GetMinNode] <= place[m]
  BY <1>2, <1>4 DEF Listed, Linked, After, GetMinNode
<1> HIDE DEF GetMinNode
<1>7. ASSUME NEW m \in live, GetMinNode \in live PROVE score[GetMinNode] <= score[m]
  <2>1. place[GetMinNode] <= place[m] BY <1>6
  <2>2. CASE GetMinNode = m BY <1>3, <2>2
  <2>3. CASE GetMinNode # m
    <3>1. place[GetMinNode] # place[m] BY <1>7, <2>3 DEF Listed, Sorted
    <3>2. place[GetMinNode] < place[m] BY <1>3, <1>7, <2>1, <3>1
    <3> QED BY <1>7, <3>2 DEF Listed, Sorted
  <2> QED BY <2>2, <2>3
<1> QED BY <1>5, <1>6, <1>7

-----------------------------------------------------------------------------
(* Time *)

LEMMA Multiples ==
  ASSUME NEW a \in Nat, NEW b \in Nat, NEW s \in Nat, a < b
  PROVE  a * s \in Nat /\ a * s + s <= b * s
  OBVIOUS

(* A quotient and a remainder are the ones.                                 *)
LEMMA Remainder ==
  ASSUME NEW w \in Nat \ {0}, NEW q \in Nat, NEW r \in 0..(w - 1)
  PROVE  q * w + r \in Nat /\ (q * w + r) % w = r /\ (q * w + r) \div w = q
<1> DEFINE p == q * w
           a == p + r
           k == a \div w
           m == a % w
           l == k * w
<1>1. p \in Nat OBVIOUS
<1> HIDE DEF p
<1>2. a \in Nat BY <1>1
<1> HIDE DEF a
<1>3. k \in Nat /\ m \in 0..(w - 1) /\ a = w * k + m BY <1>2
<1> HIDE DEF k, m
<1>4. l \in Nat /\ a = l + m BY <1>3
<1>5. q < k => p \in Nat /\ p + w <= l BY <1>3, Multiples DEF p
<1>6. k < q => l \in Nat /\ l + w <= p BY <1>3, Multiples DEF p
<1> HIDE DEF l
<1>7. a = p + r BY DEF a
<1>8. ~(q < k) BY <1>1, <1>3, <1>4, <1>5, <1>7
<1>9. ~(k < q) BY <1>1, <1>3, <1>4, <1>6, <1>7
<1>10. k = q BY <1>3, <1>8, <1>9
<1>11. l = p BY <1>10 DEF l, p
<1>12. m = r BY <1>1, <1>3, <1>4, <1>7, <1>11
<1> QED BY <1>2, <1>10, <1>12 DEF a, p, k, m

LEMMA ClockGoesOn ==
  ASSUME NEW t \in Nat, NEW u \in Nat, t < u
  PROVE  ClockAt(t) \in Nat /\ ClockAt(u) \in Nat /\ ClockAt(t) < ClockAt(u)
<1> DEFINE s == Thousand
           k == t \div s
           l == u \div s
<1>1. s \in Nat \ {0} BY WidthAssumption
<1> HIDE DEF s
<1>2. k \in Nat /\ l \in Nat /\ t = s * k + (t % s) /\ u = s * l + (u % s)
      /\ t % s \in 0..(s - 1) /\ u % s \in 0..(s - 1)
  BY <1>1
<1> HIDE DEF k, l
<1>3. k * s \in Nat /\ l * s \in Nat /\ s * k = k * s /\ s * l = l * s BY <1>1, <1>2
<1>4. l < k => l * s + s <= k * s BY <1>1, <1>2, Multiples
<1>5. k <= l
  <2> DEFINE ks == k * s
             ls == l * s
  <2>1. t = ks + (t % s) /\ u = ls + (u % s) /\ ks \in Nat /\ ls \in Nat BY <1>2, <1>3
  <2>2. l < k => ls + s <= ks BY <1>4
  <2> HIDE DEF ks, ls
  <2> QED BY <1>1, <1>2, <2>1, <2>2
<1>6. t * s \in Nat /\ u * s \in Nat /\ t * s + s <= u * s BY <1>1, Multiples
<1> DEFINE ts == t * s
           us == u * s
<1>7. ts \in Nat /\ us \in Nat /\ ts + s <= us BY <1>6
<1> HIDE DEF ts, us
<1>8. ts + k \in Nat /\ us + l \in Nat /\ ts + k < us + l BY <1>1, <1>2, <1>5, <1>7
<1> QED BY <1>8 DEF ClockAt, ts, us, k, l, s

LEMMA RoundIsNat == Round \in Nat
<1>1. ClockAt(StartSec) \in Nat /\ Words \in Nat \ {0}
  BY ClockGoesOn, ClockAssumption, WidthAssumption
<1> DEFINE first == ClockAt(StartSec)
           q == first \div Words
<1> HIDE DEF first
<1>2. q \in Nat BY <1>1 DEF first
<1> QED BY <1>1, <1>2 DEF Round, first

(* What the clock shows, and a time a delay later, are what a word holds of *)
(* them since the last time it wrapped.                                     *)
LEMMA TimesAreKept ==
  ASSUME TimesFit, sec \in StartSec..(StartSec + MaxSec),
         NEW d \in {0} \cup Delays \cup HandlerDelays
  PROVE  /\ Clock \in Nat /\ Round \in Nat /\ Round <= Clock
         /\ CurrentTime = Clock - Round
         /\ (CurrentTime + d) % Words = Clock + d - Round
         /\ Clock + d - Round \in 0..(Words - 1)
         /\ StoredScore(Clock + d - Round) = Clock + d - Round
<1>1. Words \in Nat \ {0} /\ Words % 2 = 0 /\ Words \div 2 <= Words /\ Words \div 2 \in Nat
  BY WidthAssumption
<1>2. StartSec \in Nat /\ sec \in Nat /\ StartSec <= sec /\ d \in Nat
  BY ClockAssumption, DelayAssumption
<1>3. Clock \in Nat /\ ClockAt(StartSec) \in Nat /\ ClockAt(StartSec) <= Clock
  <2>1. CASE StartSec = sec
    <3>1. ClockAt(sec) \in Nat BY <1>2, ClockGoesOn
    <3> QED BY <2>1, <3>1 DEF Clock
  <2>2. CASE StartSec < sec BY <1>2, <2>2, ClockGoesOn DEF Clock
  <2> QED BY <1>2, <2>1, <2>2
<1> DEFINE first == ClockAt(StartSec)
           q == first \div Words
<1>a. first \in Nat BY <1>3
<1> HIDE DEF first
<1>4. q \in Nat /\ first = Words * q + (first % Words) /\ first % Words \in Nat
  BY <1>1, <1>a
<1>5. Round = Words * q /\ Round = q * Words /\ Round \in Nat
  <2>1. Round = Words * q BY DEF Round, first
  <2> HIDE DEF q
  <2> QED BY <1>1, <1>4, <2>1
<1> HIDE DEF q
<1>6. Round <= first BY <1>4, <1>5
<1>7. Round <= Clock BY <1>3, <1>5, <1>6 DEF first
<1>8. Clock + 0 - Round < Words \div 2 /\ Clock + d - Round < Words \div 2
  BY DEF TimesFit, Clock
<1>9. Clock - Round \in 0..(Words - 1) /\ Clock + d - Round \in 0..(Words - 1)
  BY <1>1, <1>2, <1>3, <1>5, <1>7, <1>8
<1>10. CurrentTime = Clock - Round
  <2>1. (q * Words + (Clock - Round)) % Words = Clock - Round BY <1>1, <1>4, <1>9, Remainder
  <2>2. q * Words + (Clock - Round) = Clock BY <1>3, <1>5
  <2> QED BY <2>1, <2>2 DEF CurrentTime
<1>11. (Clock + d - Round) % Words = Clock + d - Round
  <2> DEFINE r == Clock + d - Round
  <2>1. r \in 0..(Words - 1) BY <1>9
  <2> HIDE DEF r
  <2>2. (0 * Words + r) % Words = r BY <1>1, <2>1, Remainder
  <2>3. 0 * Words + r = r BY <1>1, <2>1
  <2>4. r % Words = r BY <2>2, <2>3
  <2> QED BY <2>4 DEF r
<1>12. CurrentTime + d = Clock + d - Round BY <1>2, <1>3, <1>5, <1>10
<1> QED BY <1>3, <1>5, <1>7, <1>8, <1>9, <1>10, <1>11, <1>12 DEF StoredScore

-----------------------------------------------------------------------------
(* The timer *)

Typed ==
  /\ score \in [Nodes -> 0..(Words - 1)]
  /\ sec \in StartSec..(StartSec + MaxSec)
  /\ drawn \in 1..MaxLevel
  /\ pc \in {"main", "check", "handler", "aborted"}
  /\ now \in 0..(Words - 1)
  /\ x \in Nodes \cup {NULL}
  /\ status \in [Nodes -> {"off", "armed", "fired", "dropped"}]
  /\ expiry \in [Nodes -> Nat]
  /\ adds \in 0..MaxAdds

(* A node's score is when it expires.                                       *)
Keyed == \A n \in live : score[n] = expiry[n] - Round

(* The node whose handler runs was due.  It stays at the head of the list,  *)
(* or a node of the same score does that the handler added with no delay.   *)
Handled ==
  /\ now + Round <= Clock
  /\ pc \in {"main", "check"} => x = NULL
  /\ pc = "handler" => /\ x \in live /\ status[x] = "fired" /\ score[x] <= now
                       /\ GetMinNode \in live /\ score[GetMinNode] = score[x]
                       /\ GetMinNode # x => 0 \in HandlerDelays

IInv == ListInv /\ Typed /\ Keyed /\ Handled /\ ArmedIsListed

(* A timer that expires after the head does not become the head, and no     *)
(* other node does than the one that is added.                              *)
LEMMA InsertLeavesHead ==
  ASSUME ListInv, NEW n \in Nodes \ live, NEW s \in Nat, Insert_node(n, s),
         GetMinNode # NULL
  PROVE  /\ GetMinNode' \in {GetMinNode, n}
         /\ score[GetMinNode] < s => GetMinNode' = GetMinNode
<1>1. PICK place : Listed(place) BY DEF ListInv
<1>2. Shape BY DEF ListInv
<1>3. 0 \in Levels BY WidthAssumption DEF Levels
<1>4. IsLast(place, 0, s, Temp(s)[0]) BY <1>1, <1>2, <1>3, TempIsLast
<1>5. GetMinNode \in live BY <1>1, HeadIsFirst
<1>6. score[GetMinNode] < s => GetMinNode \in Lower(0, s) BY <1>2, <1>5 DEF Lower, Shape
<1>7. score[GetMinNode] < s => Header # Temp(s)[0] BY <1>4, <1>6 DEF IsLast
<1>8. Header # n BY NodeAssumption
<1>9. nxt' = [p \in Nodes \cup {Header} |-> [i \in Levels |->
                IF i \notin LinkedLevels(drawn) THEN nxt[p][i]
                ELSE IF p = n THEN nxt[Temp(s)[i]][i]
                ELSE IF p = Temp(s)[i] THEN n ELSE nxt[p][i]]]
  BY DEF Insert_node
<1>10. nxt'[Header][0] = (IF 0 \notin LinkedLevels(drawn) THEN nxt[Header][0]
                          ELSE IF Header = Temp(s)[0] THEN n ELSE nxt[Header][0])
  BY <1>3, <1>8, <1>9
<1> QED BY <1>7, <1>10 DEF GetMinNode

LEMMA AddKeeps ==
  ASSUME TimesFit, IInv, NEW n \in Nodes, Add(n)
  PROVE  IInv'
<1>1. PICK d \in Delays \cup HandlerDelays :
        Add_timer(n, d) /\ (pc = "handler" => d \in HandlerDelays)
  BY DEF Add
<1>2. pc \in {"main", "handler"} BY DEF Add
<1> DEFINE k == Clock + d - Round
<1>3. /\ Clock \in Nat /\ Round \in Nat /\ Round <= Clock
      /\ (CurrentTime + d) % Words = k
      /\ k \in 0..(Words - 1) /\ StoredScore(k) = k
  BY TimesAreKept DEF IInv, Typed
<1>4. d \in Nat /\ Words \in Nat BY DelayAssumption, WidthAssumption
<1>5. n \notin live /\ n \in Nodes \ live /\ adds < MaxAdds /\ Insert_node(n, k)
      /\ status' = [status EXCEPT ![n] = "armed"] /\ expiry' = [expiry EXCEPT ![n] = Clock + d]
      /\ adds' = adds + 1
      /\ pc' = pc /\ now' = now /\ x' = x /\ sec' = sec /\ drawn' = drawn
  BY <1>1, <1>3 DEF Add_timer, loopVars, clockVars
<1>6. Clock + d \in Nat /\ k + Round = Clock + d /\ k \in Nat BY <1>3, <1>4
<1>7. Clock' = Clock BY <1>5 DEF Clock
<1> HIDE DEF k
<1>8. ListInv' BY <1>3, <1>5, <1>6, InsertKeeps DEF IInv, Typed
<1>9. live' = live \cup {n} /\ score' = [score EXCEPT ![n] = k]
  BY <1>3, <1>5 DEF Insert_node
<1>10. live \subseteq Nodes BY DEF IInv, ListInv, Shape
<1>11. Typed' BY <1>3, <1>5, <1>6, <1>9, ClockAssumption DEF IInv, Typed
<1>12. /\ score'[n] = k /\ expiry'[n] = Clock + d /\ status'[n] = "armed"
       /\ \A m \in Nodes \ {n} : /\ score'[m] = score[m] /\ expiry'[m] = expiry[m]
                                 /\ status'[m] = status[m]
  BY <1>5, <1>9 DEF IInv, Typed
<1>13. Keyed' BY <1>3, <1>5, <1>6, <1>9, <1>10, <1>12 DEF IInv, Keyed
<1>14. Handled'
  <2>1. now' + Round <= Clock' BY <1>5, <1>7 DEF IInv, Handled
  <2>2. pc' \in {"main", "check"} => x' = NULL BY <1>5 DEF IInv, Handled
  <2>3. CASE pc = "handler"
    <3> DEFINE h == GetMinNode
    <3>1. /\ x \in live /\ status[x] = "fired" /\ score[x] <= now
          /\ h \in live /\ score[h] = score[x]
          /\ h # x => 0 \in HandlerDelays
          /\ now + Round <= Clock
      BY <2>3 DEF IInv, Handled
    <3> HIDE DEF h
    <3>2. x \in Nodes \ {n} /\ h \in Nodes \ {n} /\ h # NULL
      BY <1>5, <1>10, <3>1, NodeAssumption
    <3>3. GetMinNode' \in {h, n} /\ (score[h] < k => GetMinNode' = h)
      BY <1>5, <1>6, <3>2, InsertLeavesHead DEF IInv, h
    <3>4. score'[x] = score[x] /\ score'[h] = score[h] /\ score'[n] = k
          /\ status'[x] = "fired" /\ x \in live' /\ h \in live' /\ n \in live'
      BY <1>9, <1>12, <3>1, <3>2
    <3>5. CASE GetMinNode' = h
      <4>1. GetMinNode' # x => 0 \in HandlerDelays BY <3>1, <3>5
      <4> QED BY <1>5, <2>1, <2>2, <3>1, <3>4, <3>5, <4>1 DEF Handled
    <3>6. CASE GetMinNode' = n /\ ~(score[h] < k)
      <4>1. score[x] \in Nat /\ now \in Nat BY <3>2 DEF IInv, Typed
      <4>2. k <= now /\ k = score[x] /\ d = 0 BY <1>3, <1>4, <1>6, <3>1, <3>6, <4>1
      <4>3. 0 \in HandlerDelays BY <1>1, <2>3, <4>2
      <4> QED BY <1>5, <2>1, <2>2, <3>1, <3>4, <3>6, <4>2, <4>3 DEF Handled
    <3> QED BY <3>3, <3>5, <3>6
  <2> QED BY <1>2, <1>5, <2>1, <2>2, <2>3 DEF Handled
<1>15. ArmedIsListed'
  <2>1. Armed' = Armed \cup {n} BY <1>5, <1>12 DEF Armed
  <2> QED BY <1>5, <1>9, <2>1 DEF IInv, ArmedIsListed
<1> QED BY <1>8, <1>11, <1>13, <1>14, <1>15 DEF IInv

LEMMA TakesOut ==
  ASSUME IInv, NEW place, Listed(place), NEW n \in live,
         \A m \in live \ {n} : score[m] = score[n] => place[n] < place[m],
         Del_node(score[n])
  PROVE  /\ ListInv' /\ live' = live \ {n} /\ score' \in [Nodes -> 0..(Words - 1)]
         /\ \A m \in live' : score'[m] = score[m]
         /\ GetMinNode # n => GetMinNode' = GetMinNode
<1>1. n = nxt[Temp(score[n])[0]][0] /\ score[n] \in Nat BY DeletesThatNode DEF IInv
<1>2. ListInv' /\ TakenOut(n) BY <1>1, DeleteKeeps DEF IInv
<1>3. score' \in [Nodes -> 0..(Words - 1)]
  <2>1. score' = [score EXCEPT ![n] = 0] /\ score \in [Nodes -> 0..(Words - 1)]
    BY <1>2 DEF IInv, Typed, TakenOut
  <2>2. 0 \in 0..(Words - 1) BY WidthAssumption
  <2> QED BY <2>1, <2>2
<1>4. GetMinNode # n => GetMinNode' = GetMinNode BY <1>2 DEF GetMinNode, TakenOut
<1> QED BY <1>2, <1>3, <1>4 DEF TakenOut

LEMMA CancelKeeps ==
  ASSUME ~CancelsTwins, IInv, NEW n \in Nodes, Del_timer(n)
  PROVE  IInv'
<1>1. /\ pc \in {"main", "handler"} /\ n \in Armed
      /\ \A m \in live \ {n} : expiry[m] # expiry[n]
      /\ status' = [status EXCEPT ![n] = "off"]
      /\ now' = now /\ x' = x /\ sec' = sec /\ drawn' = drawn /\ expiry' = expiry /\ adds' = adds
      /\ pc' \in {pc, "aborted"}
  BY DEF Del_timer, AfterDelete, clockVars
<1>2. live \subseteq Nodes /\ status \in [Nodes -> {"off", "armed", "fired", "dropped"}]
  BY DEF IInv, ListInv, Shape, Typed
<1>3. n \in live BY <1>1 DEF IInv, ArmedIsListed
<1>4. Del_node(score[n]) BY <1>3 DEF Del_timer, ScoreRead
<1>5. PICK place : Listed(place) BY DEF IInv, ListInv
<1>6. \A m \in live \ {n} : score[m] # score[n]
  <2> SUFFICES ASSUME NEW m \in live \ {n}, score[m] = score[n] PROVE FALSE OBVIOUS
  <2>1. expiry[m] \in Nat /\ expiry[n] \in Nat /\ expiry[m] # expiry[n]
    BY <1>1, <1>2, <1>3 DEF IInv, Typed
  <2>2. Round \in Nat BY RoundIsNat
  <2>3. score[m] = expiry[m] - Round /\ score[n] = expiry[n] - Round
    BY <1>3 DEF IInv, Keyed
  <2>4. \A a, b, r \in Nat : a - r = b - r => a = b OBVIOUS
  <2>5. expiry[m] - Round = expiry[n] - Round BY <2>3
  <2> HIDE DEF Round
  <2> QED BY <2>1, <2>2, <2>4, <2>5
<1>7. /\ ListInv' /\ live' = live \ {n} /\ score' \in [Nodes -> 0..(Words - 1)]
      /\ \A m \in live' : score'[m] = score[m]
      /\ GetMinNode # n => GetMinNode' = GetMinNode
  BY <1>3, <1>4, <1>5, <1>6, TakesOut
<1>8. Armed' = Armed \ {n} /\ n \in Armed
  BY <1>1, <1>2 DEF Armed
<1>9. Typed' BY <1>1, <1>2, <1>7 DEF IInv, Typed
<1>10. Keyed' BY <1>1, <1>7 DEF IInv, Keyed
<1>11. Clock' = Clock BY <1>1 DEF Clock
<1>12. Handled'
  <2>1. now' + Round <= Clock' /\ (pc' \in {"main", "check"} => x' = NULL)
    BY <1>1, <1>11 DEF IInv, Handled
  <2>2. CASE pc' = "handler"
    <3> DEFINE h == GetMinNode
    <3>1. /\ x \in live /\ status[x] = "fired" /\ score[x] <= now
          /\ h \in live /\ score[h] = score[x] /\ (h # x => 0 \in HandlerDelays)
      BY <1>1, <2>2 DEF IInv, Handled
    <3> HIDE DEF h
    <3>2. x # n BY <1>1, <3>1 DEF Armed
    <3>3. h # n BY <1>6, <3>1, <3>2
    <3>4. GetMinNode' = h BY <1>7, <3>3 DEF h
    <3>5. /\ x \in live' /\ h \in live' /\ status'[x] = "fired"
          /\ score'[x] = score[x] /\ score'[h] = score[h]
      BY <1>1, <1>2, <1>7, <3>1, <3>2, <3>3
    <3> QED BY <1>1, <2>1, <3>1, <3>4, <3>5 DEF Handled
  <2> QED BY <2>1, <2>2 DEF Handled
<1>13. ArmedIsListed'
  <2>1. x # n
    <3>1. CASE pc = "handler" BY <1>1, <3>1 DEF IInv, Handled, Armed
    <3>2. CASE pc = "main" BY <1>1, <1>3, <1>2, <3>2, NodeAssumption DEF IInv, Handled
    <3> QED BY <1>1, <3>1, <3>2
  <2> QED BY <1>1, <1>7, <1>8, <2>1 DEF IInv, ArmedIsListed
<1> QED BY <1>7, <1>9, <1>10, <1>12, <1>13 DEF IInv

LEMMA ListStays ==
  ASSUME ListInv, listVars' = listVars
  PROVE  ListInv' /\ GetMinNode' = GetMinNode
<1>1. /\ nxt' = nxt /\ score' = score /\ height' = height /\ m_level' = m_level
      /\ m_length' = m_length /\ live' = live
  BY DEF listVars
<1>2. PICK place : Listed(place) BY DEF ListInv
<1>3. Listed(place)' BY <1>1, <1>2 DEF Listed, Sorted, Linked, OnLevel
<1>4. Shape' BY <1>1 DEF ListInv, Shape, OnLevel
<1> QED BY <1>1, <1>3, <1>4 DEF ListInv, GetMinNode

LEMMA FireKeeps ==
  ASSUME IInv, ExpireFire
  PROVE  IInv'
<1>1. /\ pc = "check" /\ pc' = "handler" /\ GetMinNode # NULL /\ score[GetMinNode] <= now
      /\ x' = GetMinNode /\ status' = [status EXCEPT ![GetMinNode] = "fired"]
      /\ now' = now /\ sec' = sec /\ drawn' = drawn /\ expiry' = expiry /\ adds' = adds
      /\ nxt' = nxt /\ score' = score /\ height' = height /\ m_level' = m_level
      /\ m_length' = m_length /\ live' = live
  BY DEF ExpireFire, HeadIsDue, Due, listVars, clockVars
<1>2. PICK place : Listed(place) BY DEF IInv, ListInv
<1> DEFINE h == GetMinNode
<1>3. h \in live /\ h \in Nodes
  <2>1. h \in live BY <1>1, <1>2, HeadIsFirst DEF IInv
  <2> QED BY <2>1 DEF IInv, ListInv, Shape
<1>4. GetMinNode' = h BY <1>1 DEF GetMinNode
<1> HIDE DEF h
<1>5. ListInv' BY <1>1, ListStays DEF IInv, listVars
<1>6. Typed' BY <1>1, <1>3 DEF IInv, Typed, h
<1>7. Keyed' BY <1>1 DEF IInv, Keyed
<1>8. Clock' = Clock BY <1>1 DEF Clock
<1>9. status'[h] = "fired" /\ Armed' = Armed \ {h} BY <1>1, <1>3 DEF IInv, Typed, Armed, h
<1>10. Handled' BY <1>1, <1>3, <1>4, <1>8, <1>9 DEF IInv, Handled, h
<1>11. x = NULL /\ live = Armed BY <1>1 DEF IInv, Handled, ArmedIsListed
<1>12. ArmedIsListed'
  <2>1. live' = live /\ x' = h /\ h # NULL BY <1>1 DEF h
  <2> QED BY <1>3, <1>9, <1>11, <2>1 DEF ArmedIsListed
<1> QED BY <1>5, <1>6, <1>7, <1>10, <1>12 DEF IInv

(* What Del_HeadNode deletes, and what it leaves.                           *)
LEMMA HeadIsDeleted ==
  ASSUME IInv, Del_HeadNode, NEW h, h = GetMinNode
  PROVE  /\ x \in live /\ h \in live /\ x # NULL /\ score[h] = score[x]
         /\ live' = live \ {h} /\ ListInv' /\ score' \in [Nodes -> 0..(Words - 1)]
         /\ \A m \in live' : score'[m] = score[m]
         /\ h = x => status' = status
         /\ h # x => /\ h \in Armed /\ 0 \in HandlerDelays
                    /\ status' = [status EXCEPT ![h] = "dropped", ![x] = "armed"]
<1>1. pc = "handler" /\ status' = [n \in Nodes |-> AfterHandler(n)] BY DEF Del_HeadNode
<1>2. /\ x \in live /\ status[x] = "fired" /\ h \in live /\ score[h] = score[x]
      /\ (h # x => 0 \in HandlerDelays)
  BY <1>1 DEF IInv, Handled
<1>3. live \subseteq Nodes /\ NULL \notin live BY NodeAssumption DEF IInv, ListInv, Shape
<1>4. h # NULL /\ x # NULL BY <1>2, <1>3
<1>5. Del_node(score[h]) BY <1>4 DEF Del_HeadNode
<1>6. PICK place : Listed(place) BY DEF IInv, ListInv
<1>7. \A m \in live \ {h} : place[h] < place[m]
  <2> SUFFICES ASSUME NEW m \in live \ {h} PROVE place[h] < place[m] OBVIOUS
  <2>1. place[h] <= place[m] BY <1>4, <1>6, HeadIsFirst DEF IInv
  <2>2. place[h] # place[m] /\ place[h] \in Nat /\ place[m] \in Nat
    BY <1>2, <1>6 DEF Listed, Sorted
  <2> QED BY <2>1, <2>2
<1>8. /\ ListInv' /\ live' = live \ {h} /\ score' \in [Nodes -> 0..(Words - 1)]
      /\ \A m \in live' : score'[m] = score[m]
  BY <1>2, <1>5, <1>6, <1>7, TakesOut
<1>9. x \notin Armed /\ (h # x => h \in Armed)
  BY <1>2, <1>4 DEF IInv, ArmedIsListed, Armed
<1>10. status \in [Nodes -> {"off", "armed", "fired", "dropped"}] BY DEF IInv, Typed
<1>11. CASE h = x
  <2>1. \A n \in Nodes : AfterHandler(n) = status[n] BY <1>9, <1>11 DEF AfterHandler
  <2>2. status' = status BY <1>1, <1>10, <2>1
  <2> QED BY <1>2, <1>4, <1>8, <1>11, <2>2
<1>12. CASE h # x
  <2>1. ASSUME NEW n \in Nodes
        PROVE  AfterHandler(n) = [status EXCEPT ![h] = "dropped", ![x] = "armed"][n]
    <3>1. CASE n = x BY <1>2, <1>10, <1>12, <3>1 DEF AfterHandler
    <3>2. CASE n = h BY <1>9, <1>10, <1>12, <3>2 DEF AfterHandler
    <3>3. CASE n # x /\ n # h BY <1>10, <3>3 DEF AfterHandler
    <3> QED BY <3>1, <3>2, <3>3
  <2>2. status' = [status EXCEPT ![h] = "dropped", ![x] = "armed"] BY <1>1, <1>10, <2>1
  <2> QED BY <1>2, <1>4, <1>8, <1>9, <1>12, <2>2
<1> QED BY <1>11, <1>12

LEMMA DelHeadKeeps ==
  ASSUME IInv, Del_HeadNode
  PROVE  IInv'
<1>1. /\ pc = "handler" /\ x' = NULL /\ pc' \in {"check", "aborted"}
      /\ now' = now /\ sec' = sec /\ drawn' = drawn /\ expiry' = expiry /\ adds' = adds
  BY DEF Del_HeadNode, AfterDelete, clockVars
<1> DEFINE h == GetMinNode
<1>2. /\ x \in live /\ h \in live /\ x # NULL
      /\ live' = live \ {h} /\ ListInv' /\ score' \in [Nodes -> 0..(Words - 1)]
      /\ \A m \in live' : score'[m] = score[m]
      /\ h = x => status' = status
      /\ h # x => /\ h \in Armed
                 /\ status' = [status EXCEPT ![h] = "dropped", ![x] = "armed"]
  BY HeadIsDeleted
<1> HIDE DEF h
<1>3. /\ live \subseteq Nodes /\ status \in [Nodes -> {"off", "armed", "fired", "dropped"}]
      /\ status[x] = "fired" /\ live = Armed \cup {x}
  BY <1>1, <1>2 DEF IInv, ListInv, Shape, Typed, Handled, ArmedIsListed
<1>4. status' \in [Nodes -> {"off", "armed", "fired", "dropped"}]
      /\ Armed' = (Armed \cup {x}) \ {h}
  <2>1. CASE h = x BY <1>2, <1>3, <2>1 DEF Armed
  <2>2. CASE h # x BY <1>2, <1>3, <2>2 DEF Armed
  <2> QED BY <2>1, <2>2
<1>5. Typed' BY <1>1, <1>2, <1>4 DEF IInv, Typed
<1>6. Keyed' BY <1>1, <1>2 DEF IInv, Keyed
<1>7. Handled' BY <1>1 DEF IInv, Handled, Clock
<1>8. ArmedIsListed' BY <1>1, <1>2, <1>3, <1>4 DEF ArmedIsListed
<1> QED BY <1>2, <1>5, <1>6, <1>7, <1>8 DEF IInv

LEMMA LoopKeeps ==
  ASSUME TimesFit, IInv, ExpireStart \/ ExpireReturn
  PROVE  IInv'
<1>1. /\ listVars' = listVars /\ sec' = sec /\ drawn' = drawn /\ expiry' = expiry /\ adds' = adds
      /\ status' = status /\ x' = x
      /\ nxt' = nxt /\ score' = score /\ live' = live
      /\ pc \in {"main", "check"} /\ pc' \in {"main", "check"}
  BY DEF ExpireStart, ExpireReturn, listVars, clockVars, userVars
<1>2. ListInv' BY <1>1, ListStays DEF IInv
<1>3. Clock' = Clock /\ Clock \in Nat /\ Round \in Nat
  BY <1>1, TimesAreKept DEF IInv, Typed, Clock
<1>4. now' \in 0..(Words - 1) /\ now' + Round <= Clock
  <2>1. CASE now' = 0
    <3>1. Round <= Clock /\ Words \in Nat \ {0}
      BY TimesAreKept, WidthAssumption DEF IInv, Typed
    <3> QED BY <1>3, <2>1, <3>1
  <2>2. CASE now' = CurrentTime
    <3>1. CurrentTime = Clock - Round /\ Clock + 0 - Round \in 0..(Words - 1)
      BY TimesAreKept DEF IInv, Typed
    <3>2. CurrentTime \in 0..(Words - 1) BY <1>3, <3>1
    <3> QED BY <1>3, <2>2, <3>1, <3>2
  <2> QED BY <2>1, <2>2 DEF ExpireStart, ExpireReturn
<1>5. x = NULL BY <1>1 DEF IInv, Handled
<1>6. Armed' = Armed BY <1>1 DEF Armed
<1>7. Typed' /\ Keyed' BY <1>1, <1>4 DEF IInv, Typed, Keyed
<1>8. Handled' BY <1>1, <1>3, <1>4, <1>5 DEF Handled
<1>9. ArmedIsListed' BY <1>1, <1>6 DEF IInv, ArmedIsListed
<1> QED BY <1>2, <1>7, <1>8, <1>9 DEF IInv

(* No timer is due when the head is not.                                    *)
LEMMA NoneIsDue ==
  ASSUME IInv, ExpireReturn, NEW n \in Armed
  PROVE  expiry[n] > Round + now
<1>1. x = NULL /\ ~HeadIsDue BY DEF ExpireReturn, IInv, Handled
<1>2. n \in live /\ live \subseteq Nodes BY <1>1 DEF IInv, ArmedIsListed, ListInv, Shape
<1>3. PICK place : Listed(place) BY DEF IInv, ListInv
<1>4. GetMinNode # NULL /\ GetMinNode \in live /\ score[GetMinNode] <= score[n]
  BY <1>2, <1>3, HeadIsFirst DEF IInv
<1>5. ~(score[GetMinNode] <= now) BY <1>1, <1>4 DEF HeadIsDue, Due
<1>6. /\ score[GetMinNode] \in Nat /\ score[n] \in Nat /\ now \in Nat /\ expiry[n] \in Nat
      /\ score[n] = expiry[n] - Round
  BY <1>2, <1>4 DEF IInv, Typed, Keyed
<1>7. score[n] > now BY <1>4, <1>5, <1>6
<1> QED BY <1>6, <1>7, RoundIsNat

LEMMA ClockTicks ==
  ASSUME IInv, Tick
  PROVE  Clock \in Nat /\ Clock' \in Nat /\ Clock' > Clock
<1>1. sec \in Nat /\ sec' = sec + 1 BY ClockAssumption DEF IInv, Typed, Tick
<1> QED BY <1>1, ClockGoesOn DEF Clock

LEMMA TickKeeps ==
  ASSUME IInv, Tick
  PROVE  IInv'
<1>1. /\ listVars' = listVars /\ pc' = pc /\ now' = now /\ x' = x /\ expiry' = expiry
      /\ status' = status /\ adds' = adds /\ score' = score /\ live' = live
      /\ sec' = sec + 1 /\ sec < StartSec + MaxSec /\ drawn' \in 1..MaxLevel
  BY DEF Tick, listVars, loopVars, userVars
<1>2. ListInv' /\ GetMinNode' = GetMinNode BY <1>1, ListStays DEF IInv
<1>3. Clock \in Nat /\ Clock' \in Nat /\ Clock' > Clock /\ Round \in Nat
  BY ClockTicks, RoundIsNat
<1>4. Typed' /\ Keyed' BY <1>1, ClockAssumption DEF IInv, Typed, Keyed
<1>5. now' + Round <= Clock'
  <2>1. now + Round <= Clock /\ now \in Nat BY DEF IInv, Typed, Handled
  <2> QED BY <1>1, <1>3, <2>1
<1>6. Handled' BY <1>1, <1>2, <1>5 DEF IInv, Handled
<1>7. Armed' = Armed BY <1>1 DEF Armed
<1>8. ArmedIsListed' BY <1>1, <1>7 DEF IInv, ArmedIsListed
<1> QED BY <1>2, <1>4, <1>6, <1>8 DEF IInv

LEMMA StutterKeeps ==
  ASSUME IInv, vars' = vars
  PROVE  IInv'
<1>1. /\ listVars' = listVars /\ pc' = pc /\ now' = now /\ x' = x /\ expiry' = expiry
      /\ status' = status /\ adds' = adds /\ score' = score /\ live' = live
      /\ sec' = sec /\ drawn' = drawn
  BY DEF vars, listVars, loopVars, clockVars, userVars
<1>2. ListInv' /\ GetMinNode' = GetMinNode BY <1>1, ListStays DEF IInv
<1>3. Armed' = Armed /\ Clock' = Clock BY <1>1 DEF Armed, Clock
<1> QED BY <1>1, <1>2, <1>3 DEF IInv, Typed, Keyed, Handled, ArmedIsListed

LEMMA InitEstablishes == ASSUME TimesFit, Init PROVE IInv
<1>1. Typed
  BY WidthAssumption, ClockAssumption DEF Init, Typed
<1>2. live = {} /\ Armed = {} /\ x = NULL BY DEF Init, Armed
<1>3. ListInv
  <2>1. Shape BY WidthAssumption DEF Init, Shape, Levels, OnLevel
  <2>2. IsFiniteSet(live) /\ Cardinality(live) = 0 BY <1>2, FS_EmptySet
  <2>3. \E place : Listed(place)
    <3> DEFINE none == [n \in live |-> 1]
    <3>1. none \in [live -> 1..m_length] /\ Sorted(none) BY <1>2 DEF Sorted
    <3>2. \A i \in Levels : \A p \in OnLevel(i) : Linked(none, i, p)
      BY <1>2 DEF Init, Linked, OnLevel
    <3>3. Listed(none) BY <3>1, <3>2 DEF Listed
    <3> QED BY <3>3
  <2> QED BY <2>1, <2>2, <2>3 DEF Init, ListInv
<1>4. now + Round <= Clock
  <2>1. sec \in StartSec..(StartSec + MaxSec) BY <1>1 DEF Typed
  <2>2. Round <= Clock /\ Round \in Nat BY <2>1, TimesAreKept
  <2> QED BY <2>2 DEF Init
<1> QED
  BY <1>1, <1>2, <1>3, <1>4
  DEF Init, IInv, Keyed, Handled, ArmedIsListed

LEMMA NextKeeps == ASSUME TimesFit, ~CancelsTwins, IInv, [Next]_vars PROVE IInv'
  BY AddKeeps, CancelKeeps, FireKeeps, DelHeadKeeps, LoopKeeps, TickKeeps, StutterKeeps
  DEF Next, LoopStep

-----------------------------------------------------------------------------
(* The theorems are about programs that delete no timer beside another of   *)
(* the same expiry time, and about times in the lower half of a word.       *)

LEMMA SpecKeepsIInv ==
  ASSUME TimesFit, ~CancelsTwins
  PROVE  Spec => []IInv
<1>1. Init => IInv BY InitEstablishes
<1>2. IInv /\ [Next]_vars => IInv' BY NextKeeps
<1> QED BY <1>1, <1>2, PTL DEF Spec

(* The state of the list and the loop has the types declared for it.        *)
THEOREM TypeCorrect ==
  ASSUME TimesFit, ~CancelsTwins
  PROVE  Spec => []TypeOK
<1>1. IInv => TypeOK
  <2> SUFFICES ASSUME IInv PROVE TypeOK OBVIOUS
  <2>1. Words - 1 <= Words * Words - 1 /\ Words * Words - 1 \in Nat
    <3>1. Words \in Nat \ {0} BY WidthAssumption
    <3>2. 0 * Words + Words <= Words * Words /\ Words * Words \in Nat BY <3>1
    <3> QED BY <3>1, <3>2
  <2>2. \A n \in Nodes : score[n] \in 0..(Words * Words - 1)
    <3> DEFINE top == Words * Words - 1
    <3>1. \A n \in Nodes : score[n] \in 0..(Words - 1) BY DEF IInv, Typed
    <3>2. Words - 1 <= top /\ top \in Nat /\ Words \in Nat BY <2>1, WidthAssumption
    <3> HIDE DEF top
    <3>3. \A n \in Nodes : score[n] \in 0..top BY <3>1, <3>2
    <3> QED BY <3>3 DEF top
  <2>3. score \in [Nodes -> 0..(Words * Words - 1)] BY <2>2 DEF IInv, Typed
  <2> QED BY <2>3 DEF TypeOK, IInv, Typed, ListInv, Shape
<1> QED BY <1>1, SpecKeepsIInv, PTL

(* Every level of the skip list is the list of the timers that are high     *)
(* enough, by expiry time, so that no search misses a node; and m_length    *)
(* and m_level are right.                                                   *)
THEOREM LevelsAreSublistsHolds ==
  ASSUME TimesFit, ~CancelsTwins
  PROVE  Spec => []LevelsAreSublists
<1>1. IInv => LevelsAreSublists
  <2> SUFFICES ASSUME IInv PROVE LevelsAreSublists OBVIOUS
  <2>1. PICK place : Listed(place) BY DEF IInv, ListInv
  <2>2. Ordered(place)
    <3>1. ASSUME NEW m \in live, NEW n \in live, place[m] < place[n]
          PROVE  expiry[m] <= expiry[n]
      <4>1. score[m] <= score[n] BY <2>1, <3>1 DEF Listed, Sorted
      <4>2. score[m] = expiry[m] - Round /\ score[n] = expiry[n] - Round
        BY DEF IInv, Keyed
      <4>3. expiry[m] \in Nat /\ expiry[n] \in Nat BY DEF IInv, Typed, ListInv, Shape
      <4>4. \A a, b, r \in Nat : a - r <= b - r => a <= b OBVIOUS
      <4>5. expiry[m] - Round <= expiry[n] - Round BY <4>1, <4>2
      <4> HIDE DEF Round
      <4> QED BY <4>3, <4>4, <4>5, RoundIsNat
    <3>2. \A m, n \in live : place[m] = place[n] => m = n BY <2>1 DEF Listed, Sorted
    <3> QED BY <3>1, <3>2 DEF Ordered
  <2>3. \A i \in Levels : \A p \in {Header} \cup {n \in live : height[n] > i} :
          Linked(place, i, p)
    BY <2>1 DEF Listed, OnLevel
  <2>4. place \in [live -> 1..m_length] BY <2>1 DEF Listed
  <2> QED BY <2>2, <2>3, <2>4 DEF LevelsAreSublists, IInv, ListInv, Shape
<1> QED BY <1>1, SpecKeepsIInv, PTL

(* The list holds the pending timers and the one whose handler runs:        *)
(* Del_timer, which finds a node by its score, takes out the right one.     *)
THEOREM ArmedIsListedHolds ==
  ASSUME TimesFit, ~CancelsTwins
  PROVE  Spec => []ArmedIsListed
<1>1. IInv => ArmedIsListed BY DEF IInv
<1> QED BY <1>1, SpecKeepsIInv, PTL

(* expire_timer leaves no timer behind that was due when it read the clock, *)
(* whatever its handlers armed, with no delay too, and deleted.             *)
THEOREM PassLeavesNothingDueHolds ==
  ASSUME TimesFit, ~CancelsTwins
  PROVE  Spec => PassLeavesNothingDue
<1>1. IInv => (ExpireReturn => \A n \in Armed : expiry[n] > Round + now)
  BY NoneIsDue
<1> QED BY <1>1, SpecKeepsIInv, PTL DEF PassLeavesNothingDue

(* The list and the loop of main are a timer, for delays of any length: a   *)
(* timer fires once, not early and not before one that expires earlier, and *)
(* not after it was deleted, but for the exception TimerService states,     *)
(* which takes a handler that arms a timer with no delay.                   *)
THEOREM ImplementsTimerService ==
  ASSUME TimesFit, ~CancelsTwins
  PROVE  Spec => TimerServiceSpec
<1> USE DEF Service!Arm, Service!Cancel, Service!Fire, Service!Advance, Service!Armed, Armed
<1>1. Init => Service!Init
  <2> SUFFICES ASSUME Init PROVE Service!Init OBVIOUS
  <2>1. sec \in Nat BY ClockAssumption DEF Init
  <2>2. Clock \in Nat
    <3>1. sec + 1 \in Nat /\ sec < sec + 1 BY <2>1
    <3> QED BY <2>1, <3>1, ClockGoesOn DEF Clock
  <2> QED BY <2>2 DEF Init, Service!Init
<1>2. ASSUME IInv, NEW n \in Nodes, Add(n) PROVE Service!Arm(n)
  <2>1. PICK d \in IF x = NULL THEN Delays ELSE HandlerDelays : Add_timer(n, d)
    <3>1. CASE pc = "main"
      <4>1. x = NULL BY <1>2, <3>1 DEF IInv, Handled
      <4> QED BY <1>2, <3>1, <4>1 DEF Add
    <3>2. CASE pc = "handler"
      <4>1. x # NULL BY <1>2, <3>2, NodeAssumption DEF IInv, Handled, ListInv, Shape
      <4> QED BY <1>2, <3>2, <4>1 DEF Add
    <3> QED BY <1>2, <3>1, <3>2 DEF Add
  <2>2. /\ n \notin live /\ status' = [status EXCEPT ![n] = "armed"]
        /\ expiry' = [expiry EXCEPT ![n] = Clock + d] /\ Clock' = Clock /\ x' = x
    BY <2>1 DEF Add_timer, clockVars, loopVars, Clock
  <2>3. n \notin Armed BY <1>2, <2>2 DEF IInv, ArmedIsListed
  <2> QED BY <2>2, <2>3
<1>3. ASSUME NEW n \in Nodes, Del_timer(n) PROVE Service!Cancel(n)
  BY <1>3 DEF Del_timer, clockVars, Clock
<1>4. ASSUME IInv, ExpireFire PROVE Service!Fire(GetMinNode) /\ GetMinNode \in Nodes
  <2> DEFINE h == GetMinNode
  <2>1. /\ pc = "check" /\ h # NULL /\ score[h] <= now
        /\ status' = [status EXCEPT ![h] = "fired"] /\ expiry' = expiry /\ Clock' = Clock
        /\ x' = h
    BY <1>4 DEF ExpireFire, HeadIsDue, Due, clockVars, Clock
  <2>2. PICK place : Listed(place) BY <1>4 DEF IInv, ListInv
  <2>3. h \in live /\ \A m \in live : score[h] <= score[m]
    BY <1>4, <2>1, <2>2, HeadIsFirst DEF IInv
  <2> HIDE DEF h
  <2>4. live = Armed /\ now + Round <= Clock /\ x = NULL
    BY <1>4, <2>1 DEF IInv, Handled, ArmedIsListed
  <2>5. \A m \in live : score[m] = expiry[m] - Round /\ expiry[m] \in Nat /\ m \in Nodes
    BY <1>4 DEF IInv, Keyed, Typed, ListInv, Shape
  <2>6. Round \in Nat /\ now \in Nat /\ Clock \in Nat
    <3>1. sec \in Nat /\ sec + 1 \in Nat /\ sec < sec + 1 /\ now \in Nat
      BY <1>4, ClockAssumption DEF IInv, Typed
    <3> QED BY <3>1, ClockGoesOn, RoundIsNat DEF Clock
  <2> HIDE DEF Round, Clock
  <2>7. expiry[h] <= Clock BY <2>1, <2>3, <2>4, <2>5, <2>6
  <2>8. \A m \in live : expiry[h] <= expiry[m] BY <2>3, <2>5, <2>6
  <2> QED BY <2>1, <2>3, <2>4, <2>5, <2>7, <2>8 DEF h
<1>5. ASSUME IInv, Tick PROVE Service!Advance
  BY <1>5, ClockTicks DEF Tick, userVars, loopVars
<1>6. ASSUME ExpireStart \/ ExpireReturn \/ vars' = vars
      PROVE  UNCHANGED <<status, expiry, Clock, x>>
  BY <1>6 DEF ExpireStart, ExpireReturn, vars, clockVars, userVars, loopVars, Clock
<1>7. ASSUME IInv, Del_HeadNode
      PROVE  Service!Return \/ \E n \in Nodes : Service!Exchange(n)
  <2> DEFINE h == GetMinNode
  <2>1. x' = NULL /\ expiry' = expiry /\ Clock' = Clock
    BY <1>7 DEF Del_HeadNode, clockVars, Clock
  <2>2. /\ x \in live /\ h \in live /\ x # NULL /\ score[h] = score[x]
        /\ h = x => status' = status
        /\ h # x => /\ h \in Armed /\ 0 \in HandlerDelays
                   /\ status' = [status EXCEPT ![h] = "dropped", ![x] = "armed"]
    BY <1>7, HeadIsDeleted
  <2> HIDE DEF h
  <2>3. h \in Nodes /\ x \in Nodes BY <1>7, <2>2 DEF IInv, ListInv, Shape
  <2>4. expiry[h] = expiry[x]
    <3>1. score[h] = expiry[h] - Round /\ score[x] = expiry[x] - Round
      BY <1>7, <2>2 DEF IInv, Keyed
    <3>2. expiry[h] \in Nat /\ expiry[x] \in Nat BY <1>7, <2>3 DEF IInv, Typed
    <3>3. \A a, b, r \in Nat : a - r = b - r => a = b OBVIOUS
    <3>4. expiry[h] - Round = expiry[x] - Round BY <2>2, <3>1
    <3> HIDE DEF Round
    <3> QED BY <3>2, <3>3, <3>4, RoundIsNat
  <2>5. CASE h = x BY <2>1, <2>2, <2>5 DEF Service!Return
  <2>6. CASE h # x BY <2>1, <2>2, <2>3, <2>4, <2>6 DEF Service!Exchange
  <2> QED BY <2>5, <2>6
<1>8. IInv /\ [Next]_vars => [Service!Next]_(Service!vars)
  BY <1>2, <1>3, <1>4, <1>5, <1>6, <1>7 DEF Next, LoopStep, Service!Next, Service!vars
<1> QED BY <1>1, <1>8, SpecKeepsIInv, PTL DEF Spec, TimerServiceSpec, Service!Spec
=============================================================================
