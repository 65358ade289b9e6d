--------------------------- MODULE StlAllocProofs ---------------------------
(***************************************************************************)
(* Theorems of StlAlloc: blocks in use, free blocks and the rest of the    *)
(* chunk share no byte, and nothing malloc gave is lost, wherever malloc   *)
(* places its chunks.                                                      *)
(***************************************************************************)
EXTENDS StlAlloc, FiniteSetTheorems, TLAPS

(* The size of the blocks of list i. *)
Width(i) == (i + 1) * ALIGN

(* m bytes at a and n bytes at b share none. *)
Apart(a, m, b, n) == a + m <= b \/ b + n <= a

(* The pieces of a state of the pool, given as free lists, blocks in use    *)
(* and ends of the chunk, are apart from each other.                        *)
LiveApart(lv) ==
  \A b, c \in lv : b # c => Apart(b.addr, S_round_up(b.size), c.addr, S_round_up(c.size))

FreeApart(lists) ==
  \A i, j \in Lists : \A k \in DOMAIN lists[i], l \in DOMAIN lists[j] :
    (i # j \/ k # l) => Apart(lists[i][k], Width(i), lists[j][l], Width(j))

LiveFreeApart(lists, lv) ==
  \A b \in lv, i \in Lists : \A k \in DOMAIN lists[i] :
    Apart(b.addr, S_round_up(b.size), lists[i][k], Width(i))

ChunkApart(lists, lv, lo, hi) ==
  /\ \A b \in lv : Apart(b.addr, S_round_up(b.size), lo, hi - lo)
  /\ \A i \in Lists : \A k \in DOMAIN lists[i] : Apart(lists[i][k], Width(i), lo, hi - lo)

(* w bytes at a lie in one chunk. *)
Inside(a, w, chunks) == \E c \in chunks : c.lo <= a /\ a + w <= c.hi

(* Every piece lies in one chunk. *)
Within(lists, lv, lo, hi, chunks) ==
  /\ \A b \in lv : Inside(b.addr, S_round_up(b.size), chunks)
  /\ \A i \in Lists : \A k \in DOMAIN lists[i] : Inside(lists[i][k], Width(i), chunks)
  /\ lo = hi \/ Inside(lo, hi - lo, chunks)

Typed(lists, lv, lo, hi, chunks) ==
  /\ lists \in [Lists -> Seq(Nat)]
  /\ lv \subseteq Blocks
  /\ lo \in Nat /\ hi \in Nat /\ lo <= hi
  /\ chunks \subseteq [lo : Nat, hi : Nat]

Arranged(lists, lv, lo, hi, chunks) ==
  /\ Typed(lists, lv, lo, hi, chunks)
  /\ LiveApart(lv) /\ FreeApart(lists) /\ LiveFreeApart(lists, lv)
  /\ ChunkApart(lists, lv, lo, hi)
  /\ Within(lists, lv, lo, hi, chunks)

(* The byte x is in one of the pieces. *)
Covered(x, lists, lv, lo, hi) ==
  \/ \E b \in lv : b.addr <= x /\ x < b.addr + S_round_up(b.size)
  \/ \E i \in Lists : \E k \in DOMAIN lists[i] : lists[i][k] <= x /\ x < lists[i][k] + Width(i)
  \/ lo <= x /\ x < hi

-----------------------------------------------------------------------------
(* Arithmetic of the sizes *)

(* A multiple of a number is one with itself as the last part.              *)
LEMMA Multiples ==
  ASSUME NEW a \in Nat, NEW b \in Nat, NEW s \in Nat, a < b
  PROVE  a * s \in Nat /\ a * s + s <= b * s
  OBVIOUS

(* Division with its remainder.                                             *)
LEMMA Division ==
  ASSUME NEW d \in Nat, NEW s \in Nat, s > 0
  PROVE  /\ d \div s \in Nat
         /\ \E r \in 0..(s - 1) : (d \div s) * s \in Nat /\ d = (d \div s) * s + r
<1> DEFINE k == d \div s
<1>1. k \in Nat OBVIOUS
<1>2. d = s * k + (d % s) OBVIOUS
<1>3. d % s \in 0..(s - 1) OBVIOUS
<1>4. PICK r \in 0..(s - 1) : d = s * k + r BY <1>2, <1>3
<1> HIDE DEF k
<1>5. s * k = k * s /\ k * s \in Nat BY <1>1
<1>6. \E t \in 0..(s - 1) : k * s \in Nat /\ d = k * s + t BY <1>4, <1>5
<1> QED BY <1>1, <1>6 DEF k

(* A list's blocks are as large as its index says, and a size is rounded up *)
(* to the size of the blocks of its list.                                   *)
LEMMA Widths ==
  /\ \A i \in Lists : Width(i) \in Nat /\ Width(i) > 0
  /\ \A n \in Requests :
       /\ n \in Nat /\ n > 0
       /\ S_freelist_index(n) \in Lists
       /\ S_round_up(n) = Width(S_freelist_index(n))
       /\ n <= S_round_up(n)
<1>1. ALIGN \in Nat /\ ALIGN > 0 /\ NFREELISTS \in Nat /\ NFREELISTS > 0
  BY SizeAssumption
<1>2. ASSUME NEW i \in Lists PROVE Width(i) \in Nat /\ Width(i) > 0
  <2>1. i \in Nat /\ i + 1 \in Nat /\ 0 < i + 1 BY <1>1 DEF Lists
  <2>2. 0 * ALIGN + ALIGN <= (i + 1) * ALIGN /\ (i + 1) * ALIGN \in Nat BY <1>1, <2>1, Multiples
  <2> QED BY <1>1, <2>2 DEF Width
<1>3. ASSUME NEW n \in Requests
      PROVE  /\ n \in Nat /\ n > 0
             /\ S_freelist_index(n) \in Lists
             /\ S_round_up(n) = Width(S_freelist_index(n))
             /\ n <= S_round_up(n)
  <2> DEFINE x == n + ALIGN - 1
             q == x \div ALIGN
  <2>1. n \in Nat /\ n > 0 /\ n <= NFREELISTS * ALIGN BY <1>1, RequestAssumption
  <2>2. x \in Nat BY <1>1, <2>1
  <2>3. PICK r \in 0..(ALIGN - 1) : q * ALIGN \in Nat /\ x = q * ALIGN + r
    <3> HIDE DEF x
    <3> QED BY <1>1, <2>2, Division
  <2>4. q \in Nat
    <3> HIDE DEF x
    <3> QED BY <1>1, <2>2
  <2>5. n <= q * ALIGN /\ q * ALIGN <= x
    <3> HIDE DEF q
    <3> QED BY <1>1, <2>1, <2>3
  <2>6. q # 0
    <3> HIDE DEF q
    <3> QED BY <1>1, <2>1, <2>5
  <2>7. q <= NFREELISTS
    <3> SUFFICES ASSUME NFREELISTS < q PROVE FALSE BY <1>1, <2>4
    <3> HIDE DEF q
    <3>1. NFREELISTS * ALIGN + ALIGN <= q * ALIGN /\ NFREELISTS * ALIGN \in Nat
      BY <1>1, <2>4, Multiples
    <3> QED BY <1>1, <2>1, <2>3, <2>5, <3>1
  <2>8. S_freelist_index(n) = q - 1 /\ S_round_up(n) = q * ALIGN
    BY DEF S_freelist_index, S_round_up
  <2>9. q - 1 \in Lists
    <3> HIDE DEF q
    <3> QED BY <1>1, <2>4, <2>6, <2>7 DEF Lists
  <2>10. Width(q - 1) = q * ALIGN
    <3> HIDE DEF q
    <3> QED BY <2>4 DEF Width
  <2> QED BY <2>1, <2>5, <2>8, <2>9, <2>10
<1> QED BY <1>2, <1>3

-----------------------------------------------------------------------------
(* What each step does to the pieces *)

(* A free block that is handed out. *)
LEMMA HandedOut ==
  ASSUME NEW lists, NEW lv, NEW lo, NEW hi, NEW chunks, Arranged(lists, lv, lo, hi, chunks),
         NEW n \in Requests, lists[S_freelist_index(n)] # <<>>
  PROVE  LET i == S_freelist_index(n)
             b == [addr |-> Head(lists[i]), size |-> n]
         IN  /\ Arranged([lists EXCEPT ![i] = Tail(@)], lv \cup {b}, lo, hi, chunks)
             /\ \A c \in lv : Apart(b.addr, S_round_up(n), c.addr, S_round_up(c.size))
<1> DEFINE i == S_freelist_index(n)
           b == [addr |-> Head(lists[i]), size |-> n]
           new == [lists EXCEPT ![i] = Tail(@)]
<1>1. i \in Lists /\ S_round_up(n) = Width(i) /\ \A j \in Lists : Width(j) \in Nat
  BY Widths
<1>2. Typed(lists, lv, lo, hi, chunks) BY DEF Arranged
<1>3. lists \in [Lists -> Seq(Nat)] /\ lists[i] \in Seq(Nat) /\ 1 \in DOMAIN lists[i]
      /\ lists[i][1] \in Nat /\ Head(lists[i]) = lists[i][1]
  BY <1>1, <1>2 DEF Typed
<1>4. b \in Blocks /\ b.addr = lists[i][1] /\ b.size = n BY <1>3 DEF Blocks
<1>5. new \in [Lists -> Seq(Nat)] BY <1>1, <1>3
<1>6. ASSUME NEW j \in Lists, NEW k \in DOMAIN new[j]
      PROVE  \E l \in DOMAIN lists[j] : new[j][k] = lists[j][l] /\ l = (IF i = j THEN k + 1 ELSE k)
                                       /\ k \in Nat /\ k > 0 /\ lists[j][l] \in Nat
  BY <1>1, <1>3
<1> HIDE DEF new, i
<1>7. Typed(new, lv \cup {b}, lo, hi, chunks) BY <1>2, <1>4, <1>5 DEF Typed
<1>8. ASSUME NEW c \in lv PROVE Apart(c.addr, S_round_up(c.size), b.addr, S_round_up(n))
  BY <1>1, <1>3, <1>4 DEF Arranged, LiveFreeApart
<1>9. LiveApart(lv \cup {b})
  <2>1. \A c \in lv : c.addr \in Nat /\ S_round_up(c.size) \in Nat
    BY <1>2, Widths DEF Typed, Blocks
  <2> QED BY <1>1, <1>3, <1>4, <1>8, <2>1 DEF LiveApart, Arranged, Apart
<1>10. FreeApart(new)
  <2> SUFFICES ASSUME NEW j \in Lists, NEW m \in Lists, NEW k \in DOMAIN new[j],
                      NEW l \in DOMAIN new[m], j # m \/ k # l
               PROVE  Apart(new[j][k], Width(j), new[m][l], Width(m))
    BY DEF FreeApart
  <2>1. PICK p \in DOMAIN lists[j] : new[j][k] = lists[j][p] /\ p = (IF i = j THEN k + 1 ELSE k) /\ k \in Nat
    BY <1>6
  <2>2. PICK q \in DOMAIN lists[m] : new[m][l] = lists[m][q] /\ q = (IF i = m THEN l + 1 ELSE l) /\ l \in Nat
    BY <1>6
  <2>3. j # m \/ p # q BY <2>1, <2>2
  <2> QED BY <2>1, <2>2, <2>3 DEF Arranged, FreeApart
<1>11. LiveFreeApart(new, lv \cup {b})
  <2> SUFFICES ASSUME NEW c \in lv \cup {b}, NEW j \in Lists, NEW k \in DOMAIN new[j]
               PROVE  Apart(c.addr, S_round_up(c.size), new[j][k], Width(j))
    BY DEF LiveFreeApart
  <2>1. PICK p \in DOMAIN lists[j] : new[j][k] = lists[j][p] /\ p = (IF i = j THEN k + 1 ELSE k) /\ k \in Nat /\ k > 0
    BY <1>6
  <2>2. CASE c \in lv BY <2>1, <2>2 DEF Arranged, LiveFreeApart
  <2>3. CASE c = b
    <3>1. i # j \/ 1 # p BY <2>1
    <3> QED BY <1>1, <1>3, <1>4, <2>1, <2>3, <3>1 DEF Arranged, FreeApart
  <2> QED BY <2>2, <2>3
<1>12. ChunkApart(new, lv \cup {b}, lo, hi)
  BY <1>1, <1>3, <1>4, <1>6 DEF Arranged, ChunkApart
<1>13. Within(new, lv \cup {b}, lo, hi, chunks)
  BY <1>1, <1>3, <1>4, <1>6 DEF Arranged, Within
<1>14. \A c \in lv : Apart(b.addr, S_round_up(n), c.addr, S_round_up(c.size))
  BY <1>8 DEF Apart
<1>15. Arranged(new, lv \cup {b}, lo, hi, chunks)
  BY <1>7, <1>9, <1>10, <1>11, <1>12, <1>13 DEF Arranged
<1> QED BY <1>14, <1>15 DEF new, i

(* A piece that becomes the first block of a list: one that was in use, or  *)
(* the whole rest of the chunk.                                             *)
LEMMA Pushed ==
  ASSUME NEW lists, NEW lv, NEW lo, NEW hi, NEW chunks, Arranged(lists, lv, lo, hi, chunks),
         NEW i \in Lists, NEW a \in Nat, NEW lv2 \in SUBSET lv, NEW lo2 \in {lo, hi},
         \A j \in Lists : \A k \in DOMAIN lists[j] : Apart(a, Width(i), lists[j][k], Width(j)),
         \A b \in lv2 : Apart(b.addr, S_round_up(b.size), a, Width(i)),
         Apart(a, Width(i), lo2, hi - lo2),
         Inside(a, Width(i), chunks)
  PROVE  Arranged([lists EXCEPT ![i] = <<a>> \o @], lv2, lo2, hi, chunks)
<1> DEFINE new == [lists EXCEPT ![i] = <<a>> \o @]
<1>1. \A j \in Lists : Width(j) \in Nat BY Widths
<1>2. Typed(lists, lv, lo, hi, chunks) BY DEF Arranged
<1>3. lists \in [Lists -> Seq(Nat)] BY <1>2 DEF Typed
<1>4. new \in [Lists -> Seq(Nat)] BY <1>3
<1>5. ASSUME NEW j \in Lists, NEW k \in DOMAIN new[j]
      PROVE  \/ j = i /\ k = 1 /\ new[j][k] = a
             \/ \E l \in DOMAIN lists[j] :
                  /\ new[j][k] = lists[j][l] /\ l \in Nat /\ lists[j][l] \in Nat
                  /\ k = (IF j = i THEN l + 1 ELSE l)
  <2>1. CASE j # i BY <1>3, <2>1
  <2>2. CASE j = i
    <3>1. lists[i] \in Seq(Nat) /\ new[i] = <<a>> \o lists[i] BY <1>3
    <3>2. k \in 1..(1 + Len(lists[i])) BY <2>2, <3>1
    <3>3. CASE k = 1 BY <2>2, <3>1, <3>3
    <3>4. CASE k # 1
      <4>1. k - 1 \in DOMAIN lists[i] /\ k - 1 \in Nat BY <3>1, <3>2, <3>4
      <4>2. new[i][k] = lists[i][k - 1] BY <3>1, <3>2, <3>4
      <4>3. lists[i][k - 1] \in Nat BY <3>1, <4>1
      <4>4. k = (k - 1) + 1 BY <3>2
      <4> QED BY <2>2, <4>1, <4>2, <4>3, <4>4
    <3> QED BY <3>3, <3>4
  <2> QED BY <2>1, <2>2
<1> HIDE DEF new
<1>6. Typed(new, lv2, lo2, hi, chunks) BY <1>2, <1>4 DEF Typed
<1>7. LiveApart(lv2) BY DEF Arranged, LiveApart
<1>8. FreeApart(new)
  <2> SUFFICES ASSUME NEW j \in Lists, NEW m \in Lists, NEW k \in DOMAIN new[j],
                      NEW l \in DOMAIN new[m], j # m \/ k # l
               PROVE  Apart(new[j][k], Width(j), new[m][l], Width(m))
    BY DEF FreeApart
  <2>1. CASE j = i /\ k = 1 /\ new[j][k] = a
    <3>1. PICK q \in DOMAIN lists[m] : new[m][l] = lists[m][q] BY <1>5, <2>1
    <3> QED BY <2>1, <3>1
  <2>2. CASE ~(j = i /\ k = 1 /\ new[j][k] = a)
    <3>1. PICK p \in DOMAIN lists[j] :
            /\ new[j][k] = lists[j][p] /\ p \in Nat /\ lists[j][p] \in Nat
            /\ k = (IF j = i THEN p + 1 ELSE p)
      BY <1>5, <2>2
    <3>2. CASE m = i /\ l = 1 /\ new[m][l] = a
      BY <1>1, <3>1, <3>2 DEF Apart
    <3>3. CASE ~(m = i /\ l = 1 /\ new[m][l] = a)
      <4>1. PICK q \in DOMAIN lists[m] :
              /\ new[m][l] = lists[m][q] /\ q \in Nat
              /\ l = (IF m = i THEN q + 1 ELSE q)
        BY <1>5, <3>3
      <4>2. j # m \/ p # q BY <3>1, <4>1
      <4> QED BY <3>1, <4>1, <4>2 DEF Arranged, FreeApart
    <3> QED BY <3>2, <3>3
  <2> QED BY <2>1, <2>2
<1>9. LiveFreeApart(new, lv2)
  <2> SUFFICES ASSUME NEW b \in lv2, NEW j \in Lists, NEW k \in DOMAIN new[j]
               PROVE  Apart(b.addr, S_round_up(b.size), new[j][k], Width(j))
    BY DEF LiveFreeApart
  <2> QED BY <1>5 DEF Arranged, LiveFreeApart
<1>10. ChunkApart(new, lv2, lo2, hi)
  <2>1. ASSUME NEW b \in lv2 PROVE Apart(b.addr, S_round_up(b.size), lo2, hi - lo2)
    <3>1. b \in lv /\ b.addr \in Nat /\ S_round_up(b.size) \in Nat
      BY <1>2, Widths DEF Typed, Blocks
    <3> QED BY <1>2, <3>1 DEF Arranged, ChunkApart, Apart, Typed
  <2>2. ASSUME NEW j \in Lists, NEW k \in DOMAIN new[j]
        PROVE  Apart(new[j][k], Width(j), lo2, hi - lo2)
    <3>1. CASE j = i /\ new[j][k] = a BY <3>1
    <3>2. CASE ~(j = i /\ new[j][k] = a)
      <4>1. PICK p \in DOMAIN lists[j] : new[j][k] = lists[j][p] /\ lists[j][p] \in Nat
        BY <1>5, <3>2
      <4> QED BY <1>1, <1>2, <4>1 DEF Arranged, ChunkApart, Apart, Typed
    <3> QED BY <3>1, <3>2
  <2> QED BY <2>1, <2>2 DEF ChunkApart
<1>11. Within(new, lv2, lo2, hi, chunks)
  <2>1. ASSUME NEW j \in Lists, NEW k \in DOMAIN new[j]
        PROVE  Inside(new[j][k], Width(j), chunks)
    BY <1>5 DEF Arranged, Within
  <2> QED BY <2>1 DEF Arranged, Within
<1>12. Arranged(new, lv2, lo2, hi, chunks)
  BY <1>6, <1>7, <1>8, <1>9, <1>10, <1>11 DEF Arranged
<1> QED BY <1>12 DEF new

(* A block that is given back.                                              *)
LEMMA GivenBack ==
  ASSUME NEW lists, NEW lv, NEW lo, NEW hi, NEW chunks, Arranged(lists, lv, lo, hi, chunks),
         NEW b \in lv
  PROVE  Arranged([lists EXCEPT ![S_freelist_index(b.size)] = <<b.addr>> \o @],
                  lv \ {b}, lo, hi, chunks)
<1> DEFINE i == S_freelist_index(b.size)
<1>1. b.addr \in Nat /\ b.size \in Requests BY DEF Arranged, Typed, Blocks
<1>2. i \in Lists /\ S_round_up(b.size) = Width(i) BY <1>1, Widths
<1> HIDE DEF i
<1>3. \A j \in Lists : \A k \in DOMAIN lists[j] :
        Apart(b.addr, Width(i), lists[j][k], Width(j))
  BY <1>2 DEF Arranged, LiveFreeApart
<1>4. \A c \in lv \ {b} : Apart(c.addr, S_round_up(c.size), b.addr, Width(i))
  BY <1>2 DEF Arranged, LiveApart
<1>5. Apart(b.addr, Width(i), lo, hi - lo) BY <1>2 DEF Arranged, ChunkApart
<1>6. Inside(b.addr, Width(i), chunks) BY <1>2 DEF Arranged, Within
<1>7. Arranged([lists EXCEPT ![i] = <<b.addr>> \o @], lv \ {b}, lo, hi, chunks)
  BY <1>1, <1>2, <1>3, <1>4, <1>5, <1>6, Pushed
<1> QED BY <1>7 DEF i

(* The rest of the chunk becomes a block.                                   *)
LEMMA Filed ==
  ASSUME NEW lists, NEW lv, NEW lo, NEW hi, NEW chunks, Arranged(lists, lv, lo, hi, chunks),
         NEW i \in Lists, Width(i) = hi - lo
  PROVE  Arranged([lists EXCEPT ![i] = <<lo>> \o @], lv, hi, hi, chunks)
<1>1. Typed(lists, lv, lo, hi, chunks) /\ lo \in Nat /\ hi \in Nat /\ lo <= hi
      /\ lists \in [Lists -> Seq(Nat)]
  BY DEF Arranged, Typed
<1>2. \A j \in Lists : Width(j) \in Nat BY Widths
<1>3. ASSUME NEW j \in Lists, NEW k \in DOMAIN lists[j]
      PROVE  Apart(lo, Width(i), lists[j][k], Width(j))
  <2>1. lists[j][k] \in Nat BY <1>1
  <2>2. Apart(lists[j][k], Width(j), lo, hi - lo) BY DEF Arranged, ChunkApart
  <2> QED BY <1>1, <1>2, <2>1, <2>2 DEF Apart
<1>4. \A b \in lv : Apart(b.addr, S_round_up(b.size), lo, Width(i))
  BY DEF Arranged, ChunkApart
<1>5. Apart(lo, Width(i), hi, hi - hi) BY <1>1 DEF Apart
<1>6. Inside(lo, Width(i), chunks)
  <2>1. Width(i) > 0 BY Widths
  <2>2. lo # hi BY <1>1, <2>1
  <2> QED BY <2>2 DEF Arranged, Within
<1> QED BY <1>1, <1>3, <1>4, <1>5, <1>6, Pushed

(* Blocks that are taken off their lists.                                   *)
LEMMA Forgotten ==
  ASSUME NEW lists, NEW lv, NEW lo, NEW hi, NEW chunks, Arranged(lists, lv, lo, hi, chunks),
         NEW size
  PROVE  Arranged(TakenOff(lists, size), lv, lo, hi, chunks)
<1> DEFINE new == TakenOff(lists, size)
<1>1. \A j \in Lists : Width(j) \in Nat BY Widths
<1>2. Typed(lists, lv, lo, hi, chunks) BY DEF Arranged
<1>3. lists \in [Lists -> Seq(Nat)] BY <1>2 DEF Typed
<1>4. ASSUME NEW j \in Lists
      PROVE  \/ new[j] = lists[j]
             \/ lists[j] # <<>> /\ new[j] = Tail(lists[j])
  BY DEF TakenOff
<1>5. new \in [Lists -> Seq(Nat)] BY <1>3 DEF TakenOff
<1>6. ASSUME NEW j \in Lists
      PROVE  \E d \in {0, 1} : \A k \in DOMAIN new[j] :
               k \in Nat /\ k + d \in DOMAIN lists[j] /\ new[j][k] = lists[j][k + d]
  <2>1. lists[j] \in Seq(Nat) BY <1>3
  <2>2. CASE new[j] = lists[j]
    <3>1. \A k \in DOMAIN new[j] : k \in Nat /\ k + 0 = k BY <2>1, <2>2
    <3> QED BY <2>2, <3>1
  <2>3. CASE lists[j] # <<>> /\ new[j] = Tail(lists[j])
    <3>1. \A k \in DOMAIN new[j] :
            k \in Nat /\ k + 1 \in DOMAIN lists[j] /\ new[j][k] = lists[j][k + 1]
      BY <2>1, <2>3
    <3> QED BY <3>1
  <2> QED BY <1>4, <2>2, <2>3
<1> HIDE DEF new
<1>7. Typed(new, lv, lo, hi, chunks) BY <1>2, <1>5 DEF Typed
<1>8. FreeApart(new)
  <2> SUFFICES ASSUME NEW j \in Lists, NEW m \in Lists, NEW k \in DOMAIN new[j],
                      NEW l \in DOMAIN new[m], j # m \/ k # l
               PROVE  Apart(new[j][k], Width(j), new[m][l], Width(m))
    BY DEF FreeApart
  <2>1. PICK d \in {0, 1} : \A p \in DOMAIN new[j] :
          p \in Nat /\ p + d \in DOMAIN lists[j] /\ new[j][p] = lists[j][p + d]
    BY <1>6
  <2>2. PICK d2 \in {0, 1} : (j = m => d2 = d) /\ \A p \in DOMAIN new[m] :
          p \in Nat /\ p + d2 \in DOMAIN lists[m] /\ new[m][p] = lists[m][p + d2]
    <3>1. CASE j = m BY <2>1, <3>1
    <3>2. CASE j # m BY <1>6, <3>2
    <3> QED BY <3>1, <3>2
  <2>3. j # m \/ k + d # l + d2 BY <2>1, <2>2
  <2> QED BY <2>1, <2>2, <2>3 DEF Arranged, FreeApart
<1>9. LiveFreeApart(new, lv) BY <1>6 DEF Arranged, LiveFreeApart
<1>10. ChunkApart(new, lv, lo, hi) BY <1>6 DEF Arranged, ChunkApart
<1>11. Within(new, lv, lo, hi, chunks) BY <1>6 DEF Arranged, Within
<1>12. Arranged(new, lv, lo, hi, chunks)
  BY <1>7, <1>8, <1>9, <1>10, <1>11 DEF Arranged
<1> QED BY <1>12 DEF new

(* A new chunk that shares no byte with the others.                         *)
LEMMA Provided ==
  ASSUME NEW lists, NEW lv, NEW top, NEW chunks, Arranged(lists, lv, top, top, chunks),
         NEW new \in [lo : Nat, hi : Nat], new.lo <= new.hi,
         \A c \in chunks : c.hi <= new.lo \/ new.hi <= c.lo
  PROVE  Arranged(lists, lv, new.lo, new.hi, chunks \cup {new})
<1>1. Typed(lists, lv, top, top, chunks) BY DEF Arranged
<1>2. new.lo \in Nat /\ new.hi \in Nat /\ \A c \in chunks : c.lo \in Nat /\ c.hi \in Nat
  BY <1>1 DEF Typed
<1>3. Typed(lists, lv, new.lo, new.hi, chunks \cup {new}) BY <1>1, <1>2 DEF Typed
<1>4. ASSUME NEW a \in Nat, NEW w \in Nat, Inside(a, w, chunks)
      PROVE  Apart(a, w, new.lo, new.hi - new.lo) /\ Inside(a, w, chunks \cup {new})
  <2>1. PICK c \in chunks : c.lo <= a /\ a + w <= c.hi BY <1>4 DEF Inside
  <2>2. a + w <= new.lo \/ new.hi <= a BY <1>2, <2>1
  <2> QED BY <1>2, <2>1, <2>2 DEF Apart, Inside
<1>5. ASSUME NEW b \in lv
      PROVE  /\ Apart(b.addr, S_round_up(b.size), new.lo, new.hi - new.lo)
             /\ Inside(b.addr, S_round_up(b.size), chunks \cup {new})
  <2>1. b.addr \in Nat /\ S_round_up(b.size) \in Nat BY <1>1, Widths DEF Typed, Blocks
  <2>2. Inside(b.addr, S_round_up(b.size), chunks) BY DEF Arranged, Within
  <2> QED BY <1>4, <2>1, <2>2
<1>6. ASSUME NEW i \in Lists, NEW k \in DOMAIN lists[i]
      PROVE  /\ Apart(lists[i][k], Width(i), new.lo, new.hi - new.lo)
             /\ Inside(lists[i][k], Width(i), chunks \cup {new})
  <2>1. lists[i][k] \in Nat /\ Width(i) \in Nat BY <1>1, Widths DEF Typed
  <2>2. Inside(lists[i][k], Width(i), chunks) BY DEF Arranged, Within
  <2> QED BY <1>4, <2>1, <2>2
<1>7. ChunkApart(lists, lv, new.lo, new.hi) BY <1>5, <1>6 DEF ChunkApart
<1>8. Inside(new.lo, new.hi - new.lo, chunks \cup {new})
  <2>1. new.lo <= new.lo /\ new.lo + (new.hi - new.lo) <= new.hi BY <1>2
  <2> QED BY <2>1 DEF Inside
<1>9. Within(lists, lv, new.lo, new.hi, chunks \cup {new}) BY <1>5, <1>6, <1>8 DEF Within
<1> QED BY <1>3, <1>7, <1>9 DEF Arranged

(* Blocks carved from the front of the chunk: the first is handed out, the  *)
(* others are the new list.                                                 *)
Carving(n, m, lists, lo) ==
  IF m = 1 THEN lists
  ELSE [lists EXCEPT ![S_freelist_index(n)] = Linked(lo, S_round_up(n), m)]

LEMMA Steps ==
  ASSUME NEW size \in Nat, NEW m \in Nat, m > 0, NEW lo \in Nat
  PROVE  /\ size * m \in Nat /\ size <= size * m
         /\ \A k \in 1..(m - 1) :
              /\ lo + k * size \in Nat
              /\ lo + size <= lo + k * size
              /\ lo + k * size + size <= lo + size * m
         /\ \A k, l \in 1..(m - 1) : k < l => lo + k * size + size <= lo + l * size
<1>1. size * m = m * size /\ m * size \in Nat BY Multiples
<1>2. 0 * size = 0 /\ 0 * size + size <= m * size BY Multiples
<1>3. ASSUME NEW k \in 1..(m - 1)
      PROVE  /\ lo + k * size \in Nat
             /\ lo + size <= lo + k * size
             /\ lo + k * size + size <= lo + size * m
  <2>1. k \in Nat /\ 0 < k /\ k < m OBVIOUS
  <2>2. k * size \in Nat /\ 0 * size + size <= k * size /\ k * size + size <= m * size
    BY <2>1, Multiples
  <2> QED BY <1>1, <1>2, <2>2
<1>4. ASSUME NEW k \in 1..(m - 1), NEW l \in 1..(m - 1), k < l
      PROVE  lo + k * size + size <= lo + l * size
  <2>1. k \in Nat /\ l \in Nat OBVIOUS
  <2>2. k * size \in Nat /\ l * size \in Nat /\ k * size + size <= l * size
    BY <1>4, <2>1, Multiples
  <2> QED BY <2>2
<1> QED BY <1>1, <1>2, <1>3, <1>4

(* What is apart from a piece is apart from each part of it.                *)
LEMMA PartOf ==
  ASSUME NEW x \in Nat, NEW w \in Nat, NEW lo \in Nat, NEW hi \in Nat,
         NEW a \in Nat, NEW s \in Nat, Apart(x, w, lo, hi - lo), lo <= a, a + s <= hi
  PROVE  Apart(x, w, a, s)
  BY DEF Apart

LEMMA Carved ==
  ASSUME NEW lists, NEW lv, NEW lo, NEW hi, NEW chunks, Arranged(lists, lv, lo, hi, chunks),
         NEW n \in Requests, lists[S_freelist_index(n)] = <<>>,
         NEW m \in Nat, m > 0, lo + S_round_up(n) * m <= hi
  PROVE  LET b == [addr |-> lo, size |-> n]
         IN  /\ Arranged(Carving(n, m, lists, lo), lv \cup {b},
                         lo + S_round_up(n) * m, hi, chunks)
             /\ \A c \in lv : Apart(b.addr, S_round_up(n), c.addr, S_round_up(c.size))
<1> DEFINE i == S_freelist_index(n)
           size == S_round_up(n)
           b == [addr |-> lo, size |-> n]
           new == Carving(n, m, lists, lo)
           top == lo + size * m
<1>1. i \in Lists /\ size = Width(i) /\ size \in Nat /\ size > 0 /\ \A j \in Lists : Width(j) \in Nat
  BY Widths
<1>2. Typed(lists, lv, lo, hi, chunks) /\ lists \in [Lists -> Seq(Nat)]
      /\ lo \in Nat /\ hi \in Nat /\ lo <= hi /\ chunks \subseteq [lo : Nat, hi : Nat]
  BY DEF Arranged, Typed
<1>3. b \in Blocks /\ b.addr = lo /\ b.size = n BY <1>2 DEF Blocks
<1>4. /\ top \in Nat /\ lo + size <= top /\ top <= hi
      /\ \A k \in 1..(m - 1) :
           lo + k * size \in Nat /\ lo + size <= lo + k * size /\ lo + k * size + size <= top
      /\ \A k, l \in 1..(m - 1) : k < l => lo + k * size + size <= lo + l * size
  <2> HIDE DEF size, i
  <2>1. /\ size * m \in Nat /\ size <= size * m
        /\ \A k \in 1..(m - 1) :
             /\ lo + k * size \in Nat
             /\ lo + size <= lo + k * size
             /\ lo + k * size + size <= lo + size * m
        /\ \A k, l \in 1..(m - 1) : k < l => lo + k * size + size <= lo + l * size
    BY <1>1, <1>2, Steps
  <2>2. top \in Nat /\ lo + size <= top BY <1>1, <1>2, <2>1
  <2>3. top <= hi BY DEF size
  <2> QED BY <2>1, <2>2, <2>3
<1>5. Linked(lo, size, m) \in Seq(Nat)
  <2>1. \A k \in 1..(m - 1) : lo + k * size \in Nat BY <1>4
  <2>2. m - 1 \in Nat OBVIOUS
  <2> HIDE DEF size
  <2> QED BY <2>1, <2>2 DEF Linked
<1>6. new \in [Lists -> Seq(Nat)] BY <1>2, <1>5 DEF Carving
<1>7. \A j \in Lists : j # i => new[j] = lists[j] BY <1>2 DEF Carving
<1>8. \A k \in DOMAIN new[i] : k \in 1..(m - 1) /\ new[i][k] = lo + k * size
  <2>1. CASE m = 1
    <3>1. new[i] = <<>> BY <2>1 DEF Carving
    <3> QED BY <3>1
  <2>2. CASE m # 1
    <3>1. new[i] = Linked(lo, size, m) BY <1>1, <1>2, <2>2 DEF Carving
    <3>2. DOMAIN Linked(lo, size, m) = 1..(m - 1)
          /\ \A k \in 1..(m - 1) : Linked(lo, size, m)[k] = lo + k * size
      BY DEF Linked
    <3> HIDE DEF new, size
    <3> QED BY <3>1, <3>2
  <2> QED BY <2>1, <2>2
<1> HIDE DEF new, i, size, top
(* What lies in the front of the chunk is apart from what was there. *)
<1>9. ASSUME NEW a \in Nat, lo <= a, a + size <= top
      PROVE  /\ \A c \in lv : Apart(c.addr, S_round_up(c.size), a, size)
             /\ \A j \in Lists : \A k \in DOMAIN lists[j] : Apart(lists[j][k], Width(j), a, size)
             /\ Apart(a, size, top, hi - top)
             /\ Inside(a, size, chunks)
  <2>1. a + size <= hi BY <1>1, <1>2, <1>4, <1>9
  <2>2. ASSUME NEW c \in lv PROVE Apart(c.addr, S_round_up(c.size), a, size)
    <3>1. c.addr \in Nat /\ S_round_up(c.size) \in Nat BY <1>2, Widths DEF Typed, Blocks
    <3>2. Apart(c.addr, S_round_up(c.size), lo, hi - lo) BY DEF Arranged, ChunkApart
    <3> QED BY <1>1, <1>2, <1>9, <2>1, <3>1, <3>2, PartOf
  <2>3. ASSUME NEW j \in Lists, NEW k \in DOMAIN lists[j]
        PROVE  Apart(lists[j][k], Width(j), a, size)
    <3>1. lists[j][k] \in Nat /\ Width(j) \in Nat BY <1>1, <1>2
    <3>2. Apart(lists[j][k], Width(j), lo, hi - lo) BY DEF Arranged, ChunkApart
    <3> QED BY <1>1, <1>2, <1>9, <2>1, <3>1, <3>2, PartOf
  <2>4. Apart(a, size, top, hi - top) BY <1>9 DEF Apart
  <2>5. lo # hi BY <1>1, <1>2, <1>4
  <2>6. PICK c \in chunks : c.lo <= lo /\ lo + (hi - lo) <= c.hi
    BY <2>5 DEF Arranged, Within, Inside
  <2>7. c.lo \in Nat /\ c.hi \in Nat BY <1>2
  <2>8. c.lo <= a /\ a + size <= c.hi BY <1>1, <1>2, <1>9, <2>1, <2>6, <2>7
  <2>9. Inside(a, size, chunks) BY <2>8 DEF Inside
  <2> QED BY <2>2, <2>3, <2>4, <2>9
<1>10. ASSUME NEW k \in DOMAIN new[i]
       PROVE  new[i][k] \in Nat /\ lo + size <= new[i][k] /\ new[i][k] + size <= top
  BY <1>4, <1>8
<1>11. Typed(new, lv \cup {b}, top, hi, chunks) BY <1>2, <1>3, <1>4, <1>6 DEF Typed
<1>12. ASSUME NEW c \in lv PROVE Apart(c.addr, S_round_up(c.size), lo, size)
  BY <1>2, <1>4, <1>9
<1>13. ASSUME NEW c \in lv PROVE Apart(lo, size, c.addr, S_round_up(c.size))
  BY <1>12 DEF Apart
<1>14. LiveApart(lv \cup {b})
  <2> SUFFICES ASSUME NEW c \in lv \cup {b}, NEW d \in lv \cup {b}, c # d
               PROVE  Apart(c.addr, S_round_up(c.size), d.addr, S_round_up(d.size))
    BY DEF LiveApart
  <2>1. CASE c \in lv /\ d \in lv BY <2>1 DEF Arranged, LiveApart
  <2>2. CASE c \in lv /\ d = b BY <1>3, <1>12, <2>2 DEF size
  <2>3. CASE c = b /\ d \in lv BY <1>3, <1>13, <2>3 DEF size
  <2> QED BY <2>1, <2>2, <2>3
<1>15. FreeApart(new)
  <2> SUFFICES ASSUME NEW j \in Lists, NEW p \in Lists, NEW k \in DOMAIN new[j],
                      NEW l \in DOMAIN new[p], j # p \/ k # l
               PROVE  Apart(new[j][k], Width(j), new[p][l], Width(p))
    BY DEF FreeApart
  <2>1. CASE j # i /\ p # i BY <1>7, <2>1 DEF Arranged, FreeApart
  <2>2. CASE j # i /\ p = i
    <3>1. new[i][l] \in Nat /\ lo <= new[i][l] /\ new[i][l] + size <= top
      BY <1>1, <1>2, <1>10, <2>2
    <3>2. Apart(lists[j][k], Width(j), new[i][l], size) BY <1>7, <1>9, <2>2, <3>1
    <3> QED BY <1>1, <1>7, <2>2, <3>2
  <2>3. CASE j = i /\ p # i
    <3>1. new[i][k] \in Nat /\ lo <= new[i][k] /\ new[i][k] + size <= top
      BY <1>1, <1>2, <1>10, <2>3
    <3>2. Apart(lists[p][l], Width(p), new[i][k], size) BY <1>7, <1>9, <2>3, <3>1
    <3> QED BY <1>1, <1>7, <2>3, <3>2 DEF Apart
  <2>4. CASE j = i /\ p = i
    <3>1. k \in 1..(m - 1) /\ l \in 1..(m - 1) /\ new[i][k] = lo + k * size /\ new[i][l] = lo + l * size
      BY <1>8, <2>4
    <3>2. k < l \/ l < k BY <2>4, <3>1
    <3>3. new[i][k] + size <= new[i][l] \/ new[i][l] + size <= new[i][k] BY <1>4, <3>1, <3>2
    <3> QED BY <1>1, <2>4, <3>3 DEF Apart
  <2> QED BY <2>1, <2>2, <2>3, <2>4
<1>16. LiveFreeApart(new, lv \cup {b})
  <2> SUFFICES ASSUME NEW c \in lv \cup {b}, NEW j \in Lists, NEW k \in DOMAIN new[j]
               PROVE  Apart(c.addr, S_round_up(c.size), new[j][k], Width(j))
    BY DEF LiveFreeApart
  <2>1. CASE c \in lv /\ j # i BY <1>7, <2>1 DEF Arranged, LiveFreeApart
  <2>2. CASE c \in lv /\ j = i
    <3>1. new[i][k] \in Nat /\ lo <= new[i][k] /\ new[i][k] + size <= top
      BY <1>1, <1>2, <1>10, <2>2
    <3> QED BY <1>1, <1>9, <2>2, <3>1
  <2>3. CASE c = b /\ j # i
    <3>1. lo \in Nat /\ lo <= lo /\ lo + size <= top BY <1>2, <1>4
    <3>2. new[j] = lists[j] /\ k \in DOMAIN lists[j] BY <1>7, <2>3
    <3>3. Apart(lists[j][k], Width(j), lo, size) BY <1>9, <2>3, <3>1, <3>2
    <3> QED BY <1>3, <2>3, <3>2, <3>3 DEF Apart, size
  <2>4. CASE c = b /\ j = i
    <3>1. lo + size <= new[i][k] BY <1>10, <2>4
    <3> QED BY <1>3, <2>4, <3>1 DEF Apart, size
  <2> QED BY <2>1, <2>2, <2>3, <2>4
<1>17. lo <= top /\ hi - top \in Nat /\ top + (hi - top) <= hi BY <1>1, <1>2, <1>4
<1>18. ChunkApart(new, lv \cup {b}, top, hi)
  <2>1. ASSUME NEW c \in lv \cup {b} PROVE Apart(c.addr, S_round_up(c.size), top, hi - top)
    <3>1. CASE c \in lv
      <4>1. c.addr \in Nat /\ S_round_up(c.size) \in Nat BY <1>2, <3>1, Widths DEF Typed, Blocks
      <4>2. Apart(c.addr, S_round_up(c.size), lo, hi - lo) BY <3>1 DEF Arranged, ChunkApart
      <4> QED BY <1>2, <1>4, <1>17, <4>1, <4>2, PartOf
    <3>2. CASE c = b
      <4>1. Apart(lo, size, top, hi - top) BY <1>4 DEF Apart
      <4> QED BY <1>3, <3>2, <4>1 DEF size
    <3> QED BY <3>1, <3>2
  <2>2. ASSUME NEW j \in Lists, NEW k \in DOMAIN new[j]
        PROVE  Apart(new[j][k], Width(j), top, hi - top)
    <3>1. CASE j # i
      <4>1. lists[j][k] \in Nat /\ Width(j) \in Nat BY <1>1, <1>2, <1>7, <3>1
      <4>2. Apart(lists[j][k], Width(j), lo, hi - lo) BY <1>7, <3>1 DEF Arranged, ChunkApart
      <4>3. Apart(lists[j][k], Width(j), top, hi - top) BY <1>2, <1>4, <4>1, <4>2, <1>17, PartOf
      <4> QED BY <1>7, <3>1, <4>3
    <3>2. CASE j = i BY <1>1, <1>10, <3>2 DEF Apart
    <3> QED BY <3>1, <3>2
  <2> QED BY <2>1, <2>2 DEF ChunkApart
<1>19. Within(new, lv \cup {b}, top, hi, chunks)
  <2>1. ASSUME NEW c \in lv \cup {b} PROVE Inside(c.addr, S_round_up(c.size), chunks)
    <3>1. CASE c \in lv BY <3>1 DEF Arranged, Within
    <3>2. CASE c = b
      <4>1. Inside(lo, size, chunks) BY <1>2, <1>4, <1>9
      <4> QED BY <1>3, <3>2, <4>1 DEF size
    <3> QED BY <3>1, <3>2
  <2>2. ASSUME NEW j \in Lists, NEW k \in DOMAIN new[j]
        PROVE  Inside(new[j][k], Width(j), chunks)
    <3>1. CASE j # i BY <1>7, <3>1 DEF Arranged, Within
    <3>2. CASE j = i
      <4>1. new[i][k] \in Nat /\ lo <= new[i][k] /\ new[i][k] + size <= top
        BY <1>1, <1>2, <1>10, <3>2
      <4> QED BY <1>1, <1>9, <3>2, <4>1
    <3> QED BY <3>1, <3>2
  <2>3. top = hi \/ Inside(top, hi - top, chunks)
    <3>1. lo # hi BY <1>1, <1>2, <1>4
    <3>2. PICK c \in chunks : c.lo <= lo /\ lo + (hi - lo) <= c.hi
      BY <3>1 DEF Arranged, Within, Inside
    <3>3. c.lo \in Nat /\ c.hi \in Nat BY <1>2
    <3>4. c.lo <= top /\ top + (hi - top) <= c.hi BY <1>1, <1>2, <1>4, <1>17, <3>2, <3>3
    <3> QED BY <3>4 DEF Inside
  <2> QED BY <2>1, <2>2, <2>3 DEF Within
<1>20. Arranged(new, lv \cup {b}, top, hi, chunks)
  BY <1>11, <1>14, <1>15, <1>16, <1>18, <1>19 DEF Arranged
<1> QED BY <1>3, <1>13, <1>20 DEF new, size, top

-----------------------------------------------------------------------------
(* The arrangement is kept *)

Whole(bytes) == \E k \in Nat : bytes = k * ALIGN

Inv ==
  /\ TypeOK
  /\ crashed => failed
  /\ ~crashed =>
       /\ Arranged(S_free_list, live, S_start_free, S_end_free, heap)
       /\ Whole(S_end_free - S_start_free)

(* Blocks taken off a whole number of units leave a whole number.           *)
LEMMA WholeRest ==
  ASSUME NEW k \in Nat, NEW q \in Nat, NEW m \in Nat, (q * ALIGN) * m <= k * ALIGN
  PROVE  Whole(k * ALIGN - (q * ALIGN) * m)
<1>1. ALIGN \in Nat /\ ALIGN > 0 BY SizeAssumption
<1>2. (q * ALIGN) * m = (q * m) * ALIGN /\ q * m \in Nat BY <1>1
<1>3. q * m <= k
  <2> SUFFICES ASSUME k < q * m PROVE FALSE BY <1>2
  <2>1. k * ALIGN \in Nat /\ k * ALIGN + ALIGN <= (q * m) * ALIGN BY <1>1, <1>2, Multiples
  <2> QED BY <1>1, <1>2, <2>1
<1>4. k - q * m \in Nat /\ k * ALIGN - (q * ALIGN) * m = (k - q * m) * ALIGN
  BY <1>1, <1>2, <1>3
<1> QED BY <1>4 DEF Whole

(* malloc is asked for a whole number of units, and for more than S_refill  *)
(* carves at once.                                                          *)
LEMMA Asked ==
  ASSUME NEW n \in Requests, S_heap_size \in Nat
  PROVE  /\ AllocBytes(S_round_up(n)) \in Nat
         /\ S_round_up(n) * NObjs <= AllocBytes(S_round_up(n))
         /\ Whole(AllocBytes(S_round_up(n)) - S_round_up(n) * NObjs)
<1>1. ALIGN \in Nat /\ ALIGN > 0 /\ HeapShare \in Nat /\ HeapShare > 0 /\ NObjs \in Nat
  BY SizeAssumption
<1>2. PICK q \in Nat : S_round_up(n) = q * ALIGN
  <2>1. S_freelist_index(n) + 1 \in Nat BY Widths DEF Lists
  <2> QED BY <2>1, Widths DEF Width
<1>3. PICK r \in Nat : S_round_up(S_heap_size \div HeapShare) = r * ALIGN
  <2> DEFINE h == S_heap_size \div HeapShare
  <2>1. h \in Nat BY <1>1
  <2> HIDE DEF h
  <2>2. h + ALIGN - 1 \in Nat BY <1>1, <2>1
  <2>3. (h + ALIGN - 1) \div ALIGN \in Nat BY <1>1, <2>2
  <2>4. S_round_up(h) = ((h + ALIGN - 1) \div ALIGN) * ALIGN BY DEF S_round_up
  <2>5. \E r \in Nat : S_round_up(h) = r * ALIGN BY <2>3, <2>4
  <2> QED BY <2>5 DEF h
<1>4. q * ALIGN \in Nat /\ r * ALIGN \in Nat /\ (q * ALIGN) * NObjs \in Nat
      /\ (q * ALIGN) * NObjs = (q * NObjs) * ALIGN /\ q * NObjs \in Nat
  BY <1>1
<1>5. AllocBytes(S_round_up(n)) = 2 * (q * ALIGN) * NObjs + r * ALIGN
  BY <1>2, <1>3 DEF AllocBytes
<1>6. 2 * (q * ALIGN) * NObjs = (q * ALIGN) * NObjs + (q * ALIGN) * NObjs BY <1>1, <1>4
<1>7. AllocBytes(S_round_up(n)) - S_round_up(n) * NObjs = (q * NObjs + r) * ALIGN
  <2>1. (q * NObjs + r) * ALIGN = (q * NObjs) * ALIGN + r * ALIGN BY <1>1, <1>4
  <2> QED BY <1>2, <1>4, <1>5, <1>6, <2>1
<1>8. q * NObjs + r \in Nat BY <1>4
<1>9. Whole(AllocBytes(S_round_up(n)) - S_round_up(n) * NObjs) BY <1>7, <1>8 DEF Whole
<1> QED BY <1>2, <1>4, <1>5, <1>6, <1>9

(* As many blocks as the rest of the chunk has room for fit into it.        *)
LEMMA Fits ==
  ASSUME NEW n \in Requests, S_start_free \in Nat, S_end_free \in Nat,
         BytesLeft >= S_round_up(n)
  PROVE  LET m == ObjsInChunk(S_round_up(n))
         IN  m \in Nat /\ m > 0 /\ S_round_up(n) * m <= BytesLeft
<1> DEFINE size == S_round_up(n)
<1>1. size \in Nat /\ size > 0 BY Widths
<1>2. BytesLeft \in Nat BY <1>1 DEF BytesLeft
<1>3. NObjs \in Nat /\ NObjs > 0 BY SizeAssumption
<1>4. CASE BytesLeft >= size * NObjs BY <1>1, <1>2, <1>3, <1>4 DEF ObjsInChunk
<1>5. CASE ~(BytesLeft >= size * NObjs)
  <2> DEFINE m == BytesLeft \div size
  <2>1. ObjsInChunk(size) = m BY <1>5 DEF ObjsInChunk
  <2> HIDE DEF size
  <2>2. m \in Nat /\ BytesLeft = size * m + (BytesLeft % size) /\ BytesLeft % size \in 0..(size - 1)
    BY <1>1, <1>2
  <2>3. PICK r \in 0..(size - 1) : BytesLeft = size * m + r BY <2>2
  <2> HIDE DEF m
  <2>4. size * m \in Nat BY <1>1, <2>2
  <2>5. m # 0 BY <1>1, <1>2, <2>2, <2>3 DEF size
  <2>6. size * m <= BytesLeft BY <1>1, <1>2, <2>3, <2>4
  <2> QED BY <2>1, <2>2, <2>5, <2>6 DEF size
<1> QED BY <1>4, <1>5

(* The rest of the chunk becomes a block of a list of smaller blocks.       *)
LEMMA LeftoverList ==
  ASSUME Inv, ~crashed, NEW n \in Requests, BytesLeft < S_round_up(n), BytesLeft # 0
  PROVE  \E i \in Lists :
           /\ LeftoverFiled = [S_free_list EXCEPT ![i] = <<S_start_free>> \o @]
           /\ Width(i) = S_end_free - S_start_free
           /\ i # S_freelist_index(n)
<1>1. S_start_free \in Nat /\ S_end_free \in Nat /\ S_start_free <= S_end_free
  BY DEF Inv, Arranged, Typed
<1>2. BytesLeft \in Nat BY <1>1 DEF BytesLeft
<1>3. PICK k \in Nat : BytesLeft = k * ALIGN BY DEF Inv, Whole, BytesLeft
<1>4. ALIGN \in Nat /\ ALIGN > 0 BY SizeAssumption
<1>5. S_freelist_index(n) \in Lists /\ S_round_up(n) = (S_freelist_index(n) + 1) * ALIGN
  BY Widths DEF Width
<1>6. k # 0 BY <1>3, <1>4
<1>7. S_freelist_index(BytesLeft) = k - 1
  <2>1. BytesLeft + ALIGN - 1 = k * ALIGN + (ALIGN - 1) BY <1>2, <1>3, <1>4
  <2>2. (k * ALIGN + (ALIGN - 1)) \div ALIGN = k BY <1>4
  <2> QED BY <2>1, <2>2 DEF S_freelist_index
<1>8. k - 1 < S_freelist_index(n)
  <2> DEFINE i == S_freelist_index(n)
  <2>1. i \in Nat /\ i + 1 \in Nat BY <1>5 DEF Lists
  <2> HIDE DEF i
  <2> SUFFICES ASSUME i + 1 <= k PROVE FALSE BY <1>6, <2>1 DEF i
  <2>2. (i + 1) * ALIGN \in Nat BY <1>4, <2>1
  <2>3. CASE i + 1 = k BY <1>2, <1>3, <1>5, <2>2, <2>3 DEF i
  <2>4. CASE i + 1 < k
    <3>1. (i + 1) * ALIGN + ALIGN <= k * ALIGN BY <1>4, <2>1, <2>4, Multiples
    <3> QED BY <1>2, <1>3, <1>4, <1>5, <2>2, <3>1 DEF i
  <2> QED BY <2>1, <2>3, <2>4
<1>9. k - 1 \in Lists /\ k - 1 # S_freelist_index(n)
  BY <1>5, <1>6, <1>8, SizeAssumption DEF Lists
<1>10. Width(k - 1) = S_end_free - S_start_free
  <2>1. (k - 1) + 1 = k OBVIOUS
  <2> QED BY <1>3, <2>1 DEF Width, BytesLeft
<1>11. LeftoverFiled = [S_free_list EXCEPT ![k - 1] = <<S_start_free>> \o @]
  BY <1>7 DEF LeftoverFiled
<1> QED BY <1>9, <1>10, <1>11

LEMMA LeftoverKept ==
  ASSUME Inv, ~crashed, NEW n \in Requests, BytesLeft < S_round_up(n)
  PROVE  /\ Arranged(LeftoverFiled, live, S_end_free, S_end_free, heap)
         /\ LeftoverFiled[S_freelist_index(n)] = S_free_list[S_freelist_index(n)]
<1>1. Arranged(S_free_list, live, S_start_free, S_end_free, heap) BY DEF Inv
<1>2. S_free_list \in [Lists -> Seq(Nat)] /\ S_start_free \in Nat /\ S_end_free \in Nat
  BY DEF Inv, TypeOK
<1>3. CASE BytesLeft = 0
  <2>1. S_start_free = S_end_free BY <1>2, <1>3 DEF BytesLeft
  <2> QED BY <1>1, <1>3, <2>1 DEF LeftoverFiled
<1>4. CASE BytesLeft # 0
  <2>1. PICK i \in Lists :
          /\ LeftoverFiled = [S_free_list EXCEPT ![i] = <<S_start_free>> \o @]
          /\ Width(i) = S_end_free - S_start_free
          /\ i # S_freelist_index(n)
    BY <1>4, LeftoverList
  <2>2. Arranged(LeftoverFiled, live, S_end_free, S_end_free, heap) BY <1>1, <2>1, Filed
  <2>3. S_freelist_index(n) \in Lists BY Widths
  <2> QED BY <1>2, <2>1, <2>2, <2>3
<1> QED BY <1>3, <1>4

LEMMA FromListKeeps ==
  ASSUME Inv, NEW n \in Requests, AllocateFromList(n)
  PROVE  Inv'
<1> DEFINE i == S_freelist_index(n)
           b == [addr |-> Head(S_free_list[i]), size |-> n]
<1>1. ~crashed /\ crashed' = crashed /\ failed' = failed /\ heap' = heap
      /\ S_start_free' = S_start_free /\ S_end_free' = S_end_free /\ S_heap_size' = S_heap_size
  BY DEF AllocateFromList, MayAllocate, chunkVars
<1>2. live' = live \cup {b} /\ S_free_list' = [S_free_list EXCEPT ![i] = Tail(@)]
      /\ S_free_list[i] # <<>>
  BY DEF AllocateFromList
<1>3. Arranged(S_free_list, live, S_start_free, S_end_free, heap) BY <1>1 DEF Inv
<1>4. /\ Arranged(S_free_list', live', S_start_free, S_end_free, heap)
      /\ \A c \in live : Apart(b.addr, S_round_up(n), c.addr, S_round_up(c.size))
  BY <1>2, <1>3, HandedOut
<1>5. TypeOK' BY <1>1, <1>4 DEF Inv, TypeOK, Arranged, Typed
<1> QED BY <1>1, <1>4, <1>5 DEF Inv

LEMMA FromChunkKeeps ==
  ASSUME Inv, NEW n \in Requests, AllocateFromChunk(n)
  PROVE  Inv'
<1> DEFINE size == S_round_up(n)
           m == ObjsInChunk(size)
           b == [addr |-> S_start_free, size |-> n]
<1>1. ~crashed /\ crashed' = crashed /\ failed' = failed /\ heap' = heap
      /\ S_end_free' = S_end_free /\ S_heap_size' = S_heap_size
      /\ S_free_list[S_freelist_index(n)] = <<>> /\ BytesLeft >= size
  BY DEF AllocateFromChunk, MustRefill, MayAllocate
<1>2. live' = live \cup {b} /\ S_free_list' = Carving(n, m, S_free_list, S_start_free)
      /\ S_start_free' = S_start_free + size * m
  BY DEF AllocateFromChunk, Refill, Carving
<1>3. Arranged(S_free_list, live, S_start_free, S_end_free, heap)
      /\ Whole(S_end_free - S_start_free)
  BY <1>1 DEF Inv
<1>4. S_start_free \in Nat /\ S_end_free \in Nat BY DEF Inv, TypeOK
<1>5. m \in Nat /\ m > 0 /\ size * m <= BytesLeft BY <1>1, <1>4, Fits
<1>6. size \in Nat /\ size > 0 BY Widths
<1>7. size * m \in Nat BY <1>5, <1>6
<1>8. S_start_free + size * m <= S_end_free
  <2> HIDE DEF size, m
  <2> QED BY <1>4, <1>5, <1>7 DEF BytesLeft
<1> HIDE DEF m
<1>9. /\ Arranged(S_free_list', live', S_start_free', S_end_free, heap)
      /\ \A c \in live : Apart(b.addr, S_round_up(n), c.addr, S_round_up(c.size))
  BY <1>1, <1>2, <1>3, <1>5, <1>8, Carved
<1>10. Whole(S_end_free - S_start_free')
  <2>1. PICK k \in Nat : S_end_free - S_start_free = k * ALIGN BY <1>3 DEF Whole
  <2>2. PICK q \in Nat : size = q * ALIGN
    <3>1. S_freelist_index(n) + 1 \in Nat BY Widths DEF Lists
    <3> QED BY <3>1, Widths DEF Width
  <2> HIDE DEF size
  <2>3. (q * ALIGN) * m <= k * ALIGN BY <1>5, <2>1, <2>2 DEF BytesLeft
  <2>4. Whole(k * ALIGN - (q * ALIGN) * m) BY <1>5, <2>3, WholeRest
  <2>5. S_end_free - S_start_free' = k * ALIGN - (q * ALIGN) * m
    BY <1>2, <1>4, <1>7, <2>1, <2>2
  <2> QED BY <2>4, <2>5
<1>11. TypeOK' BY <1>1, <1>9 DEF Inv, TypeOK, Arranged, Typed
<1> QED BY <1>1, <1>9, <1>10, <1>11 DEF Inv

(* A chunk that malloc may return. *)
LEMMA NewChunk ==
  ASSUME NEW bytes \in Nat, NEW new \in NewChunks(bytes)
  PROVE  /\ new.lo \in Nat /\ new.hi = new.lo + bytes
         /\ new \in [lo : Nat, hi : Nat]
         /\ \A c \in heap : c.hi <= new.lo \/ new.hi <= c.lo
<1>1. PICK a \in Places : new = [lo |-> a, hi |-> a + bytes] BY DEF NewChunks
<1>2. a \in Nat BY BoundAssumption
<1>3. \A c \in heap : c.hi <= new.lo \/ new.hi <= c.lo BY DEF NewChunks
<1> QED BY <1>1, <1>2, <1>3

LEMMA FromHeapKeeps ==
  ASSUME Inv, NEW n \in Requests, NEW failedOnce \in BOOLEAN, AllocateFromHeap(n, failedOnce)
  PROVE  Inv'
<1> DEFINE i == S_freelist_index(n)
           size == S_round_up(n)
           bytes == AllocBytes(size)
           lists == IF failedOnce THEN TakenOff(LeftoverFiled, size) ELSE LeftoverFiled
<1>1. ~crashed /\ crashed' = crashed /\ failed' = (failed \/ failedOnce)
      /\ S_free_list[i] = <<>> /\ BytesLeft < size /\ S_heap_size' = S_heap_size + bytes
  BY DEF AllocateFromHeap, MustRefill, MayAllocate
<1>2. PICK new \in NewChunks(bytes) :
        /\ S_start_free' = new.lo + size * NObjs
        /\ S_end_free' = new.hi
        /\ heap' = heap \cup {new}
        /\ Refill(n, new.lo, NObjs, lists)
  BY DEF AllocateFromHeap
<1> DEFINE b == [addr |-> new.lo, size |-> n]
<1>3. live' = live \cup {b} /\ S_free_list' = Carving(n, NObjs, lists, new.lo)
  BY <1>2 DEF Refill, Carving
<1>4. TypeOK /\ S_heap_size \in Nat BY DEF Inv, TypeOK
<1>5. bytes \in Nat /\ size * NObjs <= bytes /\ Whole(bytes - size * NObjs)
  BY <1>4, Asked
<1>6. NObjs \in Nat /\ NObjs > 0 /\ ALIGN \in Nat BY SizeAssumption
<1>7. size \in Nat /\ size * NObjs \in Nat BY <1>6, Widths
<1>8. /\ Arranged(LeftoverFiled, live, S_end_free, S_end_free, heap)
      /\ LeftoverFiled[i] = <<>>
  BY <1>1, LeftoverKept
<1>9. Arranged(lists, live, S_end_free, S_end_free, heap) /\ lists[i] = <<>>
  <2>1. CASE failedOnce
    <3>1. i \in Lists BY Widths
    <3>2. TakenOff(LeftoverFiled, size)[i] = <<>> BY <1>8, <3>1 DEF TakenOff
    <3>3. Arranged(TakenOff(LeftoverFiled, size), live, S_end_free, S_end_free, heap)
      BY <1>8, Forgotten
    <3> QED BY <2>1, <3>2, <3>3
  <2>2. CASE ~failedOnce BY <1>8, <2>2
  <2> QED BY <2>1, <2>2
<1> HIDE DEF lists, bytes
<1>10. /\ new.lo \in Nat /\ new.hi = new.lo + bytes
       /\ new \in [lo : Nat, hi : Nat]
       /\ \A c \in heap : c.hi <= new.lo \/ new.hi <= c.lo
  BY <1>5, NewChunk
<1>11. new.hi \in Nat /\ new.lo <= new.hi BY <1>5, <1>10
<1>12. Arranged(lists, live, new.lo, new.hi, heap \cup {new})
  BY <1>9, <1>10, <1>11, Provided
<1>13. new.lo + size * NObjs <= new.hi
  <2> HIDE DEF size
  <2> QED BY <1>5, <1>7, <1>10
<1>14. /\ Arranged(S_free_list', live', S_start_free', new.hi, heap \cup {new})
       /\ \A c \in live : Apart(b.addr, S_round_up(n), c.addr, S_round_up(c.size))
  BY <1>2, <1>3, <1>6, <1>9, <1>12, <1>13, Carved
<1>15. Whole(S_end_free' - S_start_free')
  <2> HIDE DEF size
  <2>1. S_end_free' - S_start_free' = bytes - size * NObjs BY <1>2, <1>5, <1>7, <1>10
  <2> QED BY <1>5, <2>1
<1>16. TypeOK'
  <2>1. S_heap_size' \in Nat BY <1>1, <1>4, <1>5
  <2>2. S_start_free' \in Nat /\ S_end_free' \in Nat /\ S_free_list' \in [Lists -> Seq(Nat)]
        /\ live' \subseteq Blocks
    BY <1>2, <1>14 DEF Arranged, Typed
  <2>3. heap' \subseteq [lo : Nat, hi : Nat] BY <1>2, <1>4, <1>10 DEF TypeOK
  <2>4. crashed' \in BOOLEAN /\ failed' \in BOOLEAN BY <1>1, <1>4 DEF TypeOK
  <2> QED BY <2>1, <2>2, <2>3, <2>4 DEF TypeOK
<1> QED BY <1>1, <1>2, <1>14, <1>15, <1>16 DEF Inv

LEMMA FromNullKeeps ==
  ASSUME Inv, NEW n \in Requests, AllocateFromNull(n)
  PROVE  Inv'
<1>1. ~crashed /\ BytesLeft < S_round_up(n) BY DEF AllocateFromNull, MustRefill, MayAllocate
<1>2. TypeOK /\ S_heap_size \in Nat BY DEF Inv, TypeOK
<1>3. AllocBytes(S_round_up(n)) \in Nat BY <1>2, Asked
<1>4. S_round_up(n) * NObjs \in Nat BY Widths, SizeAssumption
<1>5. TakenOff(LeftoverFiled, S_round_up(n)) \in [Lists -> Seq(Nat)]
  BY <1>1, LeftoverKept, Forgotten DEF Arranged, Typed
<1>6. S_start_free' \in Nat /\ S_end_free' \in Nat /\ S_heap_size' \in Nat
      /\ S_free_list' \in [Lists -> Seq(Nat)] /\ crashed' = TRUE /\ failed' = TRUE
      /\ live' = live /\ heap' = heap
  BY <1>2, <1>3, <1>4, <1>5 DEF AllocateFromNull
<1>7. TypeOK' BY <1>2, <1>6 DEF TypeOK
<1> QED BY <1>6, <1>7 DEF Inv

LEMMA DeallocateKeeps ==
  ASSUME Inv, NEW b \in live, Deallocate(b)
  PROVE  Inv'
<1>1. ~crashed /\ crashed' = crashed /\ failed' = failed /\ heap' = heap
      /\ S_start_free' = S_start_free /\ S_end_free' = S_end_free /\ S_heap_size' = S_heap_size
      /\ live' = live \ {b}
      /\ S_free_list' = [S_free_list EXCEPT ![S_freelist_index(b.size)] = <<b.addr>> \o @]
  BY DEF Deallocate, chunkVars
<1>2. Arranged(S_free_list', live', S_start_free, S_end_free, heap)
  BY <1>1, GivenBack DEF Inv
<1>3. TypeOK' BY <1>1, <1>2 DEF Inv, TypeOK, Arranged, Typed
<1> QED BY <1>1, <1>2, <1>3 DEF Inv

LEMMA InitArranged == Init => Inv
<1> SUFFICES ASSUME Init PROVE Inv OBVIOUS
<1>1. S_free_list = [i \in Lists |-> <<>>] /\ live = {} /\ S_start_free = 0 /\ S_end_free = 0
      /\ heap = {} /\ S_heap_size = 0 /\ crashed = FALSE /\ failed = FALSE
  BY DEF Init
<1>2. ASSUME NEW i \in Lists PROVE DOMAIN S_free_list[i] = {}
  <2>1. S_free_list[i] = <<>> BY <1>1
  <2>2. DOMAIN <<>> = {} OBVIOUS
  <2> QED BY <2>1, <2>2
<1>3. TypeOK
  <2>1. S_free_list \in [Lists -> Seq(Nat)] BY <1>1
  <2>2. live \subseteq Blocks /\ heap \subseteq [lo : Nat, hi : Nat] BY <1>1
  <2>3. {crashed, failed} \subseteq BOOLEAN BY Zenon, <1>1
  <2> QED BY <1>1, <2>1, <2>2, <2>3 DEF TypeOK
<1>4. Typed(S_free_list, live, 0, 0, heap) BY <1>1, <1>3 DEF Typed, TypeOK
<1>5. Arranged(S_free_list, live, 0, 0, heap)
  BY <1>1, <1>2, <1>4
  DEF Arranged, LiveApart, FreeApart, LiveFreeApart, ChunkApart, Within
<1>6. Whole(0) BY SizeAssumption DEF Whole
<1> QED BY <1>1, <1>3, <1>5, <1>6 DEF Inv

LEMMA NextArranged == Inv /\ [Next]_vars => Inv'
<1> SUFFICES ASSUME Inv, [Next]_vars PROVE Inv' OBVIOUS
<1>1. ASSUME NEW n \in Requests, Allocate(n) PROVE Inv'
  BY <1>1, FromListKeeps, FromChunkKeeps, FromHeapKeeps, FromNullKeeps DEF Allocate
<1>2. ASSUME NEW b \in live, Deallocate(b) PROVE Inv' BY <1>2, DeallocateKeeps
<1>3. CASE UNCHANGED vars
  BY <1>3 DEF vars, chunkVars, Inv, TypeOK
<1> QED BY <1>1, <1>2, <1>3 DEF Next

(* The types of the pool's state are kept.                                  *)
THEOREM TypeCorrect == Spec => []TypeOK
<1>1. Inv => TypeOK BY DEF Inv
<1> QED BY InitArranged, NextArranged, <1>1, PTL DEF Spec

-----------------------------------------------------------------------------
(* No two pieces overlap *)

LEMMA ApartSpans ==
  ASSUME NEW a \in Nat, NEW m \in Nat, NEW b \in Nat, NEW n \in Nat, Apart(a, m, b, n)
  PROVE  Span(a, m) \cap Span(b, n) = {}
  BY DEF Apart, Span

(* Blocks in use, free blocks and the rest of the chunk never share a byte. *)
THEOREM NoOverlapHolds == Spec => []NoOverlap
<1>1. Inv => NoOverlap
  <2> SUFFICES ASSUME Inv, ~crashed PROVE NoOverlap BY DEF NoOverlap
  <2>1. Arranged(S_free_list, live, S_start_free, S_end_free, heap) BY DEF Inv
  <2>2. S_free_list \in [Lists -> Seq(Nat)] /\ S_start_free \in Nat /\ S_end_free \in Nat
        /\ S_start_free <= S_end_free
    BY <2>1 DEF Arranged, Typed
  <2>3. ASSUME NEW b \in live PROVE b.addr \in Nat /\ S_round_up(b.size) \in Nat
    BY Widths DEF Inv, TypeOK, Blocks
  <2>4. ASSUME NEW f \in FreeSlots
        PROVE  /\ f[1] \in Lists /\ f[2] \in DOMAIN S_free_list[f[1]]
               /\ f = <<f[1], f[2]>>
               /\ S_free_list[f[1]][f[2]] \in Nat /\ Width(f[1]) \in Nat
               /\ FreeBytes(f) = Span(S_free_list[f[1]][f[2]], Width(f[1]))
    <3>1. PICK i \in Lists : f \in {i} \X DOMAIN S_free_list[i] BY DEF FreeSlots
    <3>2. f[1] = i /\ f[2] \in DOMAIN S_free_list[i] /\ f = <<f[1], f[2]>> BY <3>1
    <3>3. S_free_list[i][f[2]] \in Nat BY <2>2, <3>2
    <3> QED BY <3>2, <3>3, Widths DEF FreeBytes, Width
  <2>5. ChunkBytes = Span(S_start_free, S_end_free - S_start_free)
        /\ S_end_free - S_start_free \in Nat
    BY <2>2 DEF ChunkBytes, Span
  <2>6. \A b, c \in live : b # c => LiveBytes(b) \cap LiveBytes(c) = {}
    BY <2>1, <2>3, ApartSpans DEF Arranged, LiveApart, LiveBytes
  <2>7. ASSUME NEW f \in FreeSlots, NEW g \in FreeSlots, f # g
        PROVE  FreeBytes(f) \cap FreeBytes(g) = {}
    <3>1. f[1] # g[1] \/ f[2] # g[2] BY <2>4, <2>7
    <3>2. Apart(S_free_list[f[1]][f[2]], Width(f[1]), S_free_list[g[1]][g[2]], Width(g[1]))
      BY <2>1, <2>4, <3>1 DEF Arranged, FreeApart
    <3> QED BY <2>4, <3>2, ApartSpans
  <2>8. ASSUME NEW b \in live, NEW f \in FreeSlots
        PROVE  LiveBytes(b) \cap FreeBytes(f) = {}
    <3>1. Apart(b.addr, S_round_up(b.size), S_free_list[f[1]][f[2]], Width(f[1]))
      BY <2>1, <2>4 DEF Arranged, LiveFreeApart
    <3> QED BY <2>3, <2>4, <3>1, ApartSpans DEF LiveBytes
  <2>9. \A b \in live : LiveBytes(b) \cap ChunkBytes = {}
    BY <2>1, <2>2, <2>3, <2>5, ApartSpans DEF Arranged, ChunkApart, LiveBytes
  <2>10. ASSUME NEW f \in FreeSlots PROVE FreeBytes(f) \cap ChunkBytes = {}
    <3>1. Apart(S_free_list[f[1]][f[2]], Width(f[1]), S_start_free, S_end_free - S_start_free)
      BY <2>1, <2>4 DEF Arranged, ChunkApart
    <3> QED BY <2>2, <2>4, <2>5, <3>1, ApartSpans
  <2> QED BY <2>6, <2>7, <2>8, <2>9, <2>10 DEF NoOverlap
<1> QED BY InitArranged, NextArranged, <1>1, PTL DEF Spec

-----------------------------------------------------------------------------
(* No byte is lost *)

InFree(x, lists, i) ==
  \E k \in DOMAIN lists[i] : lists[i][k] <= x /\ x < lists[i][k] + Width(i)

LEMMA CoveredByParts ==
  ASSUME NEW x, NEW lists, NEW lv, NEW lo, NEW hi
  PROVE  Covered(x, lists, lv, lo, hi) <=>
           \/ \E b \in lv : b.addr <= x /\ x < b.addr + S_round_up(b.size)
           \/ \E i \in Lists : InFree(x, lists, i)
           \/ lo <= x /\ x < hi
  BY DEF Covered, InFree

(* A list without its first block, and one with a new first block.          *)
LEMMA InTail ==
  ASSUME NEW lists \in [Lists -> Seq(Nat)], NEW i \in Lists, lists[i] # <<>>, NEW x \in Int,
         NEW j \in Lists
  PROVE  LET new == [lists EXCEPT ![i] = Tail(@)]
         IN  InFree(x, lists, j) <=>
               \/ InFree(x, new, j)
               \/ j = i /\ Head(lists[i]) <= x /\ x < Head(lists[i]) + Width(i)
<1> DEFINE new == [lists EXCEPT ![i] = Tail(@)]
<1>1. CASE j # i BY <1>1 DEF InFree
<1>2. CASE j = i
  <2> DEFINE s == lists[i]
             t == Tail(s)
             C(a) == a <= x /\ x < a + Width(i)
  <2>1. s \in Seq(Nat) /\ new[i] = t OBVIOUS
  <2>2. /\ 1 \in DOMAIN s /\ Head(s) = s[1]
        /\ \A k \in DOMAIN t : k + 1 \in DOMAIN s /\ t[k] = s[k + 1]
        /\ \A k \in DOMAIN s : k = 1 \/ (k - 1 \in DOMAIN t /\ t[k - 1] = s[k])
    BY <2>1
  <2>3. InFree(x, lists, j) <=> \E k \in DOMAIN s : C(s[k]) BY <1>2 DEF InFree
  <2>4. InFree(x, new, j) <=> \E k \in DOMAIN t : C(t[k]) BY <1>2, <2>1 DEF InFree
  <2> HIDE DEF C, t, s
  <2>5. (\E k \in DOMAIN s : C(s[k])) <=> (\E k \in DOMAIN t : C(t[k])) \/ C(Head(s)) BY <2>2
  <2> HIDE DEF new
  <2> QED BY <1>2, <2>3, <2>4, <2>5 DEF C, s, new
<1> QED BY <1>1, <1>2

LEMMA InPushed ==
  ASSUME NEW lists \in [Lists -> Seq(Nat)], NEW i \in Lists, NEW a \in Nat, NEW x \in Int,
         NEW j \in Lists
  PROVE  LET new == [lists EXCEPT ![i] = <<a>> \o @]
         IN  InFree(x, new, j) <=>
               InFree(x, lists, j) \/ (j = i /\ a <= x /\ x < a + Width(i))
<1> DEFINE new == [lists EXCEPT ![i] = <<a>> \o @]
<1>1. new \in [Lists -> Seq(Nat)] /\ new[i] = <<a>> \o lists[i] /\ lists[i] \in Seq(Nat)
  OBVIOUS
<1>2. new[i] # <<>> /\ Head(new[i]) = a /\ Tail(new[i]) = lists[i] BY <1>1
<1>3. [new EXCEPT ![i] = Tail(@)] = lists BY <1>2
<1> HIDE DEF new
<1>4. InFree(x, new, j) <=>
        \/ InFree(x, [new EXCEPT ![i] = Tail(@)], j)
        \/ j = i /\ Head(new[i]) <= x /\ x < Head(new[i]) + Width(i)
  BY <1>1, <1>2, InTail
<1> QED BY <1>2, <1>3, <1>4 DEF new

(* The blocks carved from the front of the chunk are that part of it.       *)
LEMMA InCarved ==
  ASSUME NEW lists \in [Lists -> Seq(Nat)], NEW n \in Requests, lists[S_freelist_index(n)] = <<>>,
         NEW m \in Nat, m > 0, NEW lo \in Nat, NEW x \in Int, NEW j \in Lists
  PROVE  LET new == Carving(n, m, lists, lo)
         IN  InFree(x, new, j) <=>
               \/ InFree(x, lists, j)
               \/ /\ j = S_freelist_index(n)
                  /\ lo + S_round_up(n) <= x /\ x < lo + S_round_up(n) * m
<1> DEFINE i == S_freelist_index(n)
           size == S_round_up(n)
           new == Carving(n, m, lists, lo)
<1>1. i \in Lists /\ size = Width(i) /\ size \in Nat /\ size > 0 BY Widths
<1>2. CASE j # i
  <2>1. new[j] = lists[j] BY <1>2 DEF Carving
  <2> QED BY <1>2, <2>1 DEF InFree
<1>3. CASE j = i
  <2>1. ~InFree(x, lists, j)
    <3>1. DOMAIN <<>> = {} OBVIOUS
    <3> QED BY <1>3, <3>1 DEF InFree
  <2>2. DOMAIN new[i] = 1..(m - 1) /\ \A k \in DOMAIN new[i] : new[i][k] = lo + k * size
    <3>1. CASE m = 1
      <4>1. new[i] = <<>> BY <3>1 DEF Carving
      <4>2. DOMAIN <<>> = {} OBVIOUS
      <4> QED BY <3>1, <4>1, <4>2
    <3>2. CASE m # 1
      <4>1. new[i] = Linked(lo, size, m) BY <1>1, <3>2 DEF Carving
      <4>2. DOMAIN Linked(lo, size, m) = 1..(m - 1)
            /\ \A k \in 1..(m - 1) : Linked(lo, size, m)[k] = lo + k * size
        BY DEF Linked
      <4> HIDE DEF new, size
      <4> QED BY <4>1, <4>2
    <3> QED BY <3>1, <3>2
  <2> HIDE DEF i, size, new
  <2>3. InFree(x, new, j) <=>
          \E k \in 1..(m - 1) : lo + k * size <= x /\ x < lo + k * size + size
    BY <1>1, <1>3, <2>2 DEF InFree
  <2>4. ASSUME NEW k \in 1..(m - 1), lo + k * size <= x, x < lo + k * size + size
        PROVE  lo + size <= x /\ x < lo + size * m
    <3>1. lo + k * size \in Nat /\ lo + size <= lo + k * size
          /\ lo + k * size + size <= lo + size * m /\ size * m \in Nat
      BY <1>1, Steps
    <3> DEFINE a == lo + k * size
               t == lo + size * m
    <3>2. a \in Nat /\ lo + size <= a /\ a + size <= t /\ t \in Nat BY <3>1
    <3>3. a <= x /\ x < a + size BY <2>4
    <3> HIDE DEF a, t
    <3>4. lo + size <= x /\ x < t BY <1>1, <3>2, <3>3
    <3> QED BY <3>4 DEF t
  <2>5. ASSUME lo + size <= x, x < lo + size * m
        PROVE  \E k \in 1..(m - 1) : lo + k * size <= x /\ x < lo + k * size + size
    <3> DEFINE d == x - lo
    <3>1. d \in Nat /\ size <= d /\ x = lo + d BY <1>1, <2>5
    <3>2. d < size * m
      <4>1. size * m \in Nat BY <1>1
      <4> QED BY <2>5, <4>1
    <3> HIDE DEF d
    <3>3. PICK k \in Nat : \E r \in 0..(size - 1) : k * size \in Nat /\ d = k * size + r
      <4> DEFINE q == d \div size
      <4>1. q \in Nat /\ \E r \in 0..(size - 1) : q * size \in Nat /\ d = q * size + r
        BY <1>1, <3>1, Division
      <4> HIDE DEF q
      <4> QED BY <4>1
    <3>4. k * size \in Nat /\ k * size <= d /\ d < k * size + size BY <1>1, <3>3
    <3>5. k # 0
      <4> SUFFICES ASSUME k = 0 PROVE FALSE OBVIOUS
      <4>1. k * size = 0 BY <1>1
      <4> QED BY <1>1, <3>1, <3>4, <4>1
    <3>6. k < m
      <4> SUFFICES ASSUME m <= k PROVE FALSE OBVIOUS
      <4>1. size * m = m * size /\ m * size \in Nat BY <1>1
      <4>2. m * size <= k * size
        <5>1. CASE m = k BY <3>4, <5>1
        <5>2. CASE m < k
          <6>1. m * size + size <= k * size BY <1>1, <5>2, Multiples
          <6> QED BY <1>1, <3>4, <4>1, <6>1
        <5> QED BY <5>1, <5>2
      <4> QED BY <3>1, <3>2, <3>4, <4>1, <4>2
    <3>7. k \in 1..(m - 1) BY <3>5, <3>6
    <3>8. lo + k * size <= x /\ x < lo + k * size + size
      <4> DEFINE a == k * size
      <4>1. a \in Nat /\ a <= d /\ d < a + size BY <3>4
      <4> HIDE DEF a
      <4>2. lo + a <= x /\ x < lo + a + size BY <1>1, <3>1, <4>1
      <4> QED BY <4>2 DEF a
    <3> QED BY <3>7, <3>8
  <2>6. InFree(x, new, j) <=> lo + size <= x /\ x < lo + size * m BY <2>3, <2>4, <2>5
  <2> QED BY <1>3, <2>1, <2>6 DEF i, size, new
<1> QED BY <1>2, <1>3

(* Every byte malloc gave is in a piece, no piece has another byte, and     *)
(* S_heap_size counts them, as long as malloc has not failed.               *)
Kept ==
  ~failed =>
    /\ \A x \in Int :
         Covered(x, S_free_list, live, S_start_free, S_end_free) <=> x \in HeapBytes
    /\ IsFiniteSet(HeapBytes) /\ S_heap_size = Cardinality(HeapBytes)

LEMMA FromListCovers ==
  ASSUME Inv, Kept, NEW n \in Requests, AllocateFromList(n)
  PROVE  Kept'
<1> DEFINE i == S_freelist_index(n)
           b == [addr |-> Head(S_free_list[i]), size |-> n]
<1> SUFFICES ASSUME ~failed' PROVE Kept' BY DEF Kept
<1>1. failed' = failed /\ heap' = heap /\ S_heap_size' = S_heap_size
      /\ S_start_free' = S_start_free /\ S_end_free' = S_end_free
      /\ live' = live \cup {b} /\ S_free_list' = [S_free_list EXCEPT ![i] = Tail(@)]
      /\ S_free_list[i] # <<>>
  BY DEF AllocateFromList, chunkVars
<1>2. i \in Lists /\ S_round_up(n) = Width(i) BY Widths
<1>3. S_free_list \in [Lists -> Seq(Nat)] BY DEF Inv, TypeOK
<1>4. b.addr = Head(S_free_list[i]) /\ b.size = n OBVIOUS
<1> HIDE DEF b, i
<1>5. ASSUME NEW x \in Int
      PROVE  Covered(x, S_free_list', live', S_start_free, S_end_free)
               <=> Covered(x, S_free_list, live, S_start_free, S_end_free)
  <2>1. \A j \in Lists : InFree(x, S_free_list, j) <=>
          \/ InFree(x, S_free_list', j)
          \/ j = i /\ b.addr <= x /\ x < b.addr + S_round_up(b.size)
    <3> DEFINE new == [S_free_list EXCEPT ![i] = Tail(@)]
               h == Head(S_free_list[i])
    <3>1. \A j \in Lists : InFree(x, S_free_list, j) <=>
            \/ InFree(x, new, j)
            \/ j = i /\ h <= x /\ x < h + Width(i)
      BY <1>1, <1>2, <1>3, InTail
    <3>2. S_free_list' = new /\ b.addr = h /\ S_round_up(b.size) = Width(i) BY <1>1, <1>2, <1>4
    <3> HIDE DEF new, h
    <3> QED BY <3>1, <3>2
  <2>2. (\E c \in live' : c.addr <= x /\ x < c.addr + S_round_up(c.size)) <=>
          \/ \E c \in live : c.addr <= x /\ x < c.addr + S_round_up(c.size)
          \/ b.addr <= x /\ x < b.addr + S_round_up(b.size)
    BY <1>1
  <2> QED BY <1>2, <2>1, <2>2, CoveredByParts
<1>6. HeapBytes' = HeapBytes BY <1>1 DEF HeapBytes
<1> QED BY <1>1, <1>5, <1>6 DEF Kept

LEMMA DeallocateCovers ==
  ASSUME Inv, Kept, NEW b \in live, Deallocate(b)
  PROVE  Kept'
<1> DEFINE i == S_freelist_index(b.size)
<1> SUFFICES ASSUME ~failed' PROVE Kept' BY DEF Kept
<1>1. failed' = failed /\ heap' = heap /\ S_heap_size' = S_heap_size
      /\ S_start_free' = S_start_free /\ S_end_free' = S_end_free
      /\ live' = live \ {b} /\ S_free_list' = [S_free_list EXCEPT ![i] = <<b.addr>> \o @]
  BY DEF Deallocate, chunkVars
<1>2. b.addr \in Nat /\ b.size \in Requests BY DEF Inv, TypeOK, Blocks
<1>3. i \in Lists /\ S_round_up(b.size) = Width(i) BY <1>2, Widths
<1>4. S_free_list \in [Lists -> Seq(Nat)] BY DEF Inv, TypeOK
<1> HIDE DEF i
<1>5. ASSUME NEW x \in Int
      PROVE  Covered(x, S_free_list', live', S_start_free, S_end_free)
               <=> Covered(x, S_free_list, live, S_start_free, S_end_free)
  <2>1. \A j \in Lists : InFree(x, S_free_list', j) <=>
          \/ InFree(x, S_free_list, j)
          \/ j = i /\ b.addr <= x /\ x < b.addr + S_round_up(b.size)
    BY <1>1, <1>2, <1>3, <1>4, InPushed
  <2>2. (\E c \in live : c.addr <= x /\ x < c.addr + S_round_up(c.size)) <=>
          \/ \E c \in live' : c.addr <= x /\ x < c.addr + S_round_up(c.size)
          \/ b.addr <= x /\ x < b.addr + S_round_up(b.size)
    BY <1>1
  <2> QED BY <1>3, <2>1, <2>2, CoveredByParts
<1>6. HeapBytes' = HeapBytes BY <1>1 DEF HeapBytes
<1> QED BY <1>1, <1>5, <1>6 DEF Kept

(* Carving blocks from the chunk changes no byte's being covered.           *)
LEMMA CarvingCovers ==
  ASSUME NEW lists \in [Lists -> Seq(Nat)], NEW lv, NEW n \in Requests,
         lists[S_freelist_index(n)] = <<>>,
         NEW m \in Nat, m > 0, NEW lo \in Nat, NEW hi \in Nat, lo + S_round_up(n) * m <= hi,
         NEW x \in Int
  PROVE  Covered(x, Carving(n, m, lists, lo), lv \cup {[addr |-> lo, size |-> n]},
                 lo + S_round_up(n) * m, hi)
           <=> Covered(x, lists, lv, lo, hi)
<1> DEFINE i == S_freelist_index(n)
           size == S_round_up(n)
           b == [addr |-> lo, size |-> n]
           new == Carving(n, m, lists, lo)
           top == lo + size * m
<1>1. i \in Lists /\ size \in Nat BY Widths
<1>2. top \in Nat /\ lo + size <= top /\ top <= hi
  <2> HIDE DEF size
  <2>1. size * m \in Nat /\ size <= size * m BY <1>1, Steps
  <2> QED BY <1>1, <2>1 DEF size
<1>3. \A j \in Lists : InFree(x, new, j) <=>
        \/ InFree(x, lists, j)
        \/ j = i /\ lo + size <= x /\ x < top
  BY InCarved
<1>4. b.addr = lo /\ S_round_up(b.size) = size OBVIOUS
<1> HIDE DEF i, size, b, new, top
<1>5. (\E c \in lv \cup {b} : c.addr <= x /\ x < c.addr + S_round_up(c.size)) <=>
        \/ \E c \in lv : c.addr <= x /\ x < c.addr + S_round_up(c.size)
        \/ lo <= x /\ x < lo + size
  BY <1>4
<1>6. (\E j \in Lists : InFree(x, new, j)) <=>
        \/ \E j \in Lists : InFree(x, lists, j)
        \/ lo + size <= x /\ x < top
  BY <1>1, <1>3
<1>7. (lo <= x /\ x < hi) <=>
        \/ lo <= x /\ x < lo + size
        \/ lo + size <= x /\ x < top
        \/ top <= x /\ x < hi
  BY <1>1, <1>2
<1>8. Covered(x, new, lv \cup {b}, top, hi) <=> Covered(x, lists, lv, lo, hi)
  BY <1>5, <1>6, <1>7, CoveredByParts
<1> QED BY <1>8 DEF b, new, top, size

LEMMA FromChunkCovers ==
  ASSUME Inv, Kept, NEW n \in Requests, AllocateFromChunk(n)
  PROVE  Kept'
<1> DEFINE size == S_round_up(n)
           m == ObjsInChunk(size)
           b == [addr |-> S_start_free, size |-> n]
<1> SUFFICES ASSUME ~failed' PROVE Kept' BY DEF Kept
<1>1. failed' = failed /\ heap' = heap /\ S_heap_size' = S_heap_size
      /\ S_end_free' = S_end_free
      /\ S_free_list[S_freelist_index(n)] = <<>> /\ BytesLeft >= size
      /\ live' = live \cup {b} /\ S_free_list' = Carving(n, m, S_free_list, S_start_free)
      /\ S_start_free' = S_start_free + size * m
  BY DEF AllocateFromChunk, MustRefill, Refill, Carving
<1>2. S_start_free \in Nat /\ S_end_free \in Nat /\ S_free_list \in [Lists -> Seq(Nat)]
  BY DEF Inv, TypeOK
<1>3. m \in Nat /\ m > 0 /\ size * m <= BytesLeft BY <1>1, <1>2, Fits
<1>4. size * m \in Nat
  <2>1. size \in Nat BY Widths
  <2> QED BY <1>3, <2>1
<1>5. S_start_free + size * m <= S_end_free
  <2> HIDE DEF size, m
  <2> QED BY <1>2, <1>3, <1>4 DEF BytesLeft
<1> HIDE DEF m
<1>6. \A x \in Int :
        Covered(x, S_free_list', live', S_start_free', S_end_free)
          <=> Covered(x, S_free_list, live, S_start_free, S_end_free)
  BY <1>1, <1>2, <1>3, <1>5, CarvingCovers
<1>7. HeapBytes' = HeapBytes BY <1>1 DEF HeapBytes
<1> QED BY <1>1, <1>6, <1>7 DEF Kept

(* The rest of the chunk is covered by the block it becomes.                *)
LEMMA LeftoverCovers ==
  ASSUME Inv, ~crashed, NEW n \in Requests, BytesLeft < S_round_up(n), NEW x \in Int
  PROVE  Covered(x, LeftoverFiled, live, S_end_free, S_end_free)
           <=> Covered(x, S_free_list, live, S_start_free, S_end_free)
<1>1. S_free_list \in [Lists -> Seq(Nat)] /\ S_start_free \in Nat /\ S_end_free \in Nat
  BY DEF Inv, TypeOK
<1>2. S_start_free <= S_end_free BY DEF Inv, Arranged, Typed
<1>3. CASE BytesLeft = 0
  <2>1. S_start_free = S_end_free BY <1>1, <1>3 DEF BytesLeft
  <2> QED BY <1>3, <2>1 DEF LeftoverFiled
<1>4. CASE BytesLeft # 0
  <2>1. PICK i \in Lists :
          /\ LeftoverFiled = [S_free_list EXCEPT ![i] = <<S_start_free>> \o @]
          /\ Width(i) = S_end_free - S_start_free
    BY <1>4, LeftoverList
  <2>2. \A j \in Lists : InFree(x, LeftoverFiled, j) <=>
          InFree(x, S_free_list, j) \/ (j = i /\ S_start_free <= x /\ x < S_start_free + Width(i))
    BY <1>1, <2>1, InPushed
  <2>3. S_start_free + Width(i) = S_end_free BY <1>1, <2>1
  <2>4. ~(S_end_free <= x /\ x < S_end_free) BY <1>1
  <2> QED BY <2>2, <2>3, <2>4, CoveredByParts
<1> QED BY <1>3, <1>4

LEMMA FromHeapCovers ==
  ASSUME Inv, Kept, NEW n \in Requests, NEW failedOnce \in BOOLEAN, AllocateFromHeap(n, failedOnce)
  PROVE  Kept'
<1> DEFINE i == S_freelist_index(n)
           size == S_round_up(n)
           bytes == AllocBytes(size)
           lists == LeftoverFiled
<1> SUFFICES ASSUME ~failed' PROVE Kept' BY DEF Kept
<1>1. ~failed /\ ~failedOnce /\ S_heap_size' = S_heap_size + bytes
      /\ S_free_list[i] = <<>> /\ BytesLeft < size /\ ~crashed
  BY DEF AllocateFromHeap, MustRefill, MayAllocate
<1>2. PICK new \in NewChunks(bytes) :
        /\ S_start_free' = new.lo + size * NObjs
        /\ S_end_free' = new.hi
        /\ heap' = heap \cup {new}
        /\ Refill(n, new.lo, NObjs, lists)
  BY <1>1 DEF AllocateFromHeap
<1> DEFINE b == [addr |-> new.lo, size |-> n]
<1>3. live' = live \cup {b} /\ S_free_list' = Carving(n, NObjs, lists, new.lo)
  BY <1>2 DEF Refill, Carving
<1>4. TypeOK /\ S_heap_size \in Nat BY DEF Inv, TypeOK
<1>5. bytes \in Nat /\ size * NObjs <= bytes BY <1>4, Asked
<1>6. NObjs \in Nat /\ NObjs > 0 /\ ALIGN \in Nat BY SizeAssumption
<1>7. size \in Nat /\ size * NObjs \in Nat BY <1>6, Widths
<1>8. lists \in [Lists -> Seq(Nat)] /\ lists[i] = <<>>
  BY <1>1, LeftoverKept DEF Arranged, Typed
<1>9. \A x \in Int : Covered(x, lists, live, S_end_free, S_end_free) <=> x \in HeapBytes
  BY <1>1, LeftoverCovers DEF Kept
<1> HIDE DEF lists, bytes
<1>10. /\ new.lo \in Nat /\ new.hi = new.lo + bytes
       /\ \A c \in heap : c.hi <= new.lo \/ new.hi <= c.lo
  BY <1>5, NewChunk
<1>11. HeapBytes' = HeapBytes \cup new.lo..(new.hi - 1) BY <1>2 DEF HeapBytes
<1>12. \A x \in Int : Covered(x, lists, live, new.lo, new.hi) <=> x \in HeapBytes'
  <2> SUFFICES ASSUME NEW x \in Int
               PROVE  Covered(x, lists, live, new.lo, new.hi) <=> x \in HeapBytes'
    OBVIOUS
  <2>1. ~(S_end_free <= x /\ x < S_end_free) BY <1>4 DEF TypeOK
  <2>2. x \in new.lo..(new.hi - 1) <=> new.lo <= x /\ x < new.hi BY <1>5, <1>10
  <2> QED BY <1>9, <1>11, <2>1, <2>2, CoveredByParts
<1>13. new.lo + size * NObjs <= new.hi
  <2> HIDE DEF size
  <2> QED BY <1>5, <1>7, <1>10
<1>14. new.hi \in Nat BY <1>5, <1>10
<1>15. \A x \in Int :
         Covered(x, S_free_list', live', S_start_free', S_end_free') <=> x \in HeapBytes'
  <2>1. \A x \in Int :
          Covered(x, S_free_list', live', new.lo + size * NObjs, new.hi)
            <=> Covered(x, lists, live, new.lo, new.hi)
    BY <1>3, <1>6, <1>8, <1>10, <1>13, <1>14, CarvingCovers
  <2> QED BY <1>2, <1>12, <2>1
<1>16. HeapBytes \cap new.lo..(new.hi - 1) = {}
  <2> SUFFICES ASSUME NEW x \in HeapBytes, x \in new.lo..(new.hi - 1) PROVE FALSE
    OBVIOUS
  <2>1. PICK c \in heap : x \in c.lo..(c.hi - 1) BY DEF HeapBytes
  <2>2. c.lo \in Nat /\ c.hi \in Nat BY <1>4 DEF TypeOK
  <2> QED BY <1>10, <1>14, <2>1, <2>2
<1>17. IsFiniteSet(new.lo..(new.hi - 1)) /\ Cardinality(new.lo..(new.hi - 1)) = bytes
  <2>1. new.lo \in Int /\ new.hi - 1 \in Int BY <1>10, <1>14
  <2>2. /\ IsFiniteSet(new.lo..(new.hi - 1))
        /\ Cardinality(new.lo..(new.hi - 1)) =
             IF new.lo > new.hi - 1 THEN 0 ELSE (new.hi - 1) - new.lo + 1
    BY <2>1, FS_Interval
  <2> QED BY <1>5, <1>10, <2>2
<1>18. IsFiniteSet(HeapBytes') /\ S_heap_size' = Cardinality(HeapBytes')
  <2>1. IsFiniteSet(HeapBytes) /\ S_heap_size = Cardinality(HeapBytes) BY <1>1 DEF Kept
  <2> DEFINE T == new.lo..(new.hi - 1)
  <2>2. Cardinality(HeapBytes \cap T) = 0 BY <1>16, FS_EmptySet
  <2>3. HeapBytes' = HeapBytes \cup T /\ IsFiniteSet(T) /\ Cardinality(T) = bytes
    BY <1>11, <1>17
  <2> HIDE DEF T
  <2>4. /\ IsFiniteSet(HeapBytes \cup T)
        /\ Cardinality(HeapBytes \cup T)
             = Cardinality(HeapBytes) + Cardinality(T) - Cardinality(HeapBytes \cap T)
    BY <2>1, <2>3, FS_Union
  <2>5. IsFiniteSet(HeapBytes') /\ Cardinality(HeapBytes') = Cardinality(HeapBytes) + bytes
    BY <1>4, <1>5, <2>1, <2>2, <2>3, <2>4
  <2> QED BY <1>1, <2>1, <2>5
<1> QED BY <1>15, <1>18 DEF Kept

LEMMA InitKept == Init => Kept
<1> SUFFICES ASSUME Init PROVE Kept OBVIOUS
<1>1. S_free_list = [i \in Lists |-> <<>>] /\ live = {} /\ S_start_free = 0 /\ S_end_free = 0
      /\ heap = {} /\ S_heap_size = 0
  BY DEF Init
<1>2. \A x \in Int, i \in Lists : ~InFree(x, S_free_list, i)
  <2>1. DOMAIN <<>> = {} OBVIOUS
  <2> QED BY <1>1, <2>1 DEF InFree
<1>3. HeapBytes = {} BY <1>1 DEF HeapBytes
<1>4. ASSUME NEW x \in Int PROVE ~Covered(x, S_free_list, live, S_start_free, S_end_free)
  BY <1>1, <1>2, CoveredByParts
<1> QED BY <1>1, <1>3, <1>4, FS_EmptySet DEF Kept

LEMMA NextKept == Inv /\ Kept /\ [Next]_vars => Kept'
<1> SUFFICES ASSUME Inv, Kept, [Next]_vars PROVE Kept' OBVIOUS
<1>1. ASSUME NEW n \in Requests, Allocate(n) PROVE Kept'
  <2>1. ASSUME AllocateFromNull(n) PROVE Kept' BY <2>1 DEF AllocateFromNull, Kept
  <2> QED BY <1>1, <2>1, FromListCovers, FromChunkCovers, FromHeapCovers DEF Allocate
<1>2. ASSUME NEW b \in live, Deallocate(b) PROVE Kept' BY <1>2, DeallocateCovers
<1>3. CASE UNCHANGED vars
  BY <1>3 DEF vars, chunkVars, Kept, HeapBytes
<1> QED BY <1>1, <1>2, <1>3 DEF Next

(* As long as malloc has not failed, every byte it gave is in a block or in *)
(* the chunk, and S_heap_size counts them.                                  *)
THEOREM NothingLostHolds == Spec => []NothingLost
<1>1. Inv /\ Kept => NothingLost
  <2> SUFFICES ASSUME Inv, Kept, ~failed PROVE NothingLost BY DEF NothingLost
  <2> DEFINE pieces == UNION ({LiveBytes(b) : b \in live} \cup {FreeBytes(f) : f \in FreeSlots}
                                \cup {ChunkBytes})
  <2>1. S_free_list \in [Lists -> Seq(Nat)] /\ S_start_free \in Nat /\ S_end_free \in Nat
    BY DEF Inv, TypeOK
  <2>2. ASSUME NEW b \in live, NEW x
        PROVE  x \in LiveBytes(b) <=> x \in Int /\ b.addr <= x /\ x < b.addr + S_round_up(b.size)
    <3>1. b.addr \in Nat /\ S_round_up(b.size) \in Nat BY Widths DEF Inv, TypeOK, Blocks
    <3> QED BY <3>1 DEF LiveBytes, Span
  <2>3. ASSUME NEW x
        PROVE  (\E f \in FreeSlots : x \in FreeBytes(f)) <=>
                 x \in Int /\ \E i \in Lists : InFree(x, S_free_list, i)
    <3>1. ASSUME NEW i \in Lists, NEW k \in DOMAIN S_free_list[i]
          PROVE  /\ <<i, k>> \in FreeSlots
                 /\ x \in FreeBytes(<<i, k>>) <=>
                      x \in Int /\ S_free_list[i][k] <= x /\ x < S_free_list[i][k] + Width(i)
      <4>1. S_free_list[i][k] \in Nat BY <2>1
      <4>2. FreeBytes(<<i, k>>) = Span(S_free_list[i][k], Width(i)) BY DEF FreeBytes, Width
      <4>3. <<i, k>> \in {i} \X DOMAIN S_free_list[i] OBVIOUS
      <4> QED BY <4>1, <4>2, <4>3, Widths DEF FreeSlots, Span
    <3>2. ASSUME NEW f \in FreeSlots
          PROVE  \E i \in Lists : \E k \in DOMAIN S_free_list[i] : f = <<i, k>>
      BY DEF FreeSlots
    <3> QED BY <3>1, <3>2 DEF InFree
  <2>4. \A x : x \in ChunkBytes <=> x \in Int /\ S_start_free <= x /\ x < S_end_free
    BY <2>1 DEF ChunkBytes
  <2>5. HeapBytes \subseteq Int BY DEF Inv, TypeOK, HeapBytes
  <2>6. ASSUME NEW x PROVE x \in pieces <=> x \in HeapBytes
    <3>1. x \in pieces <=>
            \/ \E b \in live : x \in LiveBytes(b)
            \/ \E f \in FreeSlots : x \in FreeBytes(f)
            \/ x \in ChunkBytes
      OBVIOUS
    <3>2. x \in pieces <=>
            x \in Int /\ Covered(x, S_free_list, live, S_start_free, S_end_free)
      BY <2>2, <2>3, <2>4, <3>1, CoveredByParts
    <3> QED BY <2>5, <3>2 DEF Kept
  <2> HIDE DEF pieces
  <2>7. pieces = HeapBytes BY <2>6
  <2> QED BY <2>7 DEF Kept, NothingLost, pieces
<1> QED BY InitArranged, NextArranged, InitKept, NextKept, <1>1, PTL DEF Spec
=============================================================================
