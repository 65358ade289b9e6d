------------------------------ MODULE StlAlloc ------------------------------
(***************************************************************************)
(* The memory pool of stl_alloc.cpp: free lists of blocks of one size      *)
(* each, refilled from a chunk of memory that malloc provides.  One thread *)
(* uses it.  An address is a number, 0 the null pointer; the links of a    *)
(* free list are kept as the sequence of its blocks.                       *)
(***************************************************************************)
EXTENDS Integers, Sequences, FiniteSets

CONSTANTS
  ALIGN,          \* 8
  NFREELISTS,     \* 16; MAX_BYTES is NFREELISTS * ALIGN
  NObjs,          \* 20, the blocks S_refill asks for
  HeapShare,      \* 16: a chunk grows by this part of what malloc gave so far
  Requests,       \* the sizes the program asks for
  Places,         \* bound: the addresses malloc may return
  MaxMallocs,     \* bound: chunks malloc provides
  MaxLive         \* bound: blocks in use at a time

ASSUME SizeAssumption ==
  /\ {ALIGN, NFREELISTS, HeapShare} \subseteq Nat \ {0}
  /\ NObjs \in Nat /\ NObjs > 1
ASSUME RequestAssumption == Requests \subseteq 1..(NFREELISTS * ALIGN)
ASSUME BoundAssumption ==
  /\ Places \subseteq Nat \ {0}
  /\ MaxMallocs \in Nat /\ MaxLive \in Nat

VARIABLES
  S_start_free, S_end_free,   \* the part of the last chunk not yet in blocks
  S_heap_size,
  S_free_list,
  live,       \* the blocks the program uses: address and requested size
  heap,       \* the memory malloc gave: lower and upper end of each chunk
  crashed,    \* the program wrote through a null pointer
  failed      \* malloc has returned the null pointer; history

chunkVars == <<S_start_free, S_end_free, S_heap_size, heap>>
vars == <<chunkVars, S_free_list, live, crashed, failed>>

Lists == 0..(NFREELISTS - 1)
Blocks == [addr : Nat, size : Requests]

TypeOK ==
  /\ S_start_free \in Nat /\ S_end_free \in Nat /\ S_heap_size \in Nat
  /\ S_free_list \in [Lists -> Seq(Nat)]
  /\ live \subseteq Blocks
  /\ heap \subseteq [lo : Nat, hi : Nat]
  /\ {crashed, failed} \subseteq BOOLEAN

Init ==
  /\ S_start_free = 0 /\ S_end_free = 0 /\ S_heap_size = 0
  /\ S_free_list = [i \in Lists |-> <<>>]
  /\ live = {}
  /\ heap = {}
  /\ crashed = FALSE /\ failed = FALSE

(* Deliberate mistakes for the definition named in each comment.            *)
LinkedFromFirst(chunk, size, nobjs) ==   \* Linked: the first block as well
  [k \in 1..nobjs |-> chunk + (k - 1) * size]
LeftoverDropped == S_free_list           \* LeftoverFiled: forgotten

S_round_up(n) == ((n + ALIGN - 1) \div ALIGN) * ALIGN
S_freelist_index(n) == (n + ALIGN - 1) \div ALIGN - 1

BytesLeft == S_end_free - S_start_free
AllocBytes(size) == 2 * size * NObjs + S_round_up(S_heap_size \div HeapShare)

(* What is left of the chunk becomes one block of the list of its size. *)
LeftoverFiled ==
  IF BytesLeft = 0 THEN S_free_list
  ELSE [S_free_list EXCEPT ![S_freelist_index(BytesLeft)] =
          <<S_start_free>> \o @]

(* When malloc fails, the loop takes a block off every list of blocks that  *)
(* are large enough, and only the last one could be used; none is, because  *)
(* malloc is called again.                                                  *)
TakenOff(lists, size) ==
  [i \in Lists |-> IF i >= S_freelist_index(size) /\ lists[i] # <<>>
                   THEN Tail(lists[i]) ELSE lists[i]]

(* The blocks after the first, which S_refill links into the list. *)
Linked(chunk, size, nobjs) == [k \in 1..(nobjs - 1) |-> chunk + k * size]

(* S_refill with the nobjs blocks at chunk: the first is the program's, the *)
(* others are the new list of this size.                                    *)
Refill(n, chunk, nobjs, lists) ==
  /\ live' = live \cup {[addr |-> chunk, size |-> n]}
  /\ S_free_list' =
       IF nobjs = 1 THEN lists
       ELSE [lists EXCEPT ![S_freelist_index(n)] =
               Linked(chunk, S_round_up(n), nobjs)]

-----------------------------------------------------------------------------
(* allocate, one action for each way through it *)

MayAllocate == ~crashed /\ Cardinality(live) < MaxLive

AllocateFromList(n) ==
  LET i == S_freelist_index(n)
  IN  /\ MayAllocate
      /\ S_free_list[i] # <<>>
      /\ live' = live \cup {[addr |-> Head(S_free_list[i]), size |-> n]}
      /\ S_free_list' = [S_free_list EXCEPT ![i] = Tail(@)]
      /\ UNCHANGED <<chunkVars, crashed, failed>>

MustRefill(n) == MayAllocate /\ S_free_list[S_freelist_index(n)] = <<>>

(* The chunk has room for NObjs blocks, or for some. *)
ObjsInChunk(size) ==
  IF BytesLeft >= size * NObjs THEN NObjs ELSE BytesLeft \div size

AllocateFromChunk(n) ==
  LET size == S_round_up(n)
      nobjs == ObjsInChunk(size)
  IN  /\ MustRefill(n)
      /\ BytesLeft >= size
      /\ S_start_free' = S_start_free + size * nobjs
      /\ Refill(n, S_start_free, nobjs, S_free_list)
      /\ UNCHANGED <<S_end_free, S_heap_size, heap, crashed, failed>>

(* malloc places a chunk anywhere, below, between or above the chunks there *)
(* are, but shares no byte with one of them.                                *)
NewChunks(bytes) ==
  {new \in {[lo |-> a, hi |-> a + bytes] : a \in Places} :
     \A c \in heap : c.hi <= new.lo \/ new.hi <= c.lo}

(* The chunk has no room for one block; malloc succeeds, at once or, after  *)
(* taking blocks off the lists, when it is called again.                    *)
AllocateFromHeap(n, failedOnce) ==
  LET size == S_round_up(n)
      lists == IF failedOnce THEN TakenOff(LeftoverFiled, size)
               ELSE LeftoverFiled
  IN  /\ MustRefill(n)
      /\ BytesLeft < size
      /\ Cardinality(heap) < MaxMallocs
      /\ \E new \in NewChunks(AllocBytes(size)) :
           /\ S_start_free' = new.lo + size * NObjs
           /\ S_end_free' = new.hi
           /\ heap' = heap \cup {new}
           /\ Refill(n, new.lo, NObjs, lists)
      /\ S_heap_size' = S_heap_size + AllocBytes(size)
      /\ failed' = (failed \/ failedOnce)
      /\ UNCHANGED crashed

(* malloc fails twice: the chunk starts at the null pointer, and S_refill   *)
(* writes the first link there.                                             *)
AllocateFromNull(n) ==
  LET size == S_round_up(n)
  IN  /\ MustRefill(n)
      /\ BytesLeft < size
      /\ S_start_free' = size * NObjs
      /\ S_end_free' = AllocBytes(size)
      /\ S_heap_size' = S_heap_size + AllocBytes(size)
      /\ S_free_list' = TakenOff(LeftoverFiled, size)
      /\ crashed' = TRUE /\ failed' = TRUE
      /\ UNCHANGED <<live, heap>>

Allocate(n) ==
  \/ AllocateFromList(n) \/ AllocateFromChunk(n) \/ AllocateFromNull(n)
  \/ \E failedOnce \in BOOLEAN : AllocateFromHeap(n, failedOnce)

(* deallocate, given the size the block was asked for with. *)
Deallocate(b) ==
  /\ ~crashed /\ b \in live
  /\ live' = live \ {b}
  /\ S_free_list' = [S_free_list EXCEPT ![S_freelist_index(b.size)] =
                       <<b.addr>> \o @]
  /\ UNCHANGED <<chunkVars, crashed, failed>>

Next ==
  \/ \E n \in Requests : Allocate(n)
  \/ \E b \in live : Deallocate(b)

Spec == Init /\ [][Next]_vars

-----------------------------------------------------------------------------
(* Properties *)

Span(lo, bytes) == lo..(lo + bytes - 1)

(* The pieces of memory: blocks in use with their rounded size, free blocks *)
(* with the size of their list, and the rest of the chunk.                  *)
LiveBytes(b) == Span(b.addr, S_round_up(b.size))
FreeSlots == UNION {{i} \X DOMAIN S_free_list[i] : i \in Lists}
FreeBytes(f) == Span(S_free_list[f[1]][f[2]], (f[1] + 1) * ALIGN)
ChunkBytes == S_start_free..(S_end_free - 1)

HeapBytes == UNION {c.lo..(c.hi - 1) : c \in heap}

(* No byte is in two blocks, or in a block and in the chunk: what is free   *)
(* or not yet in blocks is never part of what the program uses, whichever   *)
(* sizes the blocks were carved from.                                       *)
NoOverlap ==
  ~crashed =>
    /\ \A b, c \in live : b # c => LiveBytes(b) \cap LiveBytes(c) = {}
    /\ \A f, g \in FreeSlots : f # g => FreeBytes(f) \cap FreeBytes(g) = {}
    /\ \A b \in live, f \in FreeSlots : LiveBytes(b) \cap FreeBytes(f) = {}
    /\ \A b \in live : LiveBytes(b) \cap ChunkBytes = {}
    /\ \A f \in FreeSlots : FreeBytes(f) \cap ChunkBytes = {}

(* No byte malloc gave is lost, and S_heap_size counts them all, as long as *)
(* malloc has not failed.                                                   *)
NothingLost ==
  ~failed =>
    /\ UNION ({LiveBytes(b) : b \in live} \cup {FreeBytes(f) : f \in FreeSlots}
                \cup {ChunkBytes}) = HeapBytes
    /\ S_heap_size = Cardinality(HeapBytes)
=============================================================================
