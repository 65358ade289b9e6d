-------------------------------- MODULE Guid --------------------------------
(***************************************************************************)
(* The ids of MakeGuid.c: server, process index, increment and time packed *)
(* into 64 bits by every process on its own, with no coordination.  The    *)
(* main of the file is a fragment that makes one id and ends; its comments *)
(* (line 10) mean it to be run many times a second by a server process,    *)
(* which is what Generate does.                                            *)
(***************************************************************************)
EXTENDS Integers, FiniteSets

CONSTANTS
  Servers, Indexes,      \* serverid and serverindex of the processes
  ServerNumbers,         \* 2^14
  IndexNumbers,          \* 2^4
  Increments,            \* 2^16
  Times,                 \* 2^29
  Ints,                  \* 2^32, the values of int
  StartTime,             \* time(NULL) at the start
  MaxTime,               \* bound: seconds that pass
  MaxIds,                \* bound: ids a process makes between two starts
  MaxKept                \* bound: ids that are kept to be compared

(* Server and index fit their fields, an int has three bits more than the  *)
(* time, and the increment at least those three.                           *)
MakerFields ==
  /\ {ServerNumbers, IndexNumbers, Increments, Times} \subseteq Nat \ {0}
  /\ Servers \subseteq 0..(ServerNumbers - 1)
  /\ Indexes \subseteq 1..(IndexNumbers - 1)
  /\ Ints = 8 * Times /\ Increments % 8 = 0

VARIABLES
  now,              \* time(NULL)
  g_IncrementId,    \* of each process
  kept              \* some of the ids made, with what they were made from

guidVars == <<now, g_IncrementId, kept>>

Makers == Servers \X Indexes

(* The sign bit of an id is reserved. *)
Ids == 0..(ServerNumbers * IndexNumbers * Increments * Times - 1)

GuidInit ==
  /\ now = StartTime
  /\ g_IncrementId = [m \in Makers |-> 0]
  /\ kept = {}

(* What an int holds of a number. *)
AsInt(n) ==
  LET bits == n % Ints
  IN  IF bits < Ints \div 2 THEN bits ELSE bits - Ints

(* tmp << 29 is shifted as an int, before it is added to m_Guid. *)
ShiftedIncrement(count) == AsInt(AsInt(count) * Times)

(* nTime &= ~(7 << 29) leaves the lower 29 bits. *)
KeptTime(t) == t % Times

MakeGuid(m, count, t) ==
  m[1] * (IndexNumbers * Increments * Times)
    + m[2] * (Increments * Times)
    + ShiftedIncrement(count) + KeptTime(t)

(* An id is kept for comparison, or not: with room for two, every pair is.  *)
Generate(m) ==
  LET count == g_IncrementId[m]
      new == [maker |-> m, time |-> now, count |-> count,
              id |-> MakeGuid(m, count, now)]
  IN  /\ count < MaxIds
      /\ \/ Cardinality(kept) < MaxKept /\ kept' = kept \cup {new}
         \/ UNCHANGED kept
      /\ g_IncrementId' = [g_IncrementId EXCEPT ![m] = @ + 1]
      /\ UNCHANGED now

(* g_IncrementId is in memory only. *)
Restart(m) ==
  /\ g_IncrementId[m] > 0
  /\ g_IncrementId' = [g_IncrementId EXCEPT ![m] = 0]
  /\ UNCHANGED <<now, kept>>

Second ==
  /\ now < StartTime + MaxTime
  /\ now' = now + 1
  /\ UNCHANGED <<g_IncrementId, kept>>

GuidNext == Second \/ \E m \in Makers : Generate(m) \/ Restart(m)

GuidSpec == GuidInit /\ [][GuidNext]_guidVars

-----------------------------------------------------------------------------
(* Properties *)

(* Line 10: "in theory, fewer than 65536 ids made in a second do not        *)
(* repeat", as the increment has 16 bits.  Said of the ids one process made *)
(* in one second with different increments, all of them below 2^16.         *)
NoRepeatWithinSecond ==
  \A r, s \in kept :
    /\ r.maker = s.maker /\ r.time = s.time
    /\ r.count # s.count /\ {r.count, s.count} \subseteq 0..(Increments - 1)
    => r.id # s.id
=============================================================================
