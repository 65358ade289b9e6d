----------------------------- MODULE HttpClient -----------------------------
(***************************************************************************)
(* The blocking HTTP client of http.c: connect, send one request, and read *)
(* the answer until the server closes or select has waited for five        *)
(* seconds in all.  The server answers in pieces, when it likes, and       *)
(* closes, falls silent, goes on for ever or resets the connection.        *)
(*                                                                         *)
(* The answer is the pieces 1, 2, ..., none of them with a NUL; a recv     *)
(* returns any number of them that fits the buffer.  What follows the      *)
(* first MaxPieces is not told apart: it may be any amount, without end.   *)
(***************************************************************************)
EXTENDS Integers, Sequences, Functions

CONSTANTS
  BufferPieces,   \* what fits the 1024 characters of buffer
  Budget,         \* tv: the ticks select may wait in all
  MaxPieces       \* bound: pieces of an answer that are told apart

ASSUME SizeAssumption == BufferPieces \in Nat \ {0} /\ Budget \in Nat /\ MaxPieces \in Nat

VARIABLES
  stage,        \* where the client is
  tv,           \* what select is told to wait at most
  buffer,       \* the characters in buffer, up to the first NUL
  result,       \* the text that send_request will return
  unread, more, \* pieces recv has not taken yet, and whether others follow
  sent, fin,    \* pieces the server has sent, and whether it has closed
  reset,        \* a reset that recv has not reported yet
  waited, wasReset    \* history: ticks spent in select; a reset came

clientVars == <<stage, tv, buffer, result>>
serverVars == <<unread, more, sent, fin, reset, wasReset>>
httpVars == <<clientVars, serverVars, waited>>

(* "noSocket" is send_request with the -1 of a failed create_socket. *)
Ended == {"returned", "crashed"}

Request == 0              \* the piece the buffer holds before the first recv
Beyond == MaxPieces + 1   \* a piece that is not told apart

HttpTypeOK ==
  /\ stage \in {"resolve", "connect", "send", "select", "recv", "noSocket"} \cup Ended
  /\ tv \in 0..Budget /\ waited \in Nat
  /\ \A s \in {buffer, result, unread} : Range(s) \subseteq 0..Beyond
  /\ sent \in 0..MaxPieces
  /\ {more, fin, reset, wasReset} \subseteq BOOLEAN

(* main connects to an address; client_commit has a name resolved first. *)
HttpInit ==
  /\ stage \in {"resolve", "connect"}
  /\ tv = Budget /\ waited = 0
  /\ buffer = <<>> /\ result = <<>> /\ unread = <<>>
  /\ more = FALSE /\ sent = 0 /\ fin = FALSE /\ reset = FALSE /\ wasReset = FALSE

(* Deliberate mistakes for the definition named in each comment. *)
ShortRead(len) == len < BufferPieces    \* EndOfAnswer: less than asked for
Rearmed == Budget                       \* Remaining: tv set in the loop
NegativeRead(len) == len < 0            \* EndOfAnswer: a failure only

EndOfAnswer(len) == len = 0

(* select leaves in tv what is left of it, as on Linux. *)
Remaining == tv - 1

-----------------------------------------------------------------------------
Resolve ==
  /\ stage = "resolve"
  /\ stage' \in {"connect", "returned"}
  /\ UNCHANGED <<tv, buffer, result, serverVars, waited>>

(* A failed connect gives -1, which nobody tests. *)
Connect ==
  /\ stage = "connect"
  /\ stage' \in {"send", "noSocket"}
  /\ UNCHANGED <<tv, buffer, result, serverVars, waited>>

(* The result of send is not looked at, and takes the news of a reset.      *)
Send ==
  /\ stage = "send"
  /\ buffer' = <<Request>>
  /\ stage' = "select"
  /\ reset' = FALSE /\ fin' = (fin \/ reset)
  /\ UNCHANGED <<tv, result, unread, more, sent, wasReset, waited>>

(* FD_SET(-1) is undefined: the fortified macro aborts, the plain one sets  *)
(* some bit, and select, which looks at no descriptor, waits to the end.    *)
NoSocket ==
  /\ stage = "noSocket"
  /\ \/ stage' = "crashed" /\ UNCHANGED <<tv, waited>>
     \/ stage' = "returned" /\ tv' = 0 /\ waited' = waited + tv
  /\ UNCHANGED <<buffer, result, serverVars>>

IsReadable == unread # <<>> \/ more \/ fin \/ reset

SelectReady ==
  /\ stage = "select" /\ IsReadable
  /\ stage' = "recv"
  /\ UNCHANGED <<tv, buffer, result, serverVars, waited>>

SelectWaits ==
  /\ stage = "select" /\ ~IsReadable /\ tv > 0
  /\ tv' = Remaining
  /\ waited' = waited + 1
  /\ UNCHANGED <<stage, buffer, result, serverVars>>

SelectTimesOut ==
  /\ stage = "select" /\ ~IsReadable /\ tv = 0
  /\ stage' = "returned"
  /\ UNCHANGED <<tv, buffer, result, serverVars, waited>>

Overwritten(pieces) == pieces \o SubSeq(buffer, Len(pieces) + 1, Len(buffer))

RecvData ==
  /\ stage = "recv" /\ unread # <<>>
  /\ \E len \in 1..BufferPieces :
       /\ len <= Len(unread)
       /\ buffer' = Overwritten(SubSeq(unread, 1, len))
       /\ unread' = SubSeq(unread, len + 1, Len(unread))
       /\ IF EndOfAnswer(len)
          THEN stage' = "returned" /\ UNCHANGED result
          ELSE stage' = "select" /\ result' = result \o SubSeq(unread, 1, len)
  /\ UNCHANGED <<tv, more, sent, fin, reset, wasReset, waited>>

(* The same of the pieces that are not told apart; result, which gets them  *)
(* as well, is recorded without them.                                       *)
RecvMore ==
  /\ stage = "recv" /\ unread = <<>> /\ more
  /\ buffer' = Overwritten(<<Beyond>>)
  /\ more' = FALSE
  /\ stage' = IF EndOfAnswer(1) THEN "returned" ELSE "select"
  /\ UNCHANGED <<tv, result, unread, sent, fin, reset, wasReset, waited>>

RecvEnd ==
  /\ stage = "recv" /\ unread = <<>> /\ ~more /\ fin /\ ~reset
  /\ stage' = IF EndOfAnswer(0) THEN "returned" ELSE "select"
  /\ UNCHANGED <<tv, buffer, result, serverVars, waited>>

(* recv reports the reset, once, with -1: realloc is asked for one byte     *)
(* less than the text needs, for none at all if there is no text, which     *)
(* gives NULL, and strncat appends all that the buffer holds.               *)
RecvFails ==
  /\ stage = "recv" /\ unread = <<>> /\ ~more /\ reset
  /\ reset' = FALSE /\ fin' = TRUE
  /\ \/ stage' = "crashed" /\ UNCHANGED result
     \/ result # <<>> /\ result' = result \o buffer /\ stage' = "select"
  /\ UNCHANGED <<tv, buffer, unread, more, sent, wasReset, waited>>

ClientStep ==
  \/ Resolve \/ Connect \/ Send \/ NoSocket
  \/ SelectReady \/ SelectWaits \/ SelectTimesOut
  \/ RecvData \/ RecvMore \/ RecvEnd \/ RecvFails

-----------------------------------------------------------------------------
(* The server (external) *)

Connected == stage \in {"send", "select", "recv"}

ServerSends ==
  /\ Connected /\ ~fin /\ ~reset /\ sent < MaxPieces
  /\ sent' = sent + 1
  /\ unread' = Append(unread, sent')
  /\ UNCHANGED <<clientVars, more, fin, reset, wasReset, waited>>

(* It has more to send, again and again.                                    *)
ServerGoesOn ==
  /\ Connected /\ ~fin /\ ~reset /\ sent = MaxPieces
  /\ ~more /\ more' = TRUE
  /\ UNCHANGED <<clientVars, unread, sent, fin, reset, wasReset, waited>>

ServerEnds ==
  /\ Connected /\ ~fin /\ ~reset
  /\ fin' = TRUE
  /\ UNCHANGED <<clientVars, unread, more, sent, reset, wasReset, waited>>

Reset ==
  /\ Connected /\ ~wasReset /\ ~fin
  /\ reset' = TRUE /\ wasReset' = TRUE
  /\ UNCHANGED <<clientVars, unread, more, sent, fin, waited>>

Done == stage \in Ended /\ UNCHANGED httpVars

HttpNext == ClientStep \/ ServerSends \/ ServerGoesOn \/ ServerEnds \/ Reset \/ Done

HttpSpec == HttpInit /\ [][HttpNext]_httpVars

(* The client goes on, and time passes; the server owes nothing. *)
HttpFairSpec == HttpSpec /\ WF_httpVars(ClientStep)

-----------------------------------------------------------------------------
(* Properties *)

Answer(n) == [i \in 1..n |-> i]

(* Unless the connection is reset, the client returns the answer as it was  *)
(* sent and from its start, however it is cut up; and it stops only at the  *)
(* end of it, or when the server's silences amount to the five seconds.     *)
AnswerIsRead ==
  ~wasReset =>
    /\ result \o unread = Answer(sent)
    /\ stage = "returned" /\ sent > 0 => unread = <<>> /\ ~more /\ (fin \/ waited = Budget)

(* The client waits for five seconds in all, and returns, unless the server *)
(* goes on for ever, as nothing bounds the rounds of the loop, or a failed  *)
(* connect or a reset leads to a crash.                                     *)
EndsInTime ==
  /\ [](waited <= Budget)
  /\ \/ <>(stage = "returned")
     \/ []<><<ServerGoesOn>>_httpVars
     \/ <>(stage = "crashed") /\ <>(stage = "noSocket" \/ wasReset)
=============================================================================
