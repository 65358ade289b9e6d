------------------------------ MODULE DBClient ------------------------------
(***************************************************************************)
(* What the users of the connection pool do with a connection: the methods *)
(* of DBConn, PrepareStatement and UserTable against a MySQL server that   *)
(* may stop, and links that may break at any time, also while they idle in *)
(* the pool.  Every method pings first, and MYSQL_OPT_RECONNECT lets       *)
(* libmysql replace a broken link without telling.                         *)
(*                                                                         *)
(* The pool is its abstraction, ConnLease, which DBPool implements.  The   *)
(* server is modelled as far as the code can tell: one table, whose rows   *)
(* matter by their domain column, and transactions that are undone when    *)
(* their session ends.                                                     *)
(***************************************************************************)
EXTENDS Integers, Sequences, FiniteSets, Functions

CONSTANTS
  Threads, Conns, NULL,
  Plans,          \* the sequences of calls a thread may make with a connection
  MaxId,          \* bound: rows inserted into one table
  MaxTroubles     \* bound: broken links and server stops

ASSUME LeaseAssumption == NULL \notin Conns
ASSUME BoundAssumption == MaxId \in Nat \ {0} /\ MaxTroubles \in Nat

VARIABLES
  idle, lease,    \* of ConnLease
  plan,           \* the calls each thread has still to make, the current first
  step,           \* where it is in the call
  stmtOpen,       \* connections with a MYSQL_STMT that is not closed
  linked,         \* connections whose session at the server is alive
  inTrans,        \* connections libmysql believes to be in a transaction
  server,         \* what MySQL stores
  up, strict,     \* whether it answers, and its SQL mode
  troubles,
  call,           \* history: what became of each thread's latest call
  hurt,           \* history: threads whose link broke, or server was down, in it
  tx              \* history: the transaction it has begun, while unbroken

poolVars == <<idle, lease>>
connVars == <<stmtOpen, linked, inTrans>>
envVars == <<up, strict, troubles>>
history == <<call, hurt, tx>>
vars == <<poolVars, plan, step, connVars, server, envVars, history>>

Pool == INSTANCE ConnLease

Ids == 1..MaxId
User == 1         \* the row updateInfo and queryUser are asked for

Ops == {"drop", "create", "insert", "update", "updateAny", "query",
        "begin", "commit", "rollback"}

(* testCURD, which keeps its connection, testOneConnect, and workUsePool.   *)
CURD == [calls |-> <<"drop", "create", "insert", "query", "update", "query">>, keeps |-> TRUE]
OneConnect == [calls |-> <<"drop", "create">>, keeps |-> FALSE]
Job == [calls |-> <<"insert">>, keeps |-> FALSE]

(* Every StartTransaction of a plan has a Commit or Rollback after it.      *)
EndsTransactions(calls) ==
  \A i \in DOMAIN calls :
    calls[i] = "begin" => \E k \in (i + 1)..Len(calls) : calls[k] \in {"commit", "rollback"}

ASSUME PlanAssumption ==
  /\ Plans \subseteq [calls : Seq(Ops), keeps : BOOLEAN]
  /\ \A p \in Plans : EndsTransactions(p.calls)

RowValues == {"absent", "test", "naihan"}     \* domain, as the code writes it
Untouched == [i \in Ids |-> "kept"]           \* no row has an earlier value

NoCall == [op |-> "none", result |-> FALSE, answer |-> "none"]
NoTx == [on |-> FALSE, before |-> Untouched]

TypeOK ==
  /\ idle \subseteq Conns /\ lease \in [Threads -> Conns \cup {NULL}]
  /\ \A t \in Threads : Range(plan[t].calls) \subseteq Ops
  /\ step \in [Threads -> {"start", "hold", "send", "execute", "close", "done"}]
  /\ stmtOpen \subseteq Conns /\ linked \subseteq Conns /\ inTrans \subseteq Conns
  /\ server.rows \in [Ids -> RowValues] /\ server.trans \subseteq Conns
  /\ server.undo \in [Conns -> [Ids -> RowValues \cup {"kept"}]]
  /\ troubles \in 0..MaxTroubles
  /\ hurt \subseteq Threads

NoRows == [i \in Ids |-> "absent"]
NoUndo == [c \in Conns |-> Untouched]

Init ==
  /\ Pool!LeaseInit
  /\ plan \in [Threads -> Plans]
  /\ step = [t \in Threads |-> "start"]
  /\ stmtOpen = {} /\ linked = {} /\ inTrans = {}
  /\ \E table \in {"none", "empty", "used"} :
       server = [table |-> table # "none",
                 rows |-> IF table = "used" THEN [NoRows EXCEPT ![User] = "test"] ELSE NoRows,
                 next |-> IF table = "used" THEN User + 1 ELSE User,
                 trans |-> {}, undo |-> NoUndo]
  /\ up = TRUE /\ strict \in BOOLEAN /\ troubles = 0
  /\ call = [t \in Threads |-> NoCall]
  /\ hurt = {}
  /\ tx = [t \in Threads |-> NoTx]

(* Deliberate mistakes for the definition named in each comment. *)
NoReconnectOption == FALSE                  \* ReconnectOption: not set
CopiedText(op) ==                           \* Text: rollback sends "commit"
  IF op = "rollback" THEN "commit" ELSE IF op = "updateAny" THEN "update" ELSE op
KeptOnFailure(t, ok) ==                     \* StatementDeleted: on success only
  IF ok THEN stmtOpen \ {lease[t]} ELSE stmtOpen

(* DBConn::Init sets MYSQL_OPT_RECONNECT. *)
ReconnectOption == TRUE

(* The statement a method sends. *)
Text(op) == IF op = "updateAny" THEN "update" ELSE op

(* ExecuteUpdate returns 0, which is false, when rows were affected, and    *)
(* when none were unless it was told not to care.                           *)
UpdateResult(care, affected) == affected = 0 /\ ~care

(* queryUser: ResultSet::Next finds a row. *)
QueryResult(affected) == affected > 0

(* What a method returns; insertUser returns true in any case. *)
Result(op, answer, affected) ==
  \/ op = "insert"
  \/ /\ answer = "ok"
     /\ \/ op \in {"drop", "create", "begin", "commit", "rollback"}
        \/ op \in {"update", "updateAny"} /\ UpdateResult(op = "update", affected)
        \/ op = "query" /\ QueryResult(affected)

-----------------------------------------------------------------------------
(* The server: MySQL's part is external, the statements are the code's.     *)

(* The row as it was before the session's transaction changed it. *)
Remembered(s, c, i) ==
  IF c \in s.trans /\ s.undo[c][i] = "kept"
  THEN [s.undo EXCEPT ![c][i] = s.rows[i]]
  ELSE s.undo

Changed(s, c) == {i \in Ids : s.undo[c][i] # "kept"}

Committed(s, c) == [s EXCEPT !.trans = @ \ {c}, !.undo[c] = Untouched]

(* Sessions that end take their transactions with them: no two of them have *)
(* changed the same row.                                                    *)
Ended(s, cs) ==
  LET undoing(i) == {c \in cs : i \in Changed(s, c)}
  IN  [s EXCEPT !.rows = [i \in Ids |-> IF undoing(i) = {} THEN @[i]
                                        ELSE s.undo[CHOOSE c \in undoing(i) : TRUE][i]],
                !.trans = @ \ cs,
                !.undo = [c \in Conns |-> IF c \in cs THEN Untouched ELSE @[c]]]

RolledBack(s, c) == Ended(s, {c})

(* DROP TABLE IF EXISTS and CREATE TABLE commit first. *)
Dropped(s, c) == [Committed(s, c) EXCEPT !.table = FALSE, !.rows = NoRows, !.next = User]
Created(s, c) == [Committed(s, c) EXCEPT !.table = TRUE]

Inserted(s, c) ==
  [s EXCEPT !.rows[s.next] = "test", !.next = @ + 1, !.undo = Remembered(s, c, s.next)]

Updated(s, c) ==
  IF s.rows[User] = "absent" THEN s
  ELSE [s EXCEPT !.rows[User] = "naihan", !.undo = Remembered(s, c, User)]

(* setParam(uint8_t) binds sex and status as strings of length 0, which a   *)
(* server in strict mode refuses for an integer column.                     *)
EmptyForInteger == TRUE

Accepts(s, text) ==
  CASE text = "create" -> ~s.table
    [] text = "insert" -> s.table /\ ~(strict /\ EmptyForInteger)
    [] text \in {"prepare", "update", "query"} -> s.table
    [] OTHER -> TRUE

(* Waits for a transaction of another session, which may take longer than   *)
(* the server lets it wait.                                                 *)
Blocked(s, c, text) ==
  \E d \in Conns \ {c} :
    \/ text = "drop" /\ Changed(s, d) # {}
    \/ text = "update" /\ User \in Changed(s, d)

Served(s, c, text) ==
  CASE text = "drop" -> Dropped(s, c)
    [] text = "create" -> Created(s, c)
    [] text = "insert" -> Inserted(s, c)
    [] text = "update" -> Updated(s, c)
    [] text = "begin" -> [Committed(s, c) EXCEPT !.trans = @ \cup {c}]
    [] text = "commit" -> Committed(s, c)
    [] text = "rollback" -> RolledBack(s, c)
    [] OTHER -> s

(* The row the session of c would find: not what others did not commit.     *)
FindsUser(s, c) ==
  /\ s.rows[User] # "absent"
  /\ \A d \in Conns \ {c} : s.undo[d][User] # "absent"

(* The rows the server says were changed, or were found.  An update of an   *)
(* updated row changes it again when the second has changed in between.     *)
Affected(s, c, text) ==
  CASE text = "update" -> IF s.rows[User] = "absent" THEN {0}
                          ELSE IF s.rows[User] = "naihan" THEN {0, 1} ELSE {1}
    [] text = "query" -> IF FindsUser(s, c) THEN {1} ELSE {0}
    [] OTHER -> {1}

-----------------------------------------------------------------------------
(* libmysql (external): a command on a broken link first makes a new one,   *)
(* unless it believes a transaction to be open; it forgets that then.       *)
Relinked(c) ==
  IF c \notin linked /\ ReconnectOption /\ c \notin inTrans /\ up
  THEN linked \cup {c}
  ELSE linked

NoLongerBelieved(c) == IF c \in linked THEN inTrans ELSE inTrans \ {c}

Believed(s, c) == IF c \in s.trans THEN inTrans \cup {c} ELSE inTrans \ {c}

-----------------------------------------------------------------------------
(* The threads *)

(* GetDBConn: an idle connection, a new one, or NULL, when it could not      *)
(* connect, or when a NULL was released.                                    *)
GetDBConn(t) ==
  /\ step[t] = "start"
  /\ \/ \E c \in Conns : Pool!Lend(t, c) /\ step' = [step EXCEPT ![t] = "hold"]
                         /\ UNCHANGED linked
     \/ \E c \in Conns : Pool!LendNew(t, c) /\ step' = [step EXCEPT ![t] = "hold"]
                         /\ up /\ linked' = linked \cup {c}
     \/ step' = [step EXCEPT ![t] = "done"] /\ UNCHANGED <<poolVars, linked>>
  /\ UNCHANGED <<plan, stmtOpen, inTrans, server, envVars, history>>

(* Every method begins with mysql_ping, whose result nobody looks at. *)
Ping(t) ==
  LET c == lease[t] IN
  /\ step[t] = "hold" /\ plan[t].calls # <<>>
  /\ linked' = Relinked(c)
  /\ inTrans' = NoLongerBelieved(c)
  /\ step' = [step EXCEPT ![t] = "send"]
  /\ call' = [call EXCEPT ![t] = [NoCall EXCEPT !.op = Head(plan[t].calls)]]
  /\ hurt' = IF up THEN hurt \ {t} ELSE hurt \cup {t}
  /\ UNCHANGED <<poolVars, plan, stmtOpen, server, envVars, tx>>

(* A command on its way to the server and back: it is not sent, served,     *)
(* refused, or the link breaks before the answer is read.                   *)
Transmit(c, text, answer, affected) ==
  \/ /\ c \notin Relinked(c)
     /\ answer = "none" /\ affected = 0
     /\ linked' = linked /\ inTrans' = NoLongerBelieved(c)
     /\ UNCHANGED <<server, troubles>>
  \/ /\ c \in Relinked(c)
     /\ Accepts(server, text) /\ ~Blocked(server, c, text)
     /\ answer = "ok" /\ affected \in Affected(server, c, text)
     /\ linked' = Relinked(c)
     /\ server' = Served(server, c, text)
     /\ inTrans' = Believed(server', c)
     /\ UNCHANGED troubles
  \/ /\ c \in Relinked(c)
     /\ ~Accepts(server, text) \/ Blocked(server, c, text)
     /\ answer = "refused" /\ affected = 0
     /\ linked' = Relinked(c) /\ inTrans' = NoLongerBelieved(c)
     /\ UNCHANGED <<server, troubles>>
  \/ /\ c \in Relinked(c)
     /\ troubles < MaxTroubles /\ troubles' = troubles + 1
     /\ answer = "none" /\ affected = 0
     /\ \/ server' = Ended(server, {c})
        \/ /\ Accepts(server, text) /\ ~Blocked(server, c, text)
           /\ server' = Ended(Served(server, c, text), {c})
     /\ linked' = linked \ {c} /\ inTrans' = NoLongerBelieved(c)

(* What the history says once the command is over. *)
NotedTx(t, answer) ==
  LET x == tx[t]
      op == call[t].op
  IN  IF answer = "none" \/ (answer = "ok" /\ op \in {"commit", "rollback", "drop", "create"})
      THEN NoTx
      ELSE IF answer = "ok" /\ op = "begin" THEN [NoTx EXCEPT !.on = TRUE]
      ELSE [on |-> x.on,
            before |-> [i \in Ids |->
              IF x.on /\ x.before[i] = "kept" /\ server'.rows[i] # server.rows[i]
              THEN server.rows[i] ELSE x.before[i]]]

Noted(t, answer, affected) ==
  /\ call' = [call EXCEPT ![t] =
       [op |-> @.op, answer |-> answer, result |-> Result(@.op, answer, affected)]]
  /\ hurt' = IF troubles' = troubles THEN hurt ELSE hurt \cup {t}
  /\ tx' = [tx EXCEPT ![t] = NotedTx(t, answer)]

NextCall(t) ==
  /\ plan' = [plan EXCEPT ![t].calls = Tail(@)]
  /\ step' = [step EXCEPT ![t] = "hold"]

(* A method that sends one statement. *)
Send(t, ops) ==
  /\ step[t] = "send" /\ call[t].op \in ops
  /\ \E answer \in {"none", "refused", "ok"}, affected \in {0, 1} :
       /\ Transmit(lease[t], Text(call[t].op), answer, affected)
       /\ Noted(t, answer, affected)
  /\ NextCall(t)
  /\ UNCHANGED <<poolVars, stmtOpen, up, strict>>

ExecuteDropOrCreate(t) == Send(t, {"drop", "create"})
ExecuteUpdate(t) == Send(t, {"update", "updateAny"})
ExecuteQuery(t) == Send(t, {"query"})
Transaction(t) == Send(t, {"begin", "commit", "rollback"})

(* PrepareStatement::Init *)
StmtPrepare(t) ==
  /\ step[t] = "send" /\ call[t].op = "insert"
  /\ stmtOpen' = stmtOpen \cup {lease[t]}
  /\ \E answer \in {"none", "refused", "ok"}, affected \in {0, 1} :
       /\ Transmit(lease[t], "prepare", answer, affected)
       /\ Noted(t, answer, affected)
       /\ step' = [step EXCEPT ![t] = IF answer = "ok" THEN "execute" ELSE "close"]
  /\ UNCHANGED <<poolVars, plan, up, strict>>

(* PrepareStatement::ExecuteUpdate.  A statement prepared on a link that    *)
(* broke is not sent again, although the link is replaced.                  *)
StmtExecute(t) ==
  LET c == lease[t] IN
  /\ step[t] = "execute"
  /\ \/ /\ c \in linked
        /\ server.next <= MaxId
        /\ \E answer \in {"none", "refused", "ok"}, affected \in {0, 1} :
             /\ Transmit(c, "insert", answer, affected)
             /\ Noted(t, answer, affected)
     \/ /\ c \notin linked
        /\ linked' = Relinked(c) /\ inTrans' = NoLongerBelieved(c)
        /\ UNCHANGED <<server, troubles>>
        /\ Noted(t, "none", 0)
  /\ step' = [step EXCEPT ![t] = "close"]
  /\ UNCHANGED <<poolVars, plan, stmtOpen, up, strict>>

StatementDeleted(t, ok) == stmtOpen \ {lease[t]}

(* delete stmt *)
StmtClose(t) ==
  /\ step[t] = "close"
  /\ stmtOpen' = StatementDeleted(t, call[t].answer = "ok")
  /\ NextCall(t)
  /\ UNCHANGED <<poolVars, linked, inTrans, server, envVars, history>>

insertUser(t) == StmtPrepare(t) \/ StmtExecute(t) \/ StmtClose(t)

(* The plan is over: RelConn, but not in testCURD. *)
RelConn(t) ==
  /\ step[t] = "hold" /\ plan[t].calls = <<>>
  /\ step' = [step EXCEPT ![t] = "done"]
  /\ IF plan[t].keeps THEN UNCHANGED poolVars ELSE Pool!GiveBack(t)
  /\ UNCHANGED <<plan, connVars, server, envVars, history>>

-----------------------------------------------------------------------------
(* Links and server *)

InCall(t) == step[t] \in {"send", "execute", "close"}

(* The calls that are under way on these connections, and the transactions. *)
Hurt(cs) ==
  /\ hurt' = hurt \cup {t \in Threads : lease[t] \in cs /\ InCall(t)}
  /\ tx' = [t \in Threads |-> IF lease[t] \in cs THEN NoTx ELSE tx[t]]

LinkBreaks(c) ==
  /\ c \in linked
  /\ troubles < MaxTroubles /\ troubles' = troubles + 1
  /\ linked' = linked \ {c}
  /\ server' = Ended(server, {c})
  /\ Hurt({c})
  /\ UNCHANGED <<poolVars, plan, step, stmtOpen, inTrans, up, strict, call>>

ServerStops ==
  /\ up /\ up' = FALSE
  /\ troubles < MaxTroubles /\ troubles' = troubles + 1
  /\ linked' = {}
  /\ server' = Ended(server, Conns)
  /\ Hurt(Conns)
  /\ UNCHANGED <<poolVars, plan, step, stmtOpen, inTrans, strict, call>>

ServerStarts ==
  /\ ~up /\ up' = TRUE
  /\ UNCHANGED <<poolVars, plan, step, connVars, server, strict, troubles, history>>

Terminated == (\A t \in Threads : step[t] = "done") /\ UNCHANGED vars

ThreadStep(t) ==
  \/ GetDBConn(t) \/ Ping(t) \/ insertUser(t) \/ RelConn(t)
  \/ ExecuteDropOrCreate(t) \/ ExecuteUpdate(t) \/ ExecuteQuery(t) \/ Transaction(t)

Next ==
  \/ \E t \in Threads : ThreadStep(t)
  \/ \E c \in Conns : LinkBreaks(c)
  \/ ServerStops \/ ServerStarts
  \/ Terminated

Spec == Init /\ [][Next]_vars

-----------------------------------------------------------------------------
(* Properties *)

(* A link that broke before the call, in the pool or in a transaction, does *)
(* no harm to it: a call gets no answer only when its own link breaks or    *)
(* the server is down while it is under way.                                *)
StaleLinksHeal ==
  \A t \in Threads :
    step[t] \in {"hold", "close"} /\ call[t].op # "none" /\ call[t].answer = "none"
      => t \in hurt

(* A connection comes back to the pool with no open statement and no open   *)
(* transaction, whatever failed while it was lent to a thread that ends the *)
(* transactions it begins.                                                  *)
IdleIsClean == idle \cap (stmtOpen \cup server.trans) = {}

(* A transaction whose link held out keeps what it wrote when Commit        *)
(* succeeds, and none of it when Rollback does.                             *)
EndsTransaction(t, op) ==
  /\ tx[t].on /\ step[t] = "send" /\ step'[t] = "hold"
  /\ call'[t].op = op /\ call'[t].result

TransactionHolds ==
  [][\A t \in Threads, i \in Ids :
       tx[t].before[i] # "kept" =>
       /\ EndsTransaction(t, "commit") => server'.rows[i] # tx[t].before[i]
       /\ EndsTransaction(t, "rollback") => server'.rows[i] = tx[t].before[i]]_vars
=============================================================================
