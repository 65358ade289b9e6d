# TLA+ models of CPP-Project

The repository is a collection of small C and C++ systems: a thread pool and a MySQL
connection pool with two demo programs, a skip-list timer, an STL-style memory pool, two
epoll reactors, two HTTP clients, a GUID generator and a sketch of an observer pattern.
This directory holds TLA+ models of them, TLC configurations that check the models on small
instances, and TLAPS proofs for all instances.

## 1. Inventory

| Component | State | Operations | Talks to | What is hard | Correct when |
|---|---|---|---|---|---|
| Thread pool (`线程池连接池/ThreadPool.h`) | job list, job count, closed flag, mutex, 3 conditions | `Init`, `AddJob`, `Destroy`, `threadpoll_function` | client threads, jobs' callbacks | interleaving, lost wakeups, teardown under use, failed `pthread_create` | no job lost or run twice; nobody sleeps through its event; the pool is released only when drained and joined |
| Connection pool (`DBPool.cpp`, `ThreadNotify.cpp`) | free list, connection count, lock and condition | constructor, `Init`, `GetDBConn`, `RelConn`, destructor | worker threads, MySQL | waiting without timeout, failed connects, the limit | one user per connection; count = open connections; every sleeper is woken; nothing leaks |
| Demo programs (`main_ThreadPool.cpp`, `main_DBPool.cpp`, `workUsePool`, `WorkNoPool`) | position of main, jobs in flight, the pool of a job | submit, destroy, delete | both pools | order of teardown, ignored results, an early return | every accepted task served once; the pools outlive their users; main returns |
| Database client (`DBConn.cpp`, `PrepareStatement.cpp`, `ResultSet.cpp`, `TableOPerator.h`) | MySQL handle with its link, statement, bound parameters, row cursor | connect, ping, execute, prepare, bind, fetch, transactions | MySQL | links that break while they idle, reconnects nobody hears of, results whose sense is inverted | a stale link does no harm; a transaction is kept whole or not at all; a connection comes back clean |
| Skip-list timer (`SkipListTimer/`) | towers of forward pointers, level, length, clock | `Add_timer`, `Del_timer`, `expire_timer` | handlers | equal expiry times, integer widths, random levels | each armed timer fires once, not before its time and not after it was cancelled; no pass forgets one |
| Memory pool (`STL/stl_alloc.cpp`) | 16 free lists, the chunk, heap size | `allocate`, `deallocate`, `_S_refill`, `_S_chunk_alloc` | malloc | left-over bytes, failing malloc | live blocks, free blocks and the chunk never overlap |
| Reactor (`Reactor/`, `HttpReactor/`) | map of handlers, epoll set, per-handler status | register, remove, event loop, accept, receive | epoll, sockets, clients | descriptor reuse, partial failure, events of a batch that overtake each other | table, epoll set and open descriptors agree |
| Asynchronous HTTP client (`HttpClient/async_http.c`) | one socket and one `ep_arg` per request, epoll set | request, event loop of the thread, callback | DNS, TCP | a thread using what another frees; descriptors used again | each request is called back once and its descriptor is closed |
| Synchronous HTTP client (`HttpClient/http.c`) | one socket, buffer, text read so far, time left | resolve, connect, send, `select` and `recv` | DNS, TCP | partial reads, one time limit shared by all waits, errors used as lengths | the answer is returned whole and in order; it ends within its time |
| GUID generator (`MakeGuid.c`) | counter | `main` | clock | integer width, restarts | ids made in one second differ, and their fields can be read back |
| Observer pattern (` 观察者模式实现任务模块/`) | - | declarations only | - | - | - |

How the modelled parts interact: `main` calls `Threadpool::Init`, which starts the workers;
`AddJob`, `Destroy` and the workers share the job list under `m_mutex` and wake each other
through `QueueNotEmpty`, `QueueNotFull` and `QueueEmpty`. A job is a callback
(`workUsePool`) that runs outside that mutex and calls `GetDBConn` and `RelConn`, which
share the free list under `m_free_notify`, whose single condition wakes threads that wait
for a connection. Between the two calls the job uses its connection alone: the methods of
`UserTable` and `DBConn` send statements to MySQL over a link that libmysql may have to
replace.

## 2. Modules

| Module | What it is |
|---|---|
| `JobService` | abstract: what a thread pool promises (accept in order, run once, close when nothing is pending, release when nothing runs) |
| `ThreadPool` | `ThreadPool.h`, one action per critical section; implements `JobService` |
| `ConnLease` | abstract: what a connection pool promises (a connection is lent to one thread at a time, and closed only when nobody has one) |
| `DBPool` | `DBPool.cpp` with the lock and condition of `ThreadNotify.cpp`; implements `ConnLease` |
| `PoolApp` | `main_ThreadPool.cpp` with `workUsePool` and `WorkNoPool`: the composition of `ThreadPool` and `DBPool` |
| `DBClient` | `DBConn.cpp`, `PrepareStatement.cpp` and `TableOPerator.h` against MySQL: what is done with a connection; built on `ConnLease` |
| `TimerService` | abstract: what a timer promises (once, not early, in order, not after a cancel), with the one exception the code makes for a handler that arms a timer with no delay |
| `SkipListTimer` | `SkipListTimer/`: the list with its towers, the loop of `main`, the clock; implements `TimerService` |
| `StlAlloc` | `STL/stl_alloc.cpp`: free lists and chunk over addresses |
| `Reactor` | `Reactor/` (and the same code in `HttpReactor/`): event loop and handlers against the kernel and the clients |
| `AsyncHttp` | `HttpClient/async_http.c`: main, the event thread and the servers |
| `HttpClient` | `HttpClient/http.c`: the blocking client against a server |
| `Guid` | `MakeGuid.c`: several processes that make ids and restart |
| `MC...` | instances for TLC: plans of calls, symmetry sets; the `.cfg` files give the constants |
| `ThreadPoolProofs`, `DBPoolProofs`, `DBClientProofs`, `SkipListTimerProofs`, `StlAllocProofs`, `ReactorProofs` | inductive invariants and theorems |
| `CProgramProofs` | the same for the three programs written in C: `AsyncHttp`, `HttpClient` and `Guid` |
| `PoolAppProofs` | theorems of the composition, from those of its two parts |

### ThreadPool

All shared fields are accessed with `m_mutex` held, so the code between taking the mutex
(or coming back from a `pthread_cond_wait`) and giving it up is one action. A thread that
waits on a condition sits in `notEmpty`, `notFull` or `queueEmpty`; a broadcast or a signal
moves it to the point where the loop condition is tested again. After its unlock,
`ThreadPool_Destroy` goes on in separate steps (two broadcasts, join, teardown) that other
threads interleave with.

- `m_queue` stands for the list from `m_head` to `m_tail`; `m_CurQueueJobNum` is kept apart
  because the code tests the count and manipulates the pointers. `accepted` and `taken` are
  history: the jobs in the order `AddJob` linked and workers unlinked them.
- A worker whose `pthread_create` failed is `unstarted`; joining it, joining a thread twice
  and locking the destroyed mutex are undefined behaviour and lead the caller to
  `undefined`, where nothing more is said of it. Such a worker is in `MayNotStart`.
- `Orderly` says whether clients stop calling `AddJob` before anybody calls `Destroy`, as
  `main` does, or race with it. `SpuriousWakeups` lets every wait return unsignalled.
- `AddRefuse` covers the closed pool and a failed `malloc`.
- Left out: the elapsed-time print, `get_tick_count`, and a `thread_num` or `queue_max_num`
  below zero.

### DBPool

`GetDBConn` holds the lock while it connects, so each of its outcomes is one action: wait,
pop, open a connection, fail to open one. `live` is the set of `DBConn` objects that exist.
`NullReleasers` are the threads written like `workUsePool` and `main`, which call `RelConn`
whatever `GetDBConn` returned; the others are written like `testOneConnect`. `phase` is
what the owner of the pool did: constructed it, initialised it (or failed to), deleted it.
`MaxConn` is any integer, because it comes from `atoi`. To `ConnLease` the free list without
its NULLs is `idle`, and `conn` is `lease`.

### PoolApp

A step of the program is a step of `ThreadPool` with `DBPool` at rest or the reverse; only
`JobEnd` is a step of both: `RelConn` is the last thing a callback does. `mainAt` is the line
`main` has reached. `use_pool` is the third argument of the program: with it a job is
`workUsePool`, without it `WorkNoPool`, which makes a pool for itself, so that nobody else can
touch that pool and only its creation and its end are steps. `privateEnds` counts, for each
worker, the private pools it deleted and those it left behind because `Init` failed;
`OneConnectionPerTask` says that these and the calls of `GetDBConn` make one for each task.
`DBPool` alone assumes that its owner deletes it when its users are done; `PoolApp` has no such
guard on `DeletePools`, and `UsesConnPool` checks that the program lives up to the assumption.

### DBClient

A thread takes a connection from the pool, makes the calls of its `plan` with it and gives
it back. The plans are those of `testCURD` (`CURD`, which keeps the connection until its
pool dies), `testOneConnect` (`OneConnect`) and the jobs (`Job`); `MCDBClient` adds callers
of the transaction methods and of `ExecuteUpdate` with `care = false`, which no program of
the repository has. A call is the ping and one statement, or for `insertUser` the ping, the
prepare, the execute and the delete of the statement, each a step, so that links break and
the server stops between any two.

- The link of a connection is in `linked` while its session is alive. A command on a broken
  link replaces it, because `Init` sets `MYSQL_OPT_RECONNECT`, unless libmysql believes a
  transaction to be open (`inTrans`): then it fails once and forgets the transaction. A ping
  is such a command, and its result is not looked at. A statement prepared on a link that
  broke is not sent again.
- `Transmit` is one command: it is not sent, refused, served, or served or not and its
  answer lost. `server` is what MySQL stores: whether the table is there, the `domain` of
  its rows, the next id, the open transactions with what their rollback restores (`undo`).
  A statement that waits for a row another session has changed is refused (`Blocked`), as
  after a lock wait timeout. All this is external and goes as far as the code can tell.
- `strict` is the server's SQL mode: `setParam(uint8_t)` binds an empty string
  (`PrepareStatement.cpp:101`), which a strict server refuses for an integer column.
- `call` is history: of a thread's latest call the method, its result and what the server
  answered. `hurt` holds the threads whose link broke, or whose server was down, during that
  call, and `tx` the transaction a thread has begun, with the rows before it, while its link
  holds out.
- Left out: snapshot isolation (a query sees what is committed and what its own session
  wrote), the time until a broken session is noticed at the server, `mysql_stmt_init` without
  memory, `GetInsertId`, which only feeds a `printf`, the columns other than `domain`, and
  `~DBConn`, which is `~DBPool`'s last step. That there are never more than `MaxConn`
  connections is `DBPool`'s business. `setParam` lets an index equal to the count pass
  (`PrepareStatement.cpp:53`); its only caller counts from 0 to the count, exclusively.

### SkipListTimer

`nxt[n][i]` is `m_level[i]->m_next` of node `n`; `Header` has no score, because no walk
compares it. `Insert_node` and `Del_node` are one action each, the list having one user: their
walks are the recursive functions `Walk` and `Temp`. `expire_timer` is four actions (read the
time, find the head due and call its handler, the handler's return with `Del_HeadNode`, leave),
because handlers may add and delete timers in between and the clock may tick. A delay may be 0,
of a handler too. `Insert_node` puts a node before those of the same score (`skiplist.cpp:43`),
so a timer that a handler arms with no delay, in the second in which its own was due, comes
before it, and `Del_HeadNode` deletes that one: `AfterHandler` gives it the status `dropped`,
and the one that fired is `armed` again. A node exists (`live`) from `new` to `delete`;
`status` and `expiry` are what its user may expect of it, `expiry` on a clock that does not
wrap.

- `Words` stands for the `2^32` values of `int` and `uint32_t`; an `unsigned long` has `Words *
  Words`. `StoredScore` is the way of a score through the `int` parameter of the constructor.
  The runs start in second 26 or 27, when the millisecond clock, which is cut to one word, has
  wrapped once: `Round` is what it has lost, and it is what must be added to a time of the
  program to compare it with `expiry`.
- `LevelInUse` is what the loop that lowers `m_level` leaves, given the header's new pointers.
- `drawn` is the level `RandomLevel` draws. It seeds with `time(0)` at each call, so the
  level changes with the second only.
- The main run lets a program have timers of one expiry time, but delete none beside another
  of the same time; `CancelsTwins = TRUE` lifts that (see findings). `DirtyHeap` is a heap
  whose memory has been used before: the constructor sets only the slots of `m_level` up to
  the drawn level, and the destructor deletes what it finds in the others, which may abort
  the program (`DestructorAborts`). `ScoreRead` is what `Del_timer` may find at a pointer
  whose node is gone.
- Left out: `~SkipList`, which nobody calls, and a call of `Del_timer` for a timer that has
  fired.

### StlAlloc

An address is a number and a free list is the sequence of its blocks' addresses. `allocate` is
one action for each way through it: from the list, from the chunk, from a new chunk (after no
or one failed `malloc`), and from the null pointer after two. `live` holds the blocks in use
with the size that was asked for, and `heap` the chunks `malloc` gave. A chunk is at any of the
addresses in `Places` (for the proofs, any set of them), below, between or above the other
chunks and right next to one or not, as long as it shares no byte with them: that is all the
code may expect of `malloc`. `malloc` may fail at any call; `failed` remembers that it did, and
`crashed` that the program went on with a null pointer.

### Reactor

One event of a batch is one action (`HandAccept`, `HandAcceptFail`, `HandRecv`), and so is
`epoll_wait`; the clients connect, send and hang up in between. `sock` is the kernel's
table of descriptors, `watched` its epoll set, and `ep_events` the descriptors in the
reactor's map. Only the presence of an entry is modelled: the handle that stays in the map
serves a later connection on the same descriptor just as its own would. `accept` returns the
lowest free descriptor, as POSIX says, and may find none; `fcntl` and `epoll_ctl` may fail,
and `failures` counts how often they did.

### AsyncHttp

`async_http_client_request` is two actions, to the socket that is connected and from there to
`epoll_ctl`; the thread's handling of an event is four (take it, `recv` and callback,
`epoll_ctl` and `close`, `free`), since main may take over the descriptor after `close` and the
`ep_arg` after `free`. `sockfd` is the field of each allocated `ep_arg`, and `asked` the
request it was allocated for, whose callback it carries; `watched` says which `ep_arg` epoll
keeps for a descriptor. `arrived` holds the requests with data that `recv` has not taken, and
`calls` counts the callbacks of each request, whatever they were called with. Every call may
fail, and `failed` remembers that one did.

### HttpClient

`send_request` is one action for each return of `select` and `recv`. The answer is the pieces
1, 2, ..., `MaxPieces`, and any number of pieces after these, which are not told apart: `more`
says that such a piece has come, and `ServerGoesOn` sends another each time the last was read,
without end if it likes. `recv` returns any number of those that have arrived, up to what the
buffer holds; `buffer` is what its characters are after that, since nothing clears it. `tv` is
what `select` is still told to wait: on Linux, which the program is written for, `select`
writes back what is left, so the five seconds are for all silences together. `waited` counts
them, and `wasReset` remembers that the connection was reset.

- A reset makes `recv` return -1, which the code uses as a length: `realloc` gets one byte
  too few, or size 0, which gives NULL, and `strncat` appends the whole buffer. The model
  lets the program crash, or go on with the buffer's old text appended when there is room
  by chance.
- A failed `connect` returns -1, which is used as a descriptor (`noSocket`): `FD_SET` aborts,
  or sets some bit that `select` ignores, and the wait runs out.
- A failed `send` is not looked at; a reset it reports is not reported to `recv` again.

### Guid

A process is a pair of server and index. The fields are constants, given by how many numbers
they hold (`Times` is 2^29, `Ints` 2^32); the run uses small ones that keep the proportions
that matter, which are stated in `MakerFields`: an `int` holds eight times as many
numbers as the time field, since 32 is 29 + 3, and the increment at least eight. The `main`
of the file makes one id and ends; `Generate` runs the same lines as often as the comments
of the file mean them to run. `kept` holds up to `MaxKept` ids, chosen freely, so that two
compare every pair.

## 3. Runs

| Run | Bounds | What it shows |
|---|---|---|
| `pool_shared` | 2 workers of which one may be missing, 3 clients of which 2 destroy, 3 jobs, queue of 2, spurious wakeups | `QueueAccounting`, `ExactlyOnce`, `NoMissedWakeup`, `DrainedBeforeRelease`, and that the pool implements `JobService` (`ServiceSpec`) while it is destroyed under its clients; liveness: `AcceptedJobsRun`, `AddReturns`, `DestroyReturns` |
| `conn_shared` | 4 threads of which 2 release NULL, 3 connection objects, limit 2, 2 calls each | `AllAccountedFor`, `NoMissedWakeup`, and that the pool implements `ConnLease` (`LeaseSpec`); liveness: `GetReturns` |
| `conn_null` | 2 threads that release NULL | `NullOnlyOnFailure` violated, see findings |
| `app_main` | 3 workers, 3 tasks, queue of 2, 2 connections; jobs of both kinds | `TasksServed`, `MutexOutlivesUsers`, `UsesConnPool`, no deadlock; liveness: `ProgramEnds` |
| `db_main` | 2 threads with any of 6 plans, 2 connections, 3 rows, 2 troubles (a broken link or a stop of the server) | `StaleLinksHeal`, `IdleIsClean`, `TransactionHolds`, no deadlock |
| `timer_main` | 3 nodes, 3 levels, 3 adds with delays of 0 and 3, and of 0 and 1 in handlers; 2 seconds, memory used before | towers, counts and order (`LevelsAreSublists`), `ArmedIsListed`, `PassLeavesNothingDue`, the list as a `TimerService`; liveness: `DueTimersFire` |
| `timer_twins` | 2 nodes, 2 levels | `ArmedIsListed` violated, see findings |
| `alloc_main` | 4 lists, refills of 3 blocks, 3 sizes, 3 chunks at any of 3 places, 3 blocks in use, failing `malloc` | `NoOverlap`, `NothingLost` |
| `reactor_main` | 3 clients, 5 connections, 2 descriptors, failing `accept`, `fcntl` and `epoll_ctl` | `NoStaleEvent`, `OnlyFailuresLeak`, `ClosesOnlyFinished`; liveness: `FinishedAreClosed`, `QueuedAreAccepted` |
| `async_main` | 3 requests, 2 descriptors, 2 `ep_arg`s, data that comes any number of times, failing calls | `EventsAreValid`, `NothingLeftBehind`, `CalledOnce`; liveness: `AnsweredAreCalled` |
| `http_client` | answers of 5 pieces and any number more, 3 of which fit the buffer, 3 ticks of patience | `AnswerIsRead`; liveness: `EndsInTime`; no deadlock |
| `guid_main` | 2 processes, 10 ids between restarts, 3 seconds | `NoRepeatWithinSecond` violated, see findings |

Why the bounds are enough: two sleepers of each kind tell a signal from a broadcast; a queue of
two has an empty, a middle and a full state, so the broadcasts at `m_head == NULL` and at
`m_QueueMaxNum - 1` are tried at the right and at the wrong moment; one job more than the queue
holds blocks a client, and a worker may be missing, so that the other serves all. Two
connections and four threads give two holders and two sleepers, so a signal that is skipped
when the list is not empty is noticed. `Rounds` bounds the calls of a thread; two are enough
for a thread to meet what its earlier call left behind. Two threads of `DBClient` are a session
and another that reads, locks or drops what the first writes; two troubles break a link once
before the ping and once after it, or stop the server and break a link. Three nodes on three
levels give towers of every relative height, and a node that fired is used again; with delays
of 0 and 1 a handler's timer comes before its own, at the head of the list behind it, or
further on. Refills of three blocks leave two in a list, so that a link too many or too few
shows; the sizes of the lists leave remainders of several sizes in a chunk, and the three
places put a second and a third chunk below, between and above the earlier ones. With fewer
descriptors than clients, and more connections than clients, descriptors are used again while
older events are pending, and `accept` fails; with two descriptors and two `ep_arg`s for three
requests, both are used again. Five pieces and a buffer of three fill the buffer exactly,
overwrite it partly, and leave old characters behind the new. What comes after the fifth piece
has no end, so no bound makes the client return. Runs where the system may really stop (a
client need not call again, a missing worker hangs Destroy, `malloc` failed twice) say
`CHECK_DEADLOCK FALSE`.

Every model of a component whose variables are more than counters states its type invariant
(`TypeOK`, `HttpTypeOK`), and each of these is proved (section 5), so that the runs spend
their properties on what the code could get wrong. Symmetry is used only in runs without
liveness properties.

### Fairness

`ThreadPool` assumes weak fairness of each worker's and each client's own steps: a thread
the scheduler can run does run, `pthread_mutex_lock` does not starve it, and every callback
returns. Nobody is obliged to call the pool, and a spurious wakeup is never owed. Jobs are
finite in number, so a client cannot be overtaken for ever on a full queue. `DBPool` assumes
that a thread inside `GetDBConn` goes on and that a connection is given back, which
`workUsePool` does on every path. `PoolApp` assumes the same of `main` and of every worker;
there the number of calls is bounded by the program itself. `SkipListTimer` assumes that
the endless loop of `main` goes on and that handlers return; `Reactor` and `AsyncHttp` that
the loop of the event thread goes on; `HttpClient` that its client goes on, which includes
that `select` returns when its time is up. No client, server or clock owes anybody a step, and
neither does the `main` of `AsyncHttp`. `DBClient` states no liveness: a ping or a statement
may wait for as long as the network lets it, and the code sets no timeout.

## 4. Findings

`conn_null`: after one failed connect `workUsePool` releases the NULL it got
(`ThreadPool.h:261`), `RelConn` queues it (`DBPool.cpp:99`) and a later `GetDBConn` hands it
out as if it were a connection, although the server may be reachable again. The README of
the directory (line 104) says that a job gets a connection, uses it and gives it back.
`CarefulCallersShareNoFailure` proves that a test of the pointer, as in `testOneConnect`,
removes the problem.

`timer_twins`: `Del_node` takes the first node with the score of its argument
(`skiplist.cpp:97`): with two timers of one expiry time `Del_timer` frees the other one.

`guid_main`: line 10 of `MakeGuid.c` says that fewer than 65536 ids made in a second do not
repeat. The increment of an id is shifted as an `int` (line 60), so that three bits of it
survive, and the ninth id repeats the first. With the third bit set it is negative and borrows
from the index field. `RepeatsEveryEighth` (section 5) says exactly which ids are equal.

Seen in the code while modelling, and without a run of their own:

- A score passes through an `int` (`skiplistnode.cpp:7`) and is stored with its sign
  extended: from `2^31` on it is larger than any score searched for, the list is not in
  order and such a timer is never due. The clock is in that range for 24 of every 49 days;
  `timer_main` stays below it.
- A timer that a handler arms with no delay in the second in which its own was due is deleted
  unfired, and the handler's own fires a second time: `Insert_node` goes before equal scores
  (`skiplist.cpp:43`), and `main.cpp:17` deletes whatever is first. `TimerService` allows
  this exchange (`Exchange`) and nothing else; `PassLeavesNothingDue` and `DueTimersFire` hold
  all the same, since the timer that takes the other's place is due.
- The destructor of a node deletes the slots of `m_level` that the constructor left
  uninitialised (`skiplistnode.cpp:24`). The model ends the program there.
- The second `malloc` of `_S_chunk_alloc` is not checked (`stl_alloc.cpp:104`), and after a
  first failure the loop of lines 86-103 loses blocks. `NothingLost` excuses both.
- `HandRecv` closes a descriptor without `RemoveEventHandle` (`EventHandle.cpp:61`): the map
  keeps an entry for every descriptor ever used, which is what `test_loginfo` prints as
  current connections, and the next handle on the descriptor is stored nowhere
  (`Reactor.cpp:48`). `NoStaleEvent` shows that events still reach the right connection.
- The HTTP server answers nothing, where its README promises a 404 page.
- `DBConn::ExecuteUpdate` returns 0, which is false, when rows were affected, and true when
  none were and `care` is false (`DBConn.cpp:76`). `updateInfo` (`TableOPerator.h:142-145`)
  takes true for a success and false for a failure, and `main_DBPool.cpp:77-81` prints what it
  returns, so that a success is never reported. `Result` and `UpdateResult` are the code's; no
  property states them, since one would only repeat them.
- `insertUser` returns true whatever became of its statement (`TableOPerator.h:119`), and on a
  strict server its statement is always refused, because `sex` and `status` are bound as
  empty strings (`PrepareStatement.cpp:101`).
- Every method ignores the result of its ping. Inside a transaction a broken link fails the
  ping, which makes libmysql forget the transaction and reconnect at the next command: the
  rest of the transaction runs, and is kept, without its beginning, and nobody is told.
  `TransactionHolds` speaks of transactions whose link holds out.
- `WorkNoPool` returns without deleting its pool object when `Init` fails
  (`ThreadPool.h:270`); `TasksServed` counts these too (`privateEnds`).
- `http.c` uses the -1 of a failed `connect` and of a failed `recv` as a descriptor and as a
  length (lines 44 and 83-90). `AnswerIsRead` excuses a connection that was reset, and
  `EndsInTime` allows a crash after one of these and no other.
- Nothing bounds the rounds of `http.c:76-93`: a `select` that finds the socket readable costs
  nothing of `tv`, so a server that keeps sending keeps the client reading. `EndsInTime`
  names this as the one way not to return.
- `HandAccept` leaves a connection open and unwatched when `fcntl` or `epoll_ctl` fails
  (`EventHandle.cpp:23-30`, `EventDemultiplex.cpp:44`): each failure costs a descriptor for
  good, and, as `OnlyFailuresLeak` says, nothing else does.
- The asynchronous client calls back after a single `recv` (`async_http.c:74`): an answer of
  several segments is cut off.

## 5. Proofs

`ThreadPoolProofs` proves, for every set of workers, clients and jobs and every queue bound,
`TypeOK`, `QueueAccounting`, `ExactlyOnce`, `NoMissedWakeup`, `DrainedBeforeRelease`,
`MutexOutlivesUsers` and `ServiceSpec`. The invariant `IInv` is their conjunction
strengthened by two parts:

- `HandOver`: a worker runs a job exactly when it holds one, and a client inside `AddJob`
  holds a job nobody else passes. Without it `ExactlyOnce` is not inductive.
- `CloseOrder`: a closed pool has an empty list, an exited worker or a Destroy past its wait
  implies a closed pool, a dead mutex implies a Destroy that has finished, and, if clients
  are orderly, a client inside Destroy is alone. Without it the teardown and `NoMissedWakeup`
  after the close cannot be justified.

There is one lemma per action (`WorkerTakeKeeps`, ...), with one step per conjunct.
`DrainedBeforeRelease` follows at the join: all workers have exited, so none holds a job; the
list is empty, so `accepted = taken`; hence every accepted job has run. `ServiceSpec` is
proved by mapping each action to a step of `JobService` or to a stutter
(`TakeStarts`, `EnqueueAccepts`, ...).

`DBPoolProofs` proves, for every finite set of threads and connections and every integer
limit, `TypeOK`, `ExclusiveUse`, `AllAccountedFor`, `NoMissedWakeup`, `LeaseSpec`, and
`NullOnlyOnFailure` when no caller releases NULL. `NoMissedWakeup` counts: the list is
never longer than the set of threads on their way to it, because `RelConn` adds at most one
of each and a pop removes one of each. `LeaseSpec` needs `ExclusiveUse` before and after the
step: a pop of the head takes a connection out of `idle` only because the list has no pointer
twice, and a NULL in the list is a stutter.

`DBClientProofs` proves, for every number of threads and connections, all plans and any number
of troubles, `StaleLinksHeal`, and `OneUser`: a connection has one user, and nobody makes a
call without one. `StaleLinksHeal` is not inductive; `IInv` adds

- `OneUser`, since a command changes the link of its own connection, and only that of nobody
  else's because no connection has two users;
- `PingHelped`: after the ping the link is up, or libmysql is free to replace it and the server
  answers, unless the thread is in `hurt`; and a prepared statement has its link. This is what
  the ping is for, although its result is ignored: it uses up the one failure that libmysql
  owes an open transaction.
- `CallsTold`: which call the record is about at each step.

It also proves `IdleIsClean` and `TransactionHolds`, from `TxInv`, which relates what the
threads think to what the server keeps:

- `Sessions`: no two sessions hold the same changed row, and only a session whose link is
  alive has a transaction.
- `PlansGoOn`: a session's transaction belongs to a lent connection whose thread still has the
  commit or the rollback among the calls ahead of it, and an open statement to the call that
  is running. So a connection that comes back is clean: an interrupted transaction was rolled
  back with its session.
- `TxTold`: a row the transaction has not changed is as it was at its begin, or another session
  has it; a row it has changed has its old content in `undo`, for the rollback.

`SkipListTimerProofs` proves `LevelsAreSublists`, `ArmedIsListed`, `PassLeavesNothingDue` and
`TimerServiceSpec` for any number of nodes and levels, any clock and any delays, 0 included,
under two hypotheses, which are those of the main run: `~CancelsTwins` and `TimesFit`, no time
the program handles is in the upper half of a word (both findings of section 4 say what happens
otherwise; TLC evaluates `TimesFit` in `MCSkipListTimer`). `Listed(place)` says that `place` is
an order of the nodes and that each level links a node to the next one high enough.

- A search is recursive, but no induction theorem is used, only that a set of numbers has a
  least one (`LeastNatural`). `IsLast` says where a search ends: at the last smaller node of
  its level, and there is one (`LastExists`). The recursive function of `Walk` has a solution,
  and every solution ends there (`WalkEnds`): the last node from which one did not would have
  a next one from which it did not either. `TempIsLast` goes down the levels in the same way.
- Inserting makes room at the place behind `Temp`; `InsertLinks` shows every pointer of every
  level right for the new order. Deleting closes a place, `DeleteLinks`; `DeletesThatNode`
  says that without twins the first node with the score of the argument is the argument.
- `IInv` adds `Keyed` (a score is the expiry time less `Round`, so the order of scores is that
  of expiry times), and `Handled`: while a handler runs, the head of the list is the node that
  fired or one of the same score, and the latter only if handlers may pass 0. A timer added
  with a delay expires later than the time the pass read and does not become the head. So
  `Del_HeadNode`, which deletes whatever is first, deletes a node that was due at the time read
  (`HeadIsDeleted`), and if it is not the one that fired, that one is the next to be found. For
  this `StoredScore` and the remainder of the clock are shown to lose nothing (`ClockGoesOn`,
  `TimesAreKept`).

`StlAllocProofs` proves `NoOverlap` and `NothingLost` for any alignment, number of lists,
refill count and sizes asked for, and wherever `malloc` places its chunks. The pieces of a
state (blocks in use, free blocks, the rest of the chunk) are given as arguments to the
predicates, so that a lemma speaks of a change of pieces and not of an action. `Arranged` says
that the pieces are pairwise apart and that each lies inside one of the chunks: a new chunk is
apart from every chunk (`NewChunk`), hence from all pieces. `Inv` adds that the rest of the
chunk is a whole number of `ALIGN`: otherwise the rest that is put on a list before a new chunk
is asked for would not be as large as that list's blocks. The lemmas follow the ways through
`allocate`: a block taken from a list, a piece put on one, blocks carved from the front of the
chunk (which needs the arithmetic of `Steps` and `Division`), a new chunk. `NothingLost` adds
`Covered`: a byte of the heap is in one of the pieces, and each of those changes covers what
was covered before.

`PoolAppProofs` proves, for any number of workers, tasks and connections, that the program is
a program of the thread pool (`AppSpec => Spec`) and lives up to what the connection pool
assumes of its users (`UsesConnPool`), that `MutexOutlivesUsers` holds of it, and `TasksServed`.
Every step of the program is a step, or a stutter, of each of the two pools
(`StepsOfThreadPool`, `StepsOfConnPool`), so that the invariants proved of a pool hold of the
program and need no second proof. `AppInv` says what connects the two: `MainProgress`, how
far `main` is and so what it may call; `JobsUse`, that a thread inside `GetDBConn` or with a
connection is a worker whose job runs, or `main` before it makes the workers; and `Attributed`,
that the jobs that have run can be handed to the workers so that each worker called `GetDBConn`,
or ended a pool of its own, once for every job of its own. `DeletePools` comes after
`ThreadPool_Destroy`, when no job runs, hence when nobody uses a connection.

`ReactorProofs` proves `NoStaleEvent`, `OnlyFailuresLeak` and `ClosesOnlyFinished` for any
clients, descriptors and number of connections. The invariant adds `OnePlace`: a connection is
at one place, in the backlog or on one descriptor. Hence receiving from or closing one
descriptor says nothing about the client of another, and `accept`, which takes a free
descriptor, takes none that an event of the batch is about. `ClosesOnlyFinished` follows from
`NoStaleEvent`: an event with no data to receive is about a client that hung up.
`OnlyFailuresLeak` counts the descriptors that are open and not watched: `accept` adds its
descriptor to them exactly when a call after it fails (`HandAcceptLeaks`), since a descriptor
that was free is not one of them, and the close of an event's descriptor, which is watched, takes
none away (`HandRecvLeaks`).

`CProgramProofs` has three parts that share no state; it extends `AsyncHttp`, `HttpClient` and
`Guid`, which is why the last two have an `HttpSpec` and a `GuidSpec` in place of a `Spec`.

*The asynchronous client.* `EventsAreValid`, `NothingLeftBehind` and `CalledOnce`, for any
requests, descriptors and `ep_arg`s. The invariant adds `Paired` (epoll's table and the
`ep_arg`s point to each other, and main's descriptor is in neither yet), `OwnArg` (an `ep_arg`
about to be freed is out of epoll and of the batch) and `CalledIsOver` (a request that was
called back has been so once and has no descriptor but the one about to be closed), from which
`CalledOnce` follows: the `ep_arg` whose callback runs was `asked` by the request its descriptor
belongs to, which has therefore not been called.

*The blocking client.* `AnswerIsRead` for a buffer and an answer of any length, endless ones
included, and `WaitIsBounded`, the part of `EndsInTime` that is no liveness: all rounds of the
loop together wait no longer than the one `timeval` says. `HttpInv` adds that nothing is sent
before there is a connection (so the first piece that comes is the first of the answer), that
what is left in `tv` and what was waited add up to the limit, and that a reset not yet reported
has come. The step that matters is `recv`: what it takes from the front of what has arrived
goes to the end of the text (`TakenInOrder`), so that the two together stay what they were,
however the buffer cuts them; a piece the server sends extends both sides (`AnswerGoesOn`).

*The ids.* `RepeatsEveryEighth`, which says when two ids are equal and what can be read back
from one, for any makers and any fields that satisfy `MakerFields` and any `StartTime` in
`Nat`, both of which are hypotheses of the theorem; the 14, 4, 16 and 29 bits of the file are
one such choice. An id is what it was made of (`GuidInv`), so all is arithmetic, which rests on
`QuotientUnique`: a number is a multiple of the divisor plus a remainder in only one way.
`ShiftedIncrementIs` says what is left of a count after the shift of an `int`: the count modulo
8 with a sign, times `Times`. `LowIs` says why a negative one does no harm to the server: it
borrows from the index, which is at least 1, so that the two together stay a number their
fields hold. `SameId` takes two equal ids apart, field by field, and `ReadBack` finds time and
server.

`TypeOK` is proved of every module that has one: as `TypeCorrect` of `ThreadPool`, `DBPool`,
`DBClient`, `SkipListTimer`, `StlAlloc`, `Reactor` and `AsyncHttp`, and as `HttpTypeCorrect`
of `HttpTypeOK` in `HttpClient`. That of `DBClient` needs `IInv` and `TxInv`: a statement is
open only on a connection, and a plan still consists of calls, because of what these say.

The assumptions are the named `ASSUME`s of the modules, which TLC evaluates in every run, and the
hypotheses named above (`TimesFit`, `~CancelsTwins`, `MakerFields`, `StartTime \in Nat`).

Only model-checked: all liveness (`AcceptedJobsRun`, `AddReturns`, `DestroyReturns`,
`GetReturns`, `ProgramEnds`, `DueTimersFire`, `FinishedAreClosed`, `QueuedAreAccepted`,
`AnsweredAreCalled`, `EndsInTime`), which needs fairness and ENABLED. Every other property of
a passing run is the statement of a theorem. Of `SkipListTimer` with twins, or with times in the
upper half of a word, nothing is proved: the list is not in order there.

## 6. Not modelled

Left out: the observer pattern (declarations without code), `HttpServer.cpp` (not
in the Makefile, called by nobody), `WaitTime` of `ThreadNotify.cpp`, `RemoveEventHandle`,
`~Reactor`, `async_client_uninit` and `~SkipList` (no caller), the wording of what is printed,
and MySQL, epoll and TCP beyond what the code can tell of them. `HttpReactor/` has no model of
its own: it differs from `Reactor/` in what it prints and in an unused buffer.
