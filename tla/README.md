# Formal models of study_example

The repository is a collection of small C and C++ programs and libraries. Most
of them show one feature of a library and keep no state of their own. Some are
real components, with the kind of logic that tests seldom reach: a hierarchical
timer wheel with a timer manager and a reactor adapter on it; a lock-free queue
with a blocking variant; a thread that records messages from such a queue into
files that are changed by size and time; and three pieces of network code, a
parser of multipart bodies, an HTTP client and a redis client that reconnects.
This directory holds TLA+ models of those, checked with TLC, and proofs about
them, checked with TLAPS.

## Inventory

| Part | Source | State | Operations | What makes it correct | Here |
|---|---|---|---|---|---|
| Timer core | `timer_wheel/itimer.c` 28-270 | five vectors of lists, `timer_jiffies`; per node `expires`, `state`, `head`, `core` | `itimer_core_init/destroy/run`, `itimer_node_init/destroy/add/del/mod`, the update loop and its callbacks | a node is called back at its tick, once, unless it was removed before; across cascades and the wrap of the clock; callbacks may do anything to any node | modelled, proved |
| Timer manager | `timer_wheel/itimer.c` 281-414 | `current`, `millisec`, `jiffies`; per event `period`, `slap`, `repeat`, `running`, `mgr` | `itimer_mgr_init/destroy/run`, `itimer_evt_init/destroy/start/stop`, `itimer_evt_cb` | no callback early, missing, extra, or after a stop | modelled, proved |
| `CTimerWheelMgr` | `timer_wheel/timer_wheel_mgr.cpp` | map from ids to events | `add_timer`, `del_timer`, `update_timer`, destructor | as many timeouts as seconds allow; none after `del_timer` | modelled, proved |
| `ReaderWriterQueue` | `lock_free/one_2_one/readerwriterqueue.h` | ring of blocks, each with `front`, `tail` and a copy of each | `enqueue`, `try_enqueue`, `try_dequeue`, `pop`, `peek` | a first-in first-out queue for two threads; empty and full are said only when true | modelled, proved (sequentially consistent memory) |
| `BlockingReaderWriterQueue`, `LightweightSemaphore` | the same, and `atomicops.h` 440-560 | `m_count`, `m_sema` | the same, and `wait_dequeue` | no lost wake-up, no wake-up to an empty queue | modelled, proved |
| `CTimerFile` | `timer_file/timer_file.hpp` | open stream, line count, sequence number, time of the last write | `write_data`, destructor | files keep to lines, bytes and hours, under failing system calls, kills and restarts | modelled, proved |
| `CRecordThread` | `timer_file/thread_record.hpp` | running flag, queue, file | `open`, `put_msg`, `stop`, `svc` | messages in order, none lost but at the end; the thread ends | modelled but for destruction, proved |
| Redis client | `async_redis_client/redis_client.hpp` | connection status, timer, back-off, who frees the context; one time of the last attempt for all clients | `connect`, `open`, `handle_timeout`, `handle_close` | it reconnects; contexts are freed once, and never under a command | modelled but for destruction, proved in part |
| HTTP client | `curl_http/happyhttp/happyhttp.cpp` | per connection the socket, request state and outstanding responses; per response the state of its parser | `putrequest`, `endheaders`, `pump`, `close`, callbacks | a request is told of its own answer, whole, however the stream is cut; it completes or fails | modelled, proved |
| Multipart parser | `http_chunk_data_decode/multipart_parser.c` | `state`, `index`, `lookbehind` | `multipart_parser_init`, `multipart_parser_execute` | the callbacks are told the same wherever the message is cut; every byte of a part is told | modelled, proved in part |
| INI files | `ini/` | table of sections and keys | load, set, save | what is saved is loaded | not modelled |
| Bit tricks, red packets | `swar`, `popcount`, `power2bits`, `php_hongbao` | none | expressions; a random drawing | equal to their definitions | not modelled |
| Examples, scripts, vendored and generated code | the other directories | none of their own | | | not modelled |

How they interact. `CTimerWheelMgr` calls the manager, which calls the core; the
core calls back `itimer_evt_cb`, which calls the user, who may call any of the
three again: the whole difficulty of the timers is that re-entrance, together
with 32-bit clocks that wrap. `CRecordThread` takes from a `ReaderWriterQueue`
that another thread puts into, and writes to a `CTimerFile`; the two threads
share the queue and a flag, and the log files outlive the process. The blocking
queue puts a semaphore beside the same queue. The three pieces of network code
stand alone: happyhttp calls the user back while it parses, and the user may
send the next request from there; the redis clients are driven by a reactor and
by hiredis, neither of which is in the repository, and affect each other
through one static variable.

## Modules

| Module | Models |
|---|---|
| `TimerSet` | what a timer core promises: a set of armed nodes with due ticks, and a clock |
| `TimerWheel` | the core; implements `TimerSet` |
| `DivMod` | arithmetic of division and remainder, for the proofs |
| `TimerWheelProofs` | proofs about `TimerWheel` |
| `TimerMgr` | the manager and its events, on `TimerSet` |
| `TimerWheelMgr` | `CTimerWheelMgr`, on `TimerMgr` |
| `TimerMgrProofs` | proofs about both |
| `Fifo` | what a queue promises |
| `SpscQueue`, `SpscQueueProofs` | `ReaderWriterQueue`, access by access; implements `Fifo`; proofs |
| `BlockingSpscQueue` | the blocking queue and its semaphore, on `Fifo`; proofs in `RecordThreadProofs` |
| `TimerFile` | `CTimerFile` and the directory |
| `RecordThread`, `RecordThreadProofs` | `CRecordThread`, on `Fifo` and `TimerFile`; proofs about these and about the other model on `Fifo` |
| `Multipart`, `MultipartProofs` | the multipart parser; proofs |
| `HttpConnection`, `HttpConnectionProofs` | `Connection` and `Response` of happyhttp, with a server; proofs |
| `RedisClient`, `RedisClientProofs` | redis clients, with reactor, hiredis and servers; proofs |
| `MC*` | instances for TLC |

**`TimerWheel`.** A node is in at most one list, so the lists are a function
`loc` from nodes to lists: a slot `<<vector, index>>`, the local list `Queued` of
the update loop, or `Out`. The sizes of the vectors are parameters (256 and 64 in
the code), the clock is exactly as wide as the five vectors, as in the code, and
shifts and masks are `\div` and `%`. `Update` is one turn of the loop of
`itimer_internal_update` up to the callbacks: all cascades, the increment, and
the move of the slot to the local list. `Fire` takes one node of the list,
`Return` ends its callback, and between the two (`CallerRuns`) every operation
of the interface may happen to every node, as often as one likes. `NodeAdd` stands for
`itimer_node_mod` too, whose delete it subsumes. The order within a list is left
open: `Fire` takes any node of it, so what is shown holds for every order.

**`TimerMgr`.** The events are the nodes of `TimerSet`. `itimer_mgr_run` is
`MgrRun`, then `CoreTick` (the core has a tick to process), `Advance` and
`MgrRunEnds`; `itimer_evt_cb` is `CbBegin`, `CatchUp` once for each period passed,
`CaughtUp`, `ArmNext`, and `CallUser`/`UserReturns` once for each callback of the
batch, `CbEnd`. In state `"user"` the user may start, stop, destroy and
re-initialise any event. `calls`, `base`, `plan`, `revoked` and `rewound` (a stamp
has stepped back) are history.

**`TimerWheelMgr`** adds the map from ids to events. `AddTimer` is the whole of
`add_timer`: allocation, init, start and the new id; `DelTimer` of a deleted id,
and `Destroy` after a `del_timer`, end in `asserted`.

**`SpscQueue`.** One action per load or store that the other thread can see;
loads and stores of a thread's own variables are joined to the next one. The two
threads' steps are named by their line (`"loadTail"`, `"publish"`...). A block
that is not allocated has size 0. `pop` is `try_dequeue` without its result.
`alloc` is whether `enqueue` or `try_enqueue` was called; malloc may fail
(`AllocFails`). `made` is what the constructor was called with. The state function
`Contents` is what the queue holds: the blocks from the front block to the tail block.

**`BlockingSpscQueue`** takes the queue as a `Fifo`, which is what the run of
`SpscQueue` justifies, and models each atomic access of the semaphore. How long
the consumer spins is left open. A wait that a signal interrupts is repeated, so
it is no step.

**`TimerFile`, `RecordThread`.** `write_data` is a chain of steps named by `fpc`
(create, check, recreate, write, stamp), between which the clock may tick, the
other thread may run and the process may be killed. A file's name is the second
and the sequence number modulo 10000. `fopen` and `fwrite` may fail. stdio keeps
the last messages in its buffer until the `fseek` of the next check, or the close,
flushes it: a kill loses any number of those (`FileKilled`). `FileRestarts` and
`Restarts` are the next program, which starts over from sequence number 0 in the
directory it finds, and appends to a file whose name is there already. A file
holds records of message, program and times of the call; a message is a number,
of one byte or three.

**`Multipart`.** The caller feeds a message in pieces of any length, one for each
call (`Execute`). Each state of `multipart_parser_execute` is an action named
after it, and takes one byte, or steps back for it to be read again; those that
fall through to the next state are one action with it. `mark` and `i` are the
locals of a call, `lookbehind` holds the bytes that may turn out to be a
boundary. `said` is the list of what the callbacks were told, where the pieces
of one value are joined.

**`HttpConnection`.** What travels is a sequence of tokens, so a line, a length
and a body can be cut anywhere, CR LF included. An answer of the server is given
by its status, how its body is framed and where its chunks end, whether it has a
body at all, whether a 100 comes first, and whether the connection closes after
it; `Text` is what is sent of it. `PutRequest`, `Connect`,
`EndHeaders` are `request`, from the user or from a callback, and may fail
(`ConnectFails`, `EndHeadersFails`); `Recv` takes any number of tokens that have
arrived; the actions named after the methods of `Response` parse one line, or
data; `BeginBody`, `ProcessData`, `Finish` call back, and wait in `"begin"`,
`"data"` and `"complete"` until the callback returns. An exception is `Throw`,
after which the user closes. The server (`Serve`, `ServerCloses`) answers requests
in order, may cut an answer short, or close for good.

**`RedisClient`.** Several clients, whose timers expire once a second. `Attempt`
is `connect`, `Reconnect`, `Waits` and `SendCommands` are the three ways through
`handle_timeout`, `Open` and `HandleClose` what hiredis calls back. The static
`last_tm` is one variable `since` for all the clients. What hiredis does with the
contexts is external, and taken as the comment on lines 271-273 says.

## Runs

| Run | Question | Bounds |
|---|---|---|
| `wheel_one` | is a node always in the right slot, and called back at its tick; does the update return | vectors of 2 and 3 slots: a clock of 162 ticks, all of them reached; one node; offsets at both edges of every vector and of the past |
| `wheel_two` | does the wheel implement `TimerSet` when callbacks act on other nodes | two nodes, symmetric; offsets for now, a coarser vector, and the past |
| `mgr` | early, missing, extra callbacks; callbacks after a stop; drift; lost or orphaned nodes; does the run return | two events with one of five plans each: periods 1, 2, 3, 5 with an interval of 2, repeated once, twice, for ever; stamps that go on by 5, jump by 12, and step back by 7 on a clock of 64; 2 ticks (`Horizon`) |
| `mgr_wrap` | *violated*: infinite events across the wrap of the clock | a clock of 32 ms |
| `wheel_mgr` | exact number of timeouts; silence after `del_timer` | two timers, symmetric; seconds of 3 ms; updates 0, 1 and 2 s apart |
| `wheel_mgr_delete` | *violated*: assertion of `itimer_node_destroy` | the same |
| `spsc` | is it a queue, are its assertions and answers right, is everything delivered | a block of 2 that grows twice by blocks of 4, and a ring for `maxSize` 4 of five blocks of 2 and one more; 7 items |
| `blocking` | balance of the semaphore, assertions, lost wake-ups | 6 items |
| `record` | limits of files, hours, order, losses by stop and by kill, end of the thread | 4 messages; 2 lines or 3 bytes a file; one failure; one restart; 3 seconds, the last of them in a new hour |
| `multipart` | are the callbacks told the same wherever the message is cut; does the parser stop where it is wrong; does each call return | boundary `--b`; one or two parts with up to two headers; 11 kinds of data that hold beginnings of the boundary; a wrong byte in any place where it is wrong; all cuts |
| `http` | does each request get its own whole answer; does it end; do the assertions hold | 2 requests, pipelined or not or from a callback; 8 kinds of answers; all cuts of the stream; any call may fail |
| `redis` | contexts freed once, commands to live ones; does every client get its connection back | 2 clients; a longest wait of 8 s (32 in the code), connecting takes up to 3 s |

Why the bounds are enough. The wheel's behaviour depends on where a tick falls
in each vector, and all 162 ticks with offsets on both edges of each vector show
every combination of cascades; two nodes are what it takes for one callback to
act on another node of its tick; the proofs then hold for every size. In the
manager, the plans have a period below, at and above the interval, so that one tick
covers several periods and several ticks one period; larger periods repeat the
same cases. `Horizon` bounds the ticks, not the behaviour of one. In the queue,
every block is entered, filled, left and re-entered, and a further one is
allocated in each place of the ring. Four messages fill one file and change to
the next in each of two programs. The data of the multipart messages break the
boundary off at each of its bytes and begin it again at once, and the cuts fall
in every state. Two requests are what pipelining takes; a third would wait as
the second does. In the redis run the waits 1, 2, 4, 8 lie on both sides of the time
connecting takes, which is what decides whether an attempt is given up; 16 s
and a latency of 9 s pass as well, as a longer run.

Bounds are named in their constants: `Horizon`, `MaxCount` (how far calls are
counted), `maxBlocks` of a queue, `MaxItems`, `MaxMsgs`, `EndTime`, `Failures`,
`MaxRestarts`, `MaxRequests`, `Latency`, `MaxLost`. The `VIEW`s of `mgr`,
`wheel_two` and `record` leave out variables that are written before they are next
read, as the comments of the MC modules say.

Deadlock is checked but for `wheel_mgr`, `wheel_mgr_delete`, `blocking`,
`record`, `http` and `redis`, where the program may stop: the manager is
destroyed, the consumer waits for a producer that is done, the thread has ended
or was killed, all requests are done, no client has a timer.

**Fairness.** `Loop` of the wheel and of the manager is sequential code that runs
on once it was called, and callbacks are assumed to return: weak fairness of the
loop, none of its callers. The same of a call of `multipart_parser_execute`. For
the queue, a call runs on once it has begun (weak fairness of its steps), and
the consumer calls `try_dequeue` again and again, as `CRecordThread::svc` does,
whatever it peeks at between (strong fairness of that call). For the semaphore,
the same of the steps of a call, and the spinning ends, as it does after 10000
rounds. The thread of `RecordThread` is scheduled. The user of happyhttp goes on
calling `pump`, as the loop of its README.md:189 does, and closes the connection
after an exception; the server answers or closes. For the redis clients, the
reactor calls the handlers whose time has come, time passes, and hiredis knows
the outcome of an attempt that is not given up within `Latency`.

## What was found

- `mgr_wrap`: `itimer_evt_cb` (line 328) compares due time and clock as plain
  unsigned numbers. After 2^32 ms the comparison goes wrong in both directions:
  an infinite event falls silent for up to the cap of 0x70000000 ticks, or is
  called back over and over in a burst.
- `wheel_mgr_delete`: `del_timer` leaves the id of the destroyed event in the map;
  a second `del_timer`, or the destructor, fails the assertion of
  `itimer_node_destroy` (line 107).

What follows no run refutes, because a property is stated with the exception, or
because it is outside of a model; each is a divergence that the models or the
reading for them showed.

- `timer_file.hpp`: the time of the last write is read after the write (line 209),
  so the change of file that "time base on hour" (line 174) asks for is missed
  when the hour ends during a write; `HourKept` excepts what follows such a
  write. File names repeat after 10000 files of one second, and a program
  restarted within the second appends to a file of the one before, whose lines
  it does not count: `LogInOrder` excepts files that two programs share, and `LimitsKept`
  is about what each program writes. With one sequence number in place of 10000
  TLC refutes `LimitsKept` in 15 steps: the program appends to its own file and
  counts its lines from 0. The theorems name what they need of the numbers.
- `itimer.c` line 286: `itimer_mgr_init` uses its stamp for the events' clock only.
  `ClockNotAhead` holds for managers initialised with stamp 0 (run `mgr`), as
  long as no stamp steps back, and for no small stamp above it.
- `happyhttp.cpp`: an answer without a body (204, 304, HEAD, or a length of 0) is
  complete only when more data comes (line 687), although `README.md:129` says that the callback is
  invoked once the response is completed; the documented loop
  `while(conn.outstanding()) conn.pump()` does not end then on a connection that
  stays open, and ends with an exception on one that closes. `ArrivedIsComplete` and
  `RequestEnds` except these answers. A request that a callback sends after the
  last answer of a connection that the server closes is discarded without an exception. A
  request that fails leaves its response outstanding, and the next `pump` fails
  the assertion of line 437 unless the user has closed the connection.
- `redis_client.hpp`: once a client was connected, the contexts of attempts that
  fail are never freed (`ContextsFreed` is about none freed twice, and none lost before
  that). As `last_tm` is static, a client whose server is down puts off the
  attempts of the others, for ever if the waits fall so: `Reconnects` is for
  servers that all stay up. A first `connect` that fails at once registers no
  timer, and nothing tries again.

## Proofs

All with TLAPS, for every value of the constants that the named assumptions
allow. Of the core: `SizeAssumption` (tv1 has a slot, the other vectors at least
three; the code has 256 and 64), `OffsetAssumption`, `NoneAssumption`. Of the
manager: `WordAssumption`, `IntervalAssumption`, `StampAssumption`,
`PlanAssumption`, `CountAssumption`, which say of which type the constants are. Of
`CTimerWheelMgr`: `SecondAssumption`, that `period*1000`, a product of C's `int`,
does not overflow.
Of the lock-free queue: `SizesAssumption`, `BlocksAssumption`, `ItemsAssumption`
(what is called a block, a size, a number of items), and `PowerAssumption`, that
there is a power of two between a size and its double, where the constructor
looks for one: tlapm knows no `^`, so TLC evaluates it. `FileAssumption` of the
log files (hours, limits and sequence numbers are positive), `ItemsAssumption` of the blocking queue,
`WaitAssumption` of the redis clients (connecting takes less than the longest
wait), `BoundaryAssumption` (it is not empty) and `MessagesAssumption` of the
multipart parser, `RequestsAssumption` and `AnswersAssumption` of the HTTP client.
The last of these is about the server, and leaves out the answers that the
client takes apart wrongly, see "Limits of the models": none without a
body is sent in chunks, an interim one is a 100 before the answer, and one whose
body nothing else ends says that the connection closes. Any numbers of chunks, of
any sizes, and any statuses are in it, also such that the client rejects. Four more are hypotheses of single theorems, and TLC confirms
that the runs are instances of them (`CoveredByTheorems` of the MC modules):
`BeforeWrap`, `ShortTick`, `SecondsBeforeWrap` and `EnoughNames`, see below.

- **Structure of the core** (`TimerWheelProofs`). `Structure`, the conjunction of
  `TypeOK`, `LinkedHasCore` and `QueuedOnlyInUpdate`, is inductive: `TypeCorrect`,
  `LinkedHasCoreTheorem`, `QueuedOnlyInUpdateTheorem`.
- **Time** (the same module). That nodes are called back on time is not
  inductive: it says nothing of a node in a coarse vector. `InReach` does: a node
  that expires at e is in a slot numbered by e of a vector k, and the ticks it has
  still to wait, counted from the start of the present slot of that vector, are
  at least one slot and less than one round and a slot. From the arithmetic of
  `DivMod` follow: adding a node puts it on course (`AddedOnCourse`); when a tick
  starts a slot, the cascade finds exactly the nodes due within that slot
  (`MeetsSlot`); any other node comes one tick nearer and stays on course
  (`StaysOnCourse`). `CascadedNode` puts these together over the five vectors, and
  `InReachTheorem` follows, then `NoneLeftBehindTheorem` and `OnTimeTheorem`.
- **Refinement** (the same). With the refinement mapping `dueOf` (the
  tick that a node's slot stands for), every step of the wheel is a step of
  `TimerSet` or a stutter: `Refinement`. It is what allows `TimerMgr` to use
  `TimerSet` in place of the wheel.
- **The manager** (`TimerMgrProofs`). `ArmedIffStarted` says that events and nodes
  agree. It becomes inductive with `MgrTypeOK` and `Phase`, which ties the place
  within `itimer_evt_cb` to the core's callback: `ArmedIffStartedTheorem`. With
  `Unrevoked` (an event that is in the manager or in the middle of its batch was
  not revoked) the invariant `IInv` gives `RevokedStaysQuietTheorem`, an action
  property. `Clocks` tells core and manager apart by at most the tick that is
  being processed, from which `InStepTheorem` follows; the comparison of ticks
  is of the sign of a difference on the circle of the clock (`Behind`).
- **The manager's time** (the same). `NeverEarlyTheorem`, `NoneMissedTheorem`,
  `RepeatsExactlyTheorem` and `InfiniteRepeatsTheorem` are for as long as nothing
  wraps: `BeforeWrap` says that the tick the manager can come to (`MaxTick`),
  and a period after it, are below the width of the clock, that no tick asked for
  is half the circle ahead and the bound on counts is not met (`ClockLasts`), and
  that periods are positive (`Lasts`). What becomes of `InfiniteRepeats` past the
  wrap is the run `mgr_wrap`. The properties speak of callbacks that were made; what is inductive
  counts those of the batch under way too (`Made`): `Books` dates the callbacks
  from the start of the event, `Repeats` adds them to the repetitions left, and
  `OnCourse` says what tick an event is armed for, given that the number of ticks
  to wait is rounded up. Together with `Times`, which says where the call of
  `itimer_mgr_run` under way will end, and `Batch`, they are the invariant
  `MInv`.
- **The stamps** (the same). `ClockNotAheadTheorem` needs no such bound: the clock
  may go round, and jumps be caught up with or not. It is for stamps from zero
  (`ShortTick`), of which none is half the circle, 24 days, ahead of the time the
  events see (`StampNear`); the property itself excuses steps back. The invariant,
  `NextTickNear`, says that on the circle the next tick lies between that time and
  a tick after the stamp. The run gives stamps a little further ahead as well.
- **The reactor's timers** (`TimerMgrProofs`). `CTimerWheelMgr` starts events that
  it has just made, with periods of its own, so the invariants above are shown of
  all that users may do to the manager (`NextOf`): the steps of `TimerMgr` are
  among them (`PeriodsCovered`) and those of `CTimerWheelMgr` too (`WheelMgrStep`).
  For `DeletedStaysQuietTheorem` the invariant (`WInv`) adds that the events of
  deleted ids are revoked, which no later `add_timer` undoes since ids are not
  given twice. `TimeoutsExactTheorem`, under `SecondsBeforeWrap`, needs that what was
  called back was due a tick ago by the time the next tick begins (`Settled`), and
  that the event of an id that was not deleted is not revoked (`Kept`), as no other
  id has the same event (`MapOK`); the quotient of the time by the period follows
  from `Books` and `Quotient`.
- **The lock-free queue** (`SpscQueueProofs`). The ring is a list in memory that
  grows behind the tail block, while the consumer moves the front block along it.
  The invariant (`QueueInvariant`) says that there are places on a circle for its
  blocks, from the front block on, and numbers for the items: those of a block
  follow those of the block before, and each item is the one that was put under
  its number. To that come what each thread knows of the other at each of its
  steps: what a copy of `front` or `tail` may lag behind, that the block the
  producer is about to enter has no items, that the one the consumer is about to
  enter has one, and how many items a full queue was found to have. The circle is
  chosen anew when a block is linked in (`Linking`) and when the consumer leaves
  one (`Leaving`). `AssertionsHoldAlways` follows directly. The items of the ring
  in their order are a recursive function of the front block (`Contents`); it is
  solved by the numbering, by an induction over the blocks from the tail block
  back, and gives `QueueIsFifo`: every step is one of `Fifo`, or none.
  `SlotsApartAlways` and `AnswersTrueAlways` are from the same invariant.
- **The semaphore** (`RecordThreadProofs`, last part). `Balanced` is inductive together
  with `BlockingTypeOK`: the count is the number of items less the unsignalled and the
  claimed one, and there is a post on its way exactly when the consumer sleeps
  with an item there. The assertions of the code follow (`AssertionsTheorem`).
- **The log** (`RecordThreadProofs`). The invariant (`Invariant`) follows a message
  on its way: the queue holds the last ones put, in order (`Queue`); `write_data`
  is done with all that were taken, but for the one in hand (`Done`); of those it
  is done with no more are missing in the files than calls have failed (`Lost`);
  and the buffer of stdio holds at most the last of them (`LastMsg`), which is
  why a kill costs no more: `LostOnlyAtTheEndTheorem`. `HourKeptTheorem` needs that
  the time of the last write is excused like those of the messages (`Hours`), as it
  is what `check_file` looks at. The limits need that `m_cur_file_line` counts
  what the program has written to the open file (`Counted`), and the order that
  the open file comes last (`Newest`). Both fail when the sequence number comes
  round within a second, so `LimitsKeptTheorem` assumes `Anew` (a file that is made
  is none that the program has written to) and `LogInOrderTheorem` assumes `InRound`
  (its name comes after theirs), at every step. `InRoundTheorem` derives both from
  `EnoughNames`, two numbers for every message, since `write_data` makes at most
  two files; `FewMessages` is the conclusion.
- **The multipart parser** (`MultipartProofs`). `NothingLost` says that the data told
  and those not told yet are the bytes of the part so far. Its induction needs
  `Held`: what `lookbehind` holds in each of the two states between data and a
  boundary, as its bytes are what is told when the boundary turns out not to be
  one. `NothingLostTheorem` is for any boundary, any message and any cuts.
- **The HTTP client** (`HttpConnectionProofs`). What the callbacks told says nothing
  of what is still on its way, so `OwnAnswers` is far from inductive. The
  invariant `IInv` speaks of places: a place is a line or a body in the text of
  the answer to some request, and how many of its tokens come before. Each token
  leads from a place to the next one (`Steps`), and a sequence of tokens from a
  place to another when there are places between for each of them (`Path`), so no
  induction over texts is needed but for the chunks of one answer
  (`PathOfChunks`). `IInv` says that the bytes received and not used yet, with those
  on the wire, lead from a place P to a place Q; that the members of the response
  being read, and what its request has been told, are what the answer up to P
  makes of them (`Matches`, one case for each state of the parser and place of the
  callbacks); that Q is the start of the next answer to be sent (u) while the
  server is up; and that the requests sent, the responses outstanding and the
  requests issued (nx) count on from each other. The actions are
  reduced to a few lemmas: a token that is read into a line (`LineStep`), the line that
  ends (one lemma for each `Process...Line`), and data of a body with or without
  chunks (`Taken`), where bytes are cut from the text at any place (`PathCut`).
  Serving appends the text of a whole answer (`PathOfText`); closing cuts it short.
  `OwnAnswersTheorem` follows from what `Matches` says of the data, `AssertionsHoldTheorem` as
  a path that begins where nothing more is answered is empty, and
  `ArrivedIsCompleteTheorem` as a place that no token of an answer follows is
  its end.
- **Redis contexts** (`RedisClientProofs`). The invariant adds `Owned` to the
  properties: a context is the client's to free until its first connection only,
  and none that hiredis has freed is. `CommandsTheorem` and `ContextsFreedTheorem`
  are for any number of clients and any longest wait.

The type invariants of `TimerWheel`, `TimerMgr`, `SpscQueue`, `BlockingSpscQueue`,
`RecordThread` and `RedisClient` are parts of the proved invariants and not checked by a
run.

Only model-checked:

- Liveness (`RunReturns`, `MgrRunReturns`, `Delivered`, `WaiterServed`,
  `TakenOrStopped`, `StopEnds`, `ExecuteReturns`, `RequestEnds`, `Reconnects`): the
  prover does not do fairness.
- `AsWhole` and `StopsAtWrong` of the multipart parser: they compare what the
  callbacks were told with a message that the MC module puts together from
  headers and data with folds, and with what a reader of it would say; what the folds
  give for every message is an induction over data.

## Limits of the models

- Memory is sequentially consistent. The fences of the queue are what makes that
  so; a model of weaker memory is not attempted. `m_running_flag`, a plain `bool`
  that another thread sets, is taken to be read again each time, which the sleep
  between the reads makes compilers do.
- `itimer_core_run` from within a callback, events started with period 0, the
  overflow of ids and of `period*1000` are not in the models.
- Construction and destruction of `CRecordThread` and of the queue are left out:
  no other thread may use them then, which nothing in the code enforces.
- A kill is one of the process: what the system has been given stays. Two
  programs do not write at once.
- `HourOf` divides the time; local time with its changes is not modelled.
- The multipart callbacks return 0, as those of `main.c` do.
- Of happyhttp are left out: lines that are malformed, but for the status line;
  HTTP/1.0 (line 754 compares with a misspelt name); HEAD or 304 answers that
  name a chunked body, and interim answers other than 100, both of which take the
  next answer for a part of this one; headers of a 100, which stay for the answer proper;
  a callback that calls `close`; `connect` over an open socket.
- Of the redis client are left out: the destructor and the deletion through
  `RE_MASK_DEL`, which need the reactor. What hiredis does with the context of an
  attempt that failed is modelled as the comment on lines 271-273 says; a version of
  hiredis that frees such contexts itself would make `connect` free them again.

## Not modelled

- INI files: text in, table out, single-threaded. The state of the C library is
  its table alone, and its behaviour is the wording of lines, which these models
  abstract from.
- Bit counting and rounding: expressions of a line or a table each, without
  state, that can be tested exhaustively.
- Red packets: a page of PHP that draws random amounts. What would have to be said
  of it is a distribution.
- The examples of libevent, select and PCRE, the process utilities, the tools in
  Go, Python, PHP and shell: main programs around a library or a service, with
  no state of their own.
- Vendored libraries (jsoncpp, msgpack, flatbuffers, protobuf, xsd) and the code
  generated for them, which are most of the repository's lines.

## Plan

The modules were written in the order of their importance to the system: the
wheel, the manager and the adapter; the queue and the semaphore; the files and
the thread; then the redis client, happyhttp and the multipart parser. All of
that is done. What could follow:

1. Places and paths, as in `HttpConnectionProofs`, for the multipart parser, whose
   messages would have to be described by their parts rather than by their
   bytes.
2. The queue under a store-buffer memory, where its fences would be actions.
3. Construction and destruction of `CRecordThread`, as far as a caller can be
   modelled that the code has not got.
