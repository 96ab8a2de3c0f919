# Verification of cls: TLA+ models, TLC runs and TLAPS proofs

The repository is a small publish/subscribe system for Linux boxes, written in
C++ on libevent: a broker (`ipc_core`), a client library (`common/EvClient`), a
binary framing protocol (`common/ProtocolInc`), a log subscriber that stores
lines in SQLite (`log_server`), a lidar driver that publishes scans
(`lidardata_pub`), a timer service (`timer`) and a debug console (`debug`).
This directory models it in TLA+, checks it with TLC on small instances and proves
with TLAPS, for all instances, every safety property that these checks found to hold.

Everything is translated from the sources; where libevent, TCP, SQLite, the tty or
the lidar take part, they are modelled from how the sources use them and marked
*external*.

## 1. Inventory

| Component | State | Operations | Interacts through |
|---|---|---|---|
| **EvTcpHandler** (`ipc_core/EvTcpHandler`) | `m_map_bfevnt_vecuint8` (receive buffer per connection), `m_map_bfevnt_listvecProtocol` (the batch being handled), `m_mutex`, an event thread and a handler thread, `m_runFlag` | `ListenerCb`, `ConnReadCb`, `ConnEventCb` (event thread); `GetProtocalData`, the loops of `TaskGetProtocolDataAndHandle`, `SendDataToClient`, `DisconnectClient` (handler thread); `Init`, `Start`, `Deinit` | libevent callbacks; the virtuals `GetOneProtocolData` and `HandleOneProtocolData` |
| **EvCoreServer** (`ipc_core/EvCoreServer`), the broker | `m_map_pubname_listsubbev` (subscribers per name), `m_map_bfevnt_heartbeatinfo`, a mutex of its own | `ProcPub`, `ProcSub`, `ProcSubCancel`, `ProcPubQuery`, `ProcHeartBeat`, the echo of anything else; `CheckClientStatus` (no caller: commented out at EvCoreServer.cpp:45) | subclass of EvTcpHandler |
| **ProtocolInc** (`common/ProtocolInc`) | none | `MakeProtocol`, `GetOneProtocol`, `IsValid`, `NeedRead` | called by broker and client on their receive buffers |
| **EvClient** (`common/EvClient`) | `m_bev`, `m_vecBuffer`, `m_mutex`, an event thread, a heartbeat timer | `Connect`, `ConnReadCb`, `ConnEventCb` (reconnects), `TimerCbkHeartBeat`, `PubMsg`, `SubMsg`, `SubMsgCancel`, `GetMsg`, `GetLog` | TCP to the broker; base class of LogServer, used by the driver and the demos |
| **LogServer** (`log_server`) | `m_runFlag`, a thread | `LogTask`: subscribe to "log", then poll `GetLog` and store | EvClient, Sqlite3InterfaceLog |
| **EvTimer** (`timer`) | `m_map_evtimer_flag`, `m_mutex`, a thread that runs `event_base_dispatch` | `TimerNew`, `TimerDelete` | libevent timers, user callbacks |
| **Ls01aDriver** (`lidardata_pub`) | `m_vecBuffer` of serial data, `m_mutex`, `m_scanFlag`, a reading and a sending thread | `Start`, `Stop`, `ReadLidarData`, `SendLidarData`, `SingleScan` | SerialPort, EvClient (publishes "lidardata") |
| **SerialPort** (`lidardata_pub`) | `m_fd` | `Init`, `DeInit`, `Read`, `ReadPackage`, `Write` | the tty |
| **Sqlite3Interface(Log)** (`common`) | the database handle | `exec`, `GetTable`, `AddLog`, `QueryLog` | SQLite |
| **DebugModule** (`debug`) | a table of commands, the words collected so far, a detached thread | `SendMsg`, `RecvMsg`, `Task` and the commands | a System V message queue |
| `Signal.hpp`, lidar data classes, demos, `Common.h`, makefiles, scripts | - | - | - |

### What is hard here

* **Two threads and two kinds of lock.** libevent holds the lock of a bufferevent
  while it runs one of its callbacks (the sockets are made with
  `BEV_OPT_THREADSAFE` and without `BEV_OPT_UNLOCK_CALLBACKS`), and the callback
  then takes `m_mutex`. `SendDataToClient` and `DisconnectClient` take `m_mutex`
  first and then, inside libevent, the lock of the bufferevent.
* **Raw pointers as identities.** A `bufferevent*` is the key of every map. It is
  freed by the event thread while the handler thread has it in its batch and in the
  lists of subscribers, and the allocator may return it for the next connection.
* **Iteration without a lock.** The batch and the lists of subscribers are walked
  while connections come and go.
* **Framing of a stream.** Messages are cut out of buffers that hold any part of
  the stream, that have a limit which erases at the front, in the middle of a message,
  and in which a pointer is used after the data under it has moved.
* **Order.** Messages that are taken out of a buffer together are pushed to the *front*
  of a list: a SUB_CANCEL and a later SUB of one client may change places.
* **Ends.** The broker's subclass is destroyed while the handler thread of its base
  class still calls its virtuals; the log server ends, crashes, reconnects and is
  started again on the same file.
* **Shared things without a lock.** Two threads share the descriptor of the serial
  port, which each of them may close and open again, and both command the lidar; two
  processes share the database.

What makes each component correct:

* EvTcpHandler: no use of a freed socket; map and sockets agree; iterators stay
  valid; buffers are bounded; a message is handled at most once, is not lost after
  it has been taken, and later batches are newer; everything received is handled,
  unless the buffer it waits in is over its limit.
* EvCoreServer: a publication goes once to every subscription and to nobody else;
  an entry disappears only for a reason; a cancel takes back everything.
* ProtocolInc: what was made is what is taken, for every cut of the stream; garbage
  never costs a message; the extraction loop ends.
* EvClient: nobody waits for ever; after a reconnect the client is what it was
  before. EvTimer: a timer fires as its flag says; deleting never blocks for ever.
* Ls01aDriver: the buffer has a bound and never gets stuck; scans are published
  whole, once and in order; a stopped lidar stays stopped. SerialPort: no descriptor
  is lost as long as one thread at a time opens and closes; reads are the stream; a
  garbled write is noticed.
* LogServer and its store: every line ends up in the table, or there is a reason why
  not. DebugModule: what is typed is called, with the words that were typed.
* The end of the broker: the destructors return, and nothing outlives the object.

## 2. Modules

| Module | Models | Notes |
|---|---|---|
| `MessageLife` | abstract: what the connection handler promises about a message | stages unsent, socket, buffer, batch, handled, lost; `cut`: connections whose buffer has been over its limit |
| `EvTcpHandler` | the base class with both threads; the virtual `HandleOneProtocolData` is left open | refines `MessageLife` |
| `EvCoreServer` | the broker; EXTENDS `EvTcpHandler` and constrains what the virtual does | refines `TcpSpec` |
| `ProtocolInc` | framing as operators on sequences of cells | no state |
| `ProtocolLoop` | the extraction loop over any buffer | uses `ProtocolInc` |
| `ProtocolStream` | one direction of one connection, cell by cell | uses `ProtocolInc` |
| `EvClient` | the client library: event thread, user threads, reconnects | EXTENDS `ProtocolInc`; the broker, seen from this connection, is part of it |
| `EvTimer` | the timer service: dispatching thread, user threads, callbacks | |
| `Shutdown` | the life of the broker object: constructors, `Start`, destructors, `Deinit` | EXTENDS `EvCoreServer`; its threads take the steps of that module |
| `SerialPort` | the port: opening, closing, `Write`, `Read`, `ReadPackage` by several threads; the tty is its environment | |
| `Ls01aDriver` | the driver: reading thread, sending thread, user; the port is abstracted to what `SerialPort` says of it | |
| `Sqlite3InterfaceLog` | the log store: the statements of `AddLog` and `QueryLog` as operators on the table | no processes of its own |
| `LogServer` | the log subscriber, its ends and its restarts | EXTENDS `Sqlite3InterfaceLog` |
| `DebugModule` | the debug console: queue, collecting of words, commands | EXTENDS `Sqlite3InterfaceLog` |
| `LogConsole` | both programs over one database file | EXTENDS `LogServer`, `DebugModule` |
| `MC*` | values of constants for TLC | |
| `*Proofs` | theorems and their proofs | |

### How state and actions correspond to the code

`EvTcpHandler`: `vecuint8` is `m_map_bfevnt_vecuint8` with a sequence of whole
messages for each byte buffer (how they are cut out is `ProtocolInc`'s subject).
One thing about the bytes shows: when the buffer is over 32 KiB, `ConnReadCb` erases as
many bytes as it has read (EvTcpHandler.cpp:175-176), mostly up to the middle of a
message, and `GetOneProtocol` then looks for a header in what is left, with a stale
pointer. Since messages have no length here, the test of the limit may answer anything
in `OverLimit`, the read may end in the middle of a message (`len` may be 0), and any
number of the oldest messages is gone (`TrimFront`). From then on the connection is in
`trimmed`, and what is found in its buffer is left open (`Extractions`): of any part at
its front any messages may be missed and any may come out with another content
(`Mangled`, `Resynced`). The bound on this freedom is named in the module: what is found is made
of the bytes of a message that was sent, at most one of each, and has its number.
`listvecProtocol` is the batch; `ev` is the callback that libevent has started,
with the bufferevent's lock held, and that waits for `m_mutex`; `pc`, `epair`,
`evec`, `visited` are the handler thread's position in
`TaskGetProtocolDataAndHandle`; `target` is the argument of the libevent call it
is in. A callback is two steps (libevent calls it; it has `m_mutex` and runs), and
so are `SendDataToClient` and `DisconnectClient` (`m_mutex` taken and the pointer
looked up; the bufferevent's lock taken and the work done). What runs between
`lock_guard` and return without touching another lock is one step. `conn` gives
every allocated address the number of the connection that occupies it: a
connection is freed and its address is given to the next one, as the heap does.
The outer loop takes keys in any order, since addresses have none here.
`bufferevent_write` may fail (-1) for a socket that exists.
`handled`, `written` and `copies` are histories for the properties.

`EvCoreServer`: `HandleOneProtocolData` is one step for the operations that do not
send, and for `ProcPub` one step per iteration plus one per write; the iterator
is the index `it` into the list of the published name. Its own mutex is held by
the handler thread throughout and taken by no one else, so it is not a variable.

`ProtocolInc`: a header of `HeaderSize` cells has the magic word in the first cell
and `dataLen` in the last; the 32-bit sum in `NeedRead` wraps at `Width`. `Storage`
is what the stale pointer in `GetOneProtocol` sees after `erase`.

`EvClient`: `bev` is `m_bev`, a number that every `bufferevent_socket_new` counts
up in `made`; `open` is what has not been freed. `link` is the state of the
connection: "connecting", "up", "down" (libevent has an event to report) and
"dead" (`bufferevent_socket_connect` has failed at once, before the callbacks
were set, so that nothing will be reported). `out` is the output buffer, message
by message; `wire` the bytes on their way to the client; `m_vecBuffer` is kept in the
cells of `ProtocolInc`, and the history `trimmed` says that its limit has erased
something. `PubMsg`, `SubMsg` and `SubMsgCancel`
are `SendToServer` (m_mutex taken, m_bev read) and `BuffereventWrite` (the lock of the
bufferevent taken, the message appended or refused). `PubLog` is a
`PubMsg`, `GetLog` a `GetMsg` whose result may be dropped.

The other end of the connection is the broker of `ipc_core`, as far as this client can
tell: its `ConnReadCb` reads requests into `vecuint8` (`Flush`), over its limit with a
loss (`cut`); its `GetProtocalData` takes all of them into the batch `listvecProtocol`,
the newest in front, and `ProcSub` and `ProcSubCancel` work through that
(`HandleOneProtocolData`, `Handled`). `subs` are the names in whose lists this
connection's address is; what an earlier connection at the same address has left there
counts (`ClientInit`, `Accepted`), a cancelled or refused copy takes it out
(`BrokerRefused`). `BrokerSend` is a copy of `ProcPub`, which the connection gets
whether it has subscribed or not. `excused` is a history: the names for which a cancel
was followed by a SUB in one batch, or a copy was refused, since the last successful
`SubMsg`. Publications and heartbeats of this client change nothing of it at the
broker and leave the output unseen.

`EvTimer`: `pending` is what libevent waits for, `flags` is `m_map_evtimer_flag`,
`running` and `cb` tell which callback runs and where it is. `TimerDelete` is two
steps, because `evtimer_del` waits for the callback of its timer when another
thread runs it; called by a callback it is one. No event is ever freed by
the code, so an address is never given out twice. `event_new` may fail.

`Shutdown`: `main` is the place of the main thread in constructors and destructors,
`hand` that of the handler thread around its loop over `m_runFlag`, `dispatch` that
of the event thread around `event_base_dispatch`; what the threads do in between is
`HandlerThread` and `EventThread` of the modules below. From "deinit" on the object
is an `EvTcpHandler` only (`SubclassAlive`): a virtual call aborts the program
(`PureVirtualCall`), and a virtual already entered may go on for a while. Without a
listener there is no event thread and `Deinit` frees a null pointer ("crash").
`m_runFlag` is a plain `bool` read by another thread; the models take a written
flag to be seen at some later time.

`SerialPort`: `m_fd` is 0 when closed; `fds` are the descriptors that are really open
and `hung` those of a device unplugged since. A call is the steps between which
another thread can run: the look at `m_fd` (`Begin`), `Init`, the `select`, the
`read` or the `write`, and the three statements of `DeInit`: the test of `m_fd`
(`DeInit`), `close` (`Close`) and `m_fd = -1` (`Clear`). `m_fd` is a plain `int`: the
descriptor that is closed is the one that was tested or the one that is there now.
`Read` calls `DeInit` when its `read` fails, `ReadPackage` when its `select` does.
The history `overlap` tells that a thread has opened, closed or cleared while another
was between its test and the end of its own opening or closing. Bytes are numbered cells, so that one written
twice shows. `Write` starts each round at the front of the data (SerialPort.cpp:95)
and flushes the tty first.

`Ls01aDriver`: a scan is three cells (`ScanStartAck`, the points, `ScanEndAck`);
`reader`, `sender` and `user` are the places of the three threads; `m_mutex` is held
by the sender at "parse" and by the reader within `Insert` only. `Parse` is one hit of
the loop over offsets: what comes before the start is erased, and a scan behind it is
taken, or the loop goes on at its old index over the moved data. A command may get
lost, as `Write` may fail without anybody looking. `ReadError` loses what the tty
holds, because opening it again flushes it. `errcnt` counts as in the code: cleared by
a read with data, and counted up at the end of that turn.

`LogServer`: `inbox` is everything between the broker and `GetLog`, that is
`m_vecBuffer` and what is on its way to it; a broken
connection (`ConnectionBreaks`) empties it and the subscription with it, because
`EvClient` repeats none; `Crash`, `Exit` and `Restart` are the life of the program.
A backlog over 32 KiB loses bytes at its front at the next read (`ConnReadCb`,
EvClient.cpp:119-120): the lines hit, the last of them in part, are in the history
`overrun`, and `cut` tells that the buffer begins with the rest of one. Then `GetMsg`
may skip that rest and return the next line, or take anything else for a message at the
cost of lines behind it (`GetMangled`; such a row has no number), or wait for more than ever
comes (`Waits`). `BrokerKnows` is the broker's `ProcSub`. `Mistaken` is what
`core_reuse` below shows: a broker that takes this connection for an earlier one at its
address passes it log lines before it has subscribed, or other messages
(`StrayMessage`). `AddLog` is two steps, one per `exec`, neither of which looks at the
result.

`Sqlite3InterfaceLog`: a statement takes effect or fails; a write fails while another
process reads, as nobody sets a busy timeout. A line is its number, whether it has a
quote, and its last character, which `logstr.back() = ' '` replaces even when it is
not the newline (PubLog cuts at 512 bytes).

`DebugModule`: a message is its words; the first is the terminal, to whose name
`SendMsg` adds "/dev/" (DebugModule.cpp:63), so that no terminal is called like a
command (`DebugAssumption`). `vecstr` are the words of the thread; a message
of two words (a bare call of the program's name) is kept and put in front of the next
one. The file is not built by any makefile of the repository and includes headers
that are not in it (`LogPrint.h`, `NetworkServer.h`), so their settings are variables
of the model; its command for the log names a function that does not exist
(`GET_LOGPDB->GetLog`) and is modelled as `QueryLog`, the only one there is to read
the log. One program reads one queue.

## 3. Runs

Each run finishes within five minutes on two workers.

| Run | What it asks | Bounds |
|---|---|---|
| `tcp_handler` | the invariants of the connection handler; `TcpSpec` implements `MessageLife` | 2 connections at one or two addresses, 3 messages (a batch of two and one that arrives during it), reads of up to 2, a buffer over its limit at any read or not; one payload, since no property looks at the content; the answer of `bufferevent_write`, which has no effect at this level, is fixed |
| `core_pubsub` | subscriptions and publications under disconnects and failures | 2 addresses, 3 connections, 3 messages (SUB, SUB, PUB; SUB, SUB, CANCEL; ...), one name |
| `core_live` | all six types of message: the broker implements `TcpSpec` and both threads make progress | 2 connections, 2 messages, no symmetry |
| `core_reuse` | *violated*: publications go to subscribers only | 1 address, 2 connections |
| `protocol_loop` | the extraction loop from **every** buffer | cells 0..4, up to 6 cells: three headers of two cells |
| `protocol_stream` | every cut of every two legal messages; the bound of the buffer | data of up to 3 cells, magic words inside the data, a limit of 3 |
| `client` | sockets and messages across reconnects; subscriptions, from `SubMsg` to the lists of a broker that handles its batches newest first; a broken connection is replaced | 3 bufferevents (two reconnects), 2 calls, 2 messages of three cells, reads of up to 2 cells, a limit of 4, 1 name, the broker's limit reached or not |
| `timer` | deletion, one-time timers; timers are served | 3 timers |
| `shutdown` | nothing outlives the broker; its destructors return | 2 connections, 2 messages, with and without a listener |
| `serial` | descriptors, writes in parts, and the stream that is read, with two threads and a device that comes and goes | 2 threads (one that reads and writes, one that writes), 2 descriptors, 1 unplugging, 2 writes of 2 cells, 3 cells received |
| `driver` | published scans, stopping, the serial buffer; a whole scan leaves it | 2 scans, 1 cell of noise that looks like a start, pieces of up to 2 cells, 1 error, 2 calls, a limit of 4 (more than one scan, less than two) |
| `logs` | every line is accounted for, in order; waiting lines get their turn; commands are called | 2 lines (one well-formed, one with a quote and no newline), 1 stranger's message, 2 faults, the limit of the buffer, 2 messages of four kinds to the console, which may be started twice |

The bounds are such that every action fires and every mutated form of the code listed
in `PROJECT.json` is caught. In `tcp_handler` the second connection may get the address
of the first while messages of that are in the batch, and the limit can be reached with
any buffer, because the size of a message is anything from a header to 32 KiB. One name
is enough in the broker because the lists of different names never touch; three
connections at two addresses are the least that let one address be reused while the
other is live. In `client` a message can be cut by a reconnect twice, and the limit of
4 cells is more than one message and less than two, so that the buffer is trimmed in
some behaviours and not in others; two calls are the least that let a cancel and a SUB
of one name meet in one batch, and the broker begins with the name in its lists or not.
In `serial` two descriptors are one in use and one that another
thread can open before the first is forgotten. Three timers are one that is deleted, one whose callback
deletes or creates, and one that is created meanwhile. In `driver` `ErrLimit` is 0
instead of 3, so that one error after a read with data makes the reader restart the
lidar. In `logs` two faults are a broken connection and an end of the program, in either
order and between any two steps of `AddLog`, with a reader of the file in between.
`CHECK_DEADLOCK FALSE` is stated where the system may really stop: the peers may
fall silent, a program may end, and threads may wait for each other (see below).

### What the runs show

Within these bounds the connection handler never uses a freed socket, never leaks
one and never invalidates the iterators of the handler thread, although the
batch is walked without a lock: the event thread does not touch the batch, and
`m_mutex` is held from the look-up to the write. Messages of one batch are
handled newest first, since `GetProtocalData` pushes to the front
(`BatchIsNewestFirst`); from batch to batch they keep their order. A buffer over its
limit changes neither that nor that what has been taken is handled once:
`tcp_handler` has any bytes erased and anything found behind the cut.

The client keeps exactly one socket across reconnects; user threads never write to
one that is gone, since the reconnect needs `m_mutex`, which they have from the
reading of `m_bev` to the end of the write. Clearing the receive buffer on
reconnect is what keeps messages whole. A subscription that `SubMsg` reported stays on
its way or in the broker's lists in spite of the batches, but for one order of calls: a
cancel and then a SUB of the same name in one batch end as a cancel, and nothing tells
the client (`excused`). A deleted timer is quiet when `TimerDelete`
returns: libevent's wait for the running callback is what makes it so, and
also what can block.

When the broker's destructor frees the sockets both threads have ended and every
socket is freed once, although the threads may have been anywhere when it began. The
serial port loses no descriptor until two threads manage it at the same time. From then
on it may: two threads that find `m_fd` closed both open the device, or the `m_fd = -1`
of a thread that has closed it comes after another thread has opened it again.
The driver's parser publishes whole scans in their order, also amid noise that does not
hold both a start and an end, and no whole scan stays in the buffer for ever; and
after a `Stop` the reading thread sends at most the three commands of a restart. Every
log line is in the table, refused for a quote or a reader, lost with a connection or a
process, hit by the limit of the receive buffer, or still on its way, and never in two
of these places.

One statement of the code does not hold (`findings` in `PROJECT.json`): in
`core_reuse` a subscription is a raw pointer and outlives its connection. When the
next connection gets the same address it receives publications it never asked for;
"bev %p deleted can't send data!" (EvTcpHandler.cpp:220) is not reached.

Other things the code does are part of the models, and the properties name them as
the exceptions they make:

* *Limit of the receive buffer.* The greatest legal message does not fit below the
  limit, so that a buffer being assembled is trimmed at the front, by bytes:
  `StreamIsKept`, `EverythingArrives` and `MessagesAreWhole` hold until `trimmed`,
  `HandledEventually` until a buffer of the broker is, `SubscriptionUnderWay` until the
  broker's is (`cut`); `MessageLife` lets messages of such a connection, and of no
  other, be missed or mangled in the buffer, `LinesAccountedFor` names the lines hit,
  and `LinesGetTheirTurn` lets a cut hold lines up.
* *Order within a batch.* `SubscriptionUnderWay` exempts the names that were cancelled
  and asked for in one batch, and those of which a copy was refused (`excused`).
* *Stale header.* `GetOneProtocol` reads `dataLen` through a pointer that was not
  moved when the bytes before the header were erased, so that the `<= 32*1024` of
  `IsValid` is not enforced on the length it uses: both are stated for `AllLegal` data.
* *Reconnects.* A reconnect repeats no subscription. `SubscriptionUnderWay` speaks of
  the present connection while that is being made or up; `LogServer` is not subscribed after `ConnectionBreaks` and
  does not notice.
* *The timer thread.* `event_base_dispatch` returns when no event is pending; a timer
  made after that never fires. `TimerIsServed` is stated while `thread = "running"`.
* *Writes in parts.* `Write` sends the beginning again and answers the length of the
  last part: `GarbledIsReported` says that the caller can tell, not that it does not
  happen.
* *Late virtual calls.* `DestructorReturns` exempts "abort", the handler thread inside
  the dead subclass, and a listener that was never bound (EvTcpHandler.cpp:87).
* *Bare calls.* `CommandsAreCalled` says exactly which commands are eaten: those that
  follow an odd number of calls without words.
* *The parser.* The index of the loop is not set back when the cells before it are
  erased, so that a scan amid noise can be passed over in one turn and, when another
  scan follows, be thrown away: `ScansAreSent` demands that nothing is left out only
  without noise. A buffer at its limit that holds no start is never emptied, and the
  reader adds nothing to it: the driver is stuck, and `ScanLeavesBuffer`, which speaks of
  whole scans, does not cover it.
* *Descriptors.* `NoDescriptorLost` is stated until `overlap`; within `DeInit` `m_fd` is
  a closed descriptor for a moment, of which the property says that somebody is about to
  forget it.

And one state is exempted in all liveness properties of threads that share locks:
`LockCycle`, where a callback holds the lock of its bufferevent and waits for
`m_mutex`, while the handler thread holds `m_mutex` and waits for that lock. No
text of the repository promises its absence, so it is not listed as a finding;
`HandledEventually` and `ClosedIsFreed` say that it is the *only* way to stop.
`EvClient` has the same cycle, between a user thread in `bufferevent_write` and a
callback, and `EvTimer` one between a thread in `evtimer_del` and the callback it
waits for, when that callback calls `TIMERNEW` or `TIMERDEL`. `BrokenIsReplaced` and
`TimerIsServed` exempt them in the same way. `BrokenIsReplaced` has one exemption
more: `Connect` ignores the result of `bufferevent_socket_connect` and sets the
callbacks after the call (EvClient.cpp:76-78), so that an attempt which fails at
once (`link = "dead"`) is noticed by nobody and is the last one.

### Fairness

`CoreFairness`: weak fairness of the handler thread as a whole (a thread the
kernel schedules, whose loop always has a next step) and, for every socket, of its
read callback and of its event callback (libevent's loop serves every ready
socket). Weak fairness is enough although the callbacks wait for `m_mutex`: the
messages are bounded, so that from some point on the handler thread does not
take the mutex for longer than a step any more. Nothing is assumed of the peers.
`LoopSpec`: the loop goes on. `StreamLiveSpec`: both threads run.
`ClientFairness`: libevent's loop serves a readable, a connected and a broken
connection, and a user thread inside `bufferevent_write` goes on
when it can; no user has to call anything, and of the broker nothing is assumed.
`TimerFairness`: strong fairness of every timer's callback, because `Fire(t)` is
disabled while another callback runs and libevent calls all due timers in
turn; callbacks end; a thread in `TimerDelete` goes on.
`ShutLiveSpec`: the threads run, libevent serves the sockets that are ready (no new
connection has to come), and the destructor, once begun, goes on; nobody has to begin
it. `DriverLiveSpec`: the two threads of the driver run; nothing is assumed of the
lidar and the user, and the reader may find errors at every read. `ConsoleLiveSpec`:
the thread of the log server runs, but need not get on where a cut buffer may keep it
waiting (`Waits`); a refused `SubMsg` changes nothing, so that this fairness means one
that succeeds in the end; a program whose thread has ended exits. It need
not be started again, and a reader of the file may come in before every statement.

## 4. Proofs

Each theorem below has the form `Spec => []P`, or states a refinement or a fact of the
operators. Every invariant and every action property of the passing runs is stated by
one of them.

| Module | Theorem | States |
|---|---|---|
| `EvTcpHandlerProofs` | `HandledOnce`, `NothingOvertakes` | of `MessageLife`: what its log holds, and that no message overtakes another of its connection |
| | `HandlerInvariant` | the inductive invariant of the connection handler |
| | `TcpTypeCorrect`, `NeverUsedAfterFree`, `MapAlwaysMatches`, `IteratorsAlwaysValid` | pointers, map and iterators |
| | `BatchAlwaysNewestFirst`, `LaterBatchesAlwaysNewer` | the order within a batch and across batches |
| | `HandlerImplementsLife` | `TcpSpec` implements `MessageLife` |
| `EvCoreServerProofs` | `CoreImplementsTcp`, `CoreImplementsLife` | the broker implements `TcpSpec` and, through it, `MessageLife` |
| | `CoreNeverUsesAfterFree`, `CoreKeepsBatchOrder` | what it inherits |
| | `ListsInvariant` | the inductive invariant of the broker |
| | `IteratorAlwaysAtTarget`, `CopiesAlwaysMatch`, `EntriesAlwaysAskedFor`, `AlwaysPrunedForCause` | the lists of subscribers while `ProcPub` walks and erases |
| | `NothingIsLeftBehind` | the end of the broker |
| `ProtocolIncProofs` | `TakesWhatWasMade`, `FrontMessageIsTaken`, `RoundTripHolds`, `MessagesShorten`, `NoHeaderIsSkipped` | framing, for every header size, limit, width and buffer |
| `ProtocolStreamProofs` | `StreamAlwaysKept`, `BuffersStayBounded` | what is taken out of the stream, for every cut of it, and the bound of the buffer |
| `EvClientProofs` | `ClientTypeCorrect`, `OneSocket` | types, and the one socket |
| | `AlwaysUnderWay`, `MessagesAlwaysWhole` | subscriptions, and messages across reconnects |
| `EvTimerProofs` | `TimerTypeCorrect`, `DeletedStaysQuiet`, `OneTimeIsOnce`, `PendingStaysKnown` | the timer service |
| `LidarProofs` | `SerialInvariant`, `DescriptorsNeverLost`, `GarbledAlwaysReported`, `ReadsAlwaysTheStream` | the serial port |
| | `SerialBufferStaysBounded`, `StopAlwaysHolds`, `ScansAlwaysSent` | the driver |
| `LogConsoleProofs` | `LinesAlwaysAccounted`, `CommandsAlwaysCalled` | log server and console over one file |

They rest on the named assumptions of the constants only (`EvTcpAssumption`,
`EvCoreAssumption`, `ProtocolAssumption`, `StreamAssumption`, `EvClientAssumption`,
`EvTimerAssumption`, `DriverAssumption`, `SerialAssumption`, `LogTextAssumption`,
`LogServerAssumption`, `DebugAssumption`), which TLC evaluates in the runs. The
theorems of `MessageLife` state theirs, `MessageLifeAssumption`, in front of
them. Two things need a word.

* `MaxRead <= Cap + 1` (`StreamAssumption`, `EvClientAssumption`): libevent reads at most 16 KiB per callback, the limit is
  32 KiB, hence the bytes `ConnReadCb` erases are there.
* `ScansAlwaysSent` has a hypothesis of its own, `NoiseIsNoScan`: `StartAck` and
  `EndAck` are not both among the cells of noise. `IsValid` looks at both ends of what
  it takes for a scan and at nothing in between, so that noise which contains both can
  put one together that was never sent. The noise of the run is a lone `StartAck`.

**Connection handler.** `NoUseAfterFree` is not inductive: that a socket which the
handler thread is about to write is still allocated follows from where the
handler thread is, who has `m_mutex` and what the map holds. The invariant `TcpInv`
adds to the type invariant that the map's domain is the set
of live sockets (but for a `DisconnectClient` half done), that a socket a
callback has been started for is live, and that the target of a write is in
the map. A step of the event thread frees a socket only with `m_mutex`, which the
handler thread has while `pc` is "write" or "free": that case contradicts its
guard. `IteratorsValid` needs that the lists of a batch are not empty and that the
batch changes at "extract" and at the end of the loops only.

`LaterBatchesAreNewer` looks at the batch and at one buffer. That it stays true when
the buffer becomes the batch, when a read fills the buffer and when a used address is
given to a new connection takes more: what is in the socket is newer than what is in
the buffer, numbers of connections and messages are unique, and a freed connection
leaves nothing behind (`PlaceInv`). The proof does not work on the sequences: it maps
each variable to the set of messages it holds (`SocketOf`, `BufferOf`, `BatchOf`,
`Done`), shows once for every action of `TcpNext` which move of messages between these
places it is, and proves `PlaceInv` for the moves. `OrderInv` adds the order inside
the sequences, ascending in sockets and buffers, descending in the batch, because
`GetProtocalData` pushes to the front. Their conjunction with `TcpInv` is `HandlerInv`.

The refinement uses the same moves. A message's stage is the place it is in, its owner
the number of the connection it came on, the log the messages of `handled`, and `cut`
is `trimmed`; a move is
a step of `MessageLife` or leaves all four alone. A message that is in no place any
more, erased over the limit, missed behind a cut or gone with its connection, is
"lost". `MessageLife` allows that from the socket and the buffer only, and without a
broken connection only of one in `cut`: that a message of the batch is never lost is
part of what is proved. Of a trimmed buffer the proof uses only what holds of any bytes
found in it: their numbers are among those of the buffer and rise (`Resynced`).

**Broker.** Every step of `CoreNext` is a step of `TcpNext` or leaves `tcpVars`
alone; the proof goes through the actions, and the broker inherits all of the above.
Its own invariant is `CoreInv`: the handler's `TcpInv`, types, `CalledFor` (where
`HandleOneProtocolData` is fits the type of the message it was called for) and the
three properties of the lists. None of these holds without the others:
`CopiesMatchEntries` counts the entries in front of the iterator, hence needs that an
erased entry is the one the iterator is at; that needs `IteratorAtTarget`; and both
need that the message, and with it the name whose list is walked, stays the same while
`proc = "pub"`. `EntriesAreAskedFor` says of the last request of a socket what
`EntryHasLiveRequest` says with a `CHOOSE`. `std::list::remove` (`CancelAll`) is
written with the rank of each survivor, so that `CancelAllIs` can say where each
entry of the others goes and that none of the socket's own is left.

**Shutdown.** `NothingLeftBehind` compares what is left to be freed with the sockets
that exist, at a time when the threads have ended. Its inductive invariant `ShutInv`
carries the handler's `TcpInv` along for as long as the threads run, and says which
threads must have ended at which place of the destructor: that a callback is not under
way when `event_base_dispatch` has returned, and that the handler thread is outside its
loop when it has been joined, is what turns "the map's domain is the set of live
sockets but for a half-done `DisconnectClient`" into equality at `JoinEvent`.

**MessageLife.** The inductive invariant is the conjunction of the type invariant,
of the agreement of log and stages and of `NoOvertaking`, strengthened by the order
between socket and buffer and by the order of sending.

**Framing.** The first header of a buffer exists by the least-number principle
(`FirstIsLeast`, from the well-foundedness of `<` on the naturals). With it the
positions before the first header are not headers, and a complete message at the
front is found at offset 0, where the stale pointer is not stale. What the loop, the
stream and the client need of it is in `ProtocolIncProofs`.

A stream carries messages when it is their concatenation. Instead of a fold, which no
proof can be made about here, `Carries` says it by the ends of the messages: they start
at 0, each is the one before plus the length of its message, the last is the length of
the stream, and between two ends lies the message. `StreamInv` says that every message
sent was made by `MakeProtocol` and that buffer and wire together carry those not yet
taken. A read moves cells from one to the other and leaves their concatenation alone;
taking a message is `TakesWhatWasMade` at the front of it.

**EvClient.** `OneLiveSocket` is inductive as it stands: only `ConnEventCb` replaces
the bufferevent, it runs for the one it frees, and no call is under way then.
Type correctness (`ClientInv`) needs to know that an event callback runs only for a
connection that is down, and that the bound leaves room for another bufferevent then.
`SubsInv` adds to `SubscriptionUnderWay` that `m_bev` is the newest bufferevent and that
no subscription is wanted of a later one: it makes everybody's subscription void at a
reconnect. `UnderWay` reads the requests in the order in which they will be handled:
output, buffer and batch, the last name that counts first; reversing a buffer changes
what it says of a name only if a cancel of that name comes before a request for it,
which is what `Reversed` collects (`excused`). `UndamagedInv` says of an untrimmed buffer that there is a number such that
the messages up to it have been returned or have gone with a connection, and that
buffer and wire carry exactly the rest; a reconnect, which clears both, makes that
number the last one published.

**EvTimer.** `DeletedIsQuiet` needs that the map of flags is within what has been
made and disjoint from what has been deleted, that pending timers are in the map,
and that a thread inside `TimerDelete` has its timer in the map: nobody can
take it out without `m_mutex`. `OneTimeFiresOnce` needs that a timer without the
persist flag is not pending once it has fired.

**SerialPort.** `SerialInv` adds to the properties that a call knows how much it
has left (so that an answer equal to the size means that no part was sent twice), that
only a reading call holds cells, and which descriptors may be open. For the latter
`DescriptorInv` says what is true until two threads are at it at once: no descriptor
but `m_fd` is open; a thread about to open has found `m_fd` closed, and it still is; one
about to close has tested what `m_fd` still is; and when one is about to clear, nothing
is open. Each step of one such thread keeps this of the others because there are none,
or is the overlap the property exempts.

**Ls01aDriver.** `SerialBufferBounded` needs that a piece is no longer than
`BufferSize` and that the parser never lengthens the buffer, for which the offset it
finds must lie in the buffer: the least of a set of naturals again (`LeastIsIn`).
`StopHolds` is not inductive, because the commands a reader may still send depend on
where it is. `StopInv` adds to those already sent the number a reader at that place
can still send without looking at `m_scanFlag` (`Remaining`): with the flag cleared
the sum never exceeds three, since every command lowers what remains by one and no
other step that ignores the flag raises it.

`ScansAreSent` speaks of what has been published; its invariant `ScanInv` speaks of the
whole stream still to come, the buffer, the piece in the reader's hands and the wire
(`Coming`). Wherever a start and an end lie at a scan's distance in it, there is a scan
that was sent, newer than all that have been taken, and the scans lie in their order
(`ScansAhead`); a start that is not noise is that of a whole scan (`StartsAreWhole`),
so that a cut at the front leaves no half scan behind a start. Without noise the stream is
exactly the scans not taken yet (`OnlyScans`), and the loop has gone past a beginning
only when the rest of the buffer is shorter than a scan (`NothingPassed`): then the
erasing that throws scans away has nothing to throw away.

**LogServer.** That a line is in only one place follows from the order: along the
whole way from the broker over `inbox` and the hands of `AddLog` into the table the
numbers rise, so that no two of them meet (`LineOrder`). With it `LogInv` says that the
lines waiting, in hand, stored, refused, lost and hit by the limit are a partition of
those sent, that an `AddLog` under way has a log line, and that an insert without a table has been
disturbed (`HandInv`). The invariant covers `AddLog` between its two statements, where
a crash loses the line and a reader makes the insert fail.

**DebugModule.** `WordsInv` says when words are left over from an earlier message:
exactly behind an odd number of messages without words at the end of what was heard,
and then they are two. It turns `CommandsAreCalled`, which speaks of the past of each
message, into a statement about the variable `vecstr` that a step can keep.

### Only model-checked

Liveness (`HandledEventually`, `ClosedIsFreed`, `LoopEnds`, `EverythingArrives`,
`BrokenIsReplaced`, `TimerIsServed`, `DestructorReturns`, `ScanLeavesBuffer`,
`LinesGetTheirTurn`) rests on fairness and `ENABLED`, which this prover does not
handle. `MessagesShorten` proves the variant by which the loop ends; that it ends is
checked. `PublishedToSubscribersOnly` does not hold (see above).

## 5. Not modelled, and the plan

Left out of the modelled parts: logging, addresses and ports, the fields of a
header that framing does not read, `ConnWriteCb` (never registered), the times in
`HeartBeatInfo` (only `CheckClientStatus` reads them, and it has no caller); the
destructors of `EvClient` and `EvTimer`, a `bufferevent_socket_new` that fails, and
the times of `EvTimer`; messages of more than 1024 bytes and empty lines in the log;
`SetSerial` (termios settings), `SingleScan` (private, no caller) and the blob
functions of the store (no caller). Two hazards have no property for this reason
(`m_bev` after a failed allocation, the overflow of `intervalms * 1000`), and a third
because the code promises nothing: the loop of `LogTask` that subscribes does not look
at `m_runFlag`, so that a destructor may wait for ever.

In the order of their importance:

1. **Publish and subscribe as a system**: several clients and the broker composed,
   with an abstract specification of who gets what. `EvClient` has the broker as one
   client sees it, with the order of its batches.
2. **Proofs**: of that composition, from the invariants the components have now:
   `CoreInv` on one side, `SubsInv` and `UndamagedInv` on the other; and that
   `SerialPort` delivers what `Ls01aDriver` assumes of it.
3. **The destructors of EvClient and EvTimer**, with the driver and the log server
   that own them.

Not planned: the lidar data classes (getters and a checksum), `Signal.hpp` (unused),
the demos (they are the peers of the models), makefiles and scripts.
