# TLA+ models of the programs of *Zrozumieć programowanie*

The repository holds the example programs of a book, one directory for each
chapter.  Most are a page long and sequential.  Some are small systems with
threads, interrupts, caches and networks; those are modelled here in TLA+,
checked with TLC on small instances and, in part, proved with TLAPS.

Paths below are relative to `src/`; `007` is short for
`007-Czesc_II-Rozdzial_3-Podstawy_architektury_komputerowe`, and so on.

## 1. The system

### Inventory

| Part | Sources | State | Operations | Hard behaviour |
|---|---|---|---|---|
| VM memory | `007/vm_memory.py` | a bytearray | fetch and store of bytes, dwords, blocks, with bounds checks | refusals are `False` or `None` by operation |
| VM CPU | `007/vm.py`, `vm_instr.py`, `vm_regs.py` | registers, flags, control registers, interrupt queue, deferred queue | single step, interrupt entry, 35 instructions, `run` and its exit | interrupts between any two instructions, raised by other threads; deferred loads; faults while handling faults |
| VM console | `007/vm_dev_con.py` | character queue, control register, mutexes, worker | worker thread on stdin, ports 0x20-0x22 | worker against CPU; start-up order; wakeups |
| VM timer | `007/vm_dev_timer.py` | alarm, active, latch, worker | polling thread, ports 0x70-0x71 | poll against cancel and re-arm |
| VM guests | `007/*.nasm`, `vm.inc` | RAM images | - | check of a queue, then arming |
| Web chat messages | `022/httpchat.py`, `httpchat_main.js` | message list with an offset; last id in each browser | POST /chat, POST /messages, polling loop | lost answers, a bounded history, restarts of the server |
| Web chat file cache | `022/httpchat.py` | cached time and data | `__send_file` in many threads | the file changes between stat, read and fstat |
| Web server threads | `022/httpchat.py` | for each connection, what has been received of the request, and the answer | accept, read head and body, answer, close | requests in pieces, half requests, timeouts, threads that die |
| P2P chat | `022/udpchat.py` | nearby users, known messages | /add, /quit, a line, HELLO, MESSAGE; two threads | flooding over UDP, races of the two threads, partial sends |
| DNS client | `022/tcpdns.py` | the packet, an index, the reply so far | one query over TCP, decoder of answers and names | compression pointers, a connection that ends early |
| Queues of work | `014/cond.py`, `event.cc`, `syncqueue.py` | a list of jobs; a condition variable, events, a counter of open jobs | produce, consume, wait, signal, join | lost and merged signals, telling "none yet" from "no more" |
| Waits, locks, counters | `014/condpred.cc`, `starv.c`, `uid.c`, `stress_map*` | a number, a spinlock, a counter | set and notify, lock, draw a number | a predicate that is true for a short time, starvation, lost updates |
| Child with pipes | `021/pipe.c`, `pipe_select.c` | two pipes, the child, flags of the parent | spawn, wait, select, read | a full pipe, the end of a pipe, the order of exit and output |
| Pool of workers | `021/socketpair.c` | ten socket pairs and processes | spawn, poll, stop; compute, check, send | inherited sockets, a worker that ends unseen |
| Calculator | `021/calc_*.c`, `calc.h` | a named pipe for one client | connect, read, calculate, answer, disconnect | unread answers, no pipe between two clients, overflow |
| Proverb server | `021/proverb_server.py` | a named pipe, the number of the next proverb | open, write, close for each client | one pipe for all clients, a reader that leaves late |
| Other IPC | `021/msgtest.cpp`, shared memory | - | a message loop, one call each | - |
| Threads, processes, files | `012`, `013`, `016` | - | start, join, list, open | - |
| Readers of formats | `017/parseini.py`, `018/show_bmp*`, `019/decodepng.py` | position in the input, what was made of it | headers, rows, runs, chunks, filters, lines | signs of fields, padding, ends of data, row filters, sections that come again |
| Numbers, characters, the rest | `004`, `005`, `008`, `009`, `010`, `023` | - | straight-line examples | - |

### How the parts interact

* The **virtual machine** is one process with three threads.  The CPU thread
  executes the guest.  `VINB` and `VOUTB` call the device objects directly, so
  that the port handlers run in the CPU thread; the console worker and the timer
  worker run beside it.  All three share the interrupt queue: workers call
  `VMInstance.interrupt`, the CPU calls `_fetch_pending_interrupt`.  Each device
  also shares a control register or an alarm with its worker.
* The **web chat** is one server with a thread for each connection and any number
  of browsers, which poll once a second.  `main` accepts a connection and starts a
  `ClientThread`, which reads one request, has it handled, answers it and closes.  Handlers share the message list (one
  lock) and the file cache (another).  A browser knows only the id that came with
  its last answer.
* The **P2P chat** has no server.  Nodes send each other UDP packets; in a node,
  the thread that reads commands and the thread that receives packets share
  `nearby_users` without a lock.
* The **queues of work** have a producer and consumers in one process, which share
  a list; what differs is how a consumer learns of a job and of the end.
* `socketpair.c` forks its **workers**; each inherits the parent's sockets to the
  workers before it, so that the end of one connection waits for other processes.
* The **calculator** and its clients meet at one named pipe, made anew for each
  client.
* The **proverb server** and its clients meet at a named pipe, which does not tell
  the clients apart: `open` succeeds for any reader, also for one that is about to
  leave.
* The **readers of formats** and the DNS client decode one input from its beginning;
  the DNS client receives it over TCP first.  The other chapters' programs stand
  alone.

### What makes each part correct

* VM: an interrupt is invisible to the code it interrupts; handlers do not nest
  between turning interrupts on and returning; characters arrive once, in order;
  an armed device wakes the guest; one arming pays for one interrupt; an alarm is
  neither early nor lost; a fault nobody handles ends the process.
* Web chat: a window shows each message at most once and in order, and skips only
  what the server no longer has; the history is bounded; a file is not served
  older than it was when the request came.
* P2P chat: nobody reads a message twice; floods and greetings die out;
  neighbourhood becomes mutual; without faults everybody within reach gets every
  message.
* Queues of work: each job is worked on once, in order; nobody ends before the last
  job is finished, and then everybody does.
* Waits, locks, counters: the threads end; a round is counted inside its array;
  the interlocked counter gives out each number once.
* Pipes and sockets: a parent shows what it should of the child's output and ends;
  a pool leaves no worker behind; an answer belongs to its request; no proverb is
  read twice.
* Server threads: only whole requests are acted on, however they are cut up; a
  message is added once; every connection is closed in the end, and every good
  request is answered.
* Readers of formats: what an encoder that follows the format has written is read
  back, whichever of the format's ways it chose; anything else is an error.

## 2. Modules

| Module | Models | Uses |
|---|---|---|
| `VMMemory` | `vm_memory.py`, pure operators on a RAM function | |
| `VMInterrupts` | interrupt queue and control registers | `VMMemory` |
| `VMInstance` | the CPU: interrupt entry and every instruction | `VMInterrupts` |
| `VMDeviceConsole`, `VMDeviceTimer` | the devices: worker threads and ports | `VMInterrupts` |
| `VMMachine` | CPU, devices, `run()` and exit together | the three above |
| `VMDevices` | both devices under an arbitrary guest | the two devices |
| `GuestPrograms` | guests as RAM images, assembled by operators named as the macros of `vm.inc` | `VMMemory` |
| `HttpChat_proofs`, `HttpFileCache_proofs`, `ClientThread_proofs`, `P2PChat_proofs` | theorems about the modules they are named for | |
| `VMMachine_proofs` | theorems about the machine, its devices and the guests of `MCMachine` | |
| `MCFormats_proofs` | theorems about the readers of PNG, BMP and INI files and the DNS client | |
| `MCSync_proofs`, `MCIpc_proofs` | theorems about the programs that `MCSync` and `MCIpc` bring together | `MCFormats_proofs` |
| `ChatLog` | abstract: a log of numbered messages and its readers | |
| `HttpChat` | messages of the web chat; implements `ChatLog` | |
| `HttpFileCache` | `__send_file` | |
| `ClientThread` | the accept loop and `ClientThread` under the chat, and their clients | |
| `P2PChat` | `udpchat.py` and the network | `Relation` |
| `WorkQueue` | abstract: a queue of jobs that are begun, finished and not left behind | |
| `CondQueue`, `EventQueue`, `SyncQueue` | `cond.py`, `event.cc`, `syncqueue.py`; implement `WorkQueue` | |
| `PredicateWait`, `SpinLock`, `UniqueId` | `condpred.cc`, `starv.c`, `uid.c` | |
| `ProverbServer` | `proverb_server.py` and its clients | |
| `ChildPipes` | `spawn_process`, the pipes and the child | |
| `PipeWait`, `PipeSelect` | `main` of `pipe.c` and of `pipe_select.c` | `ChildPipes` |
| `WorkerPool` | `socketpair.c` | |
| `CalcPipe` | `calc_server.c`, `calc_client.c` | `SequencesExt` |
| `Decoding` | what the readers of formats share: input, position, result so far, outcome | |
| `PngDecoder`, `BmpReader`, `DnsClient`, `IniParser` | `decodepng.py`; `MyLoadBMP` of three programs; `tcpdns.py`; `parse_ini` | `Decoding` |
| `MCFormats` | encoders and inputs for the four readers | the four |
| `MCMachine`, `MCDevices`, `MCFileCache`, `MCP2PChat`, `MCSync`, `MCIpc` | instances for TLC; the constants of `HttpChat` need no module, and are in `HttpChat.cfg` | |

Operators named "Mutant" in a comment are faulty variants of the definition below
them.  They occur in no specification; each shows that a property can fail, by
taking the place of that definition.

### Correspondence

**`VMInstance`.**  `mem`, `r`, `fr`, `cr`, `defered_queue`, `interrupt_queue` and
`terminated` are the fields of `VMInstance`.  `run_single_step` is two steps,
told apart by `phase`: the interrupt check with the drain of the deferred queue
(`NoInterrupt`, `TakeInterrupt`, `CrashOnInterrupt`) and the instruction
(`Execute`, a disjunction of one action per instruction or family).  A device can
raise an interrupt between them.  Opcodes are fetched from `mem`, so guests are
data.  A dword has `DwordBytes` bytes (4 in the code, 2 in the runs): everything
that depends on the width goes through `DwordMod`.  Python exceptions that the
interpreter meets (a refused pop, for one) are the fault they become.

**Devices.**  A critical section is one action; releasing a mutex and raising
the interrupt afterwards are two (`con_worker = "raise"`, `pit_worker = "raise"`).
`con_boot` is how far the console's constructor has got while its worker already
runs.  The timer sees the clock only through the difference to the alarm time, so
`since_alarm` is all there is of time; it stops at `MaxLate`.

**`HttpChat`.**  `messages` and `messages_offset` are the server's fields; a
message is the number of lines accepted up to it.  `posting` counts POST /chat
requests that are under way; as they are alike, no more is known of them.
`poll[c]` is the state of one browser's loop.  `HandlePostChat` and
`HandlePostMessages` are the bodies under `messages_lock`; the list slice with a
negative or too large start is `From` and `SubSeq`.  An answer can be lost
(`PollFails`) before or after the handler; `Restart` forgets what the server has.
`posted`, `started`, `restarts`, `upto`, `run_of_id` and `misled` are history.

**`HttpFileCache`.**  One file and the threads in `__send_file`: `Stat`, `Lookup`
(first lock), `Read`, `FStat`, `Store` (second lock) are the points between which
another thread or an editor may act.  A version number stands for the contents.

**`P2PChat`.**  `AddCommand`, `SendMessage` and `Quit` are the main thread, `Take`
with `KnownMessage` and `NewMessage` the receiver.  `add_nearby_user` is split at
its check, for both threads: `adding` holds a user found new, `AddNearbyUser` is
the rest.  The sends of one flood are one step, because packets are delivered in
any order anyway; `ForwardFails`, `SendMessageFails` and `HelloFails` are an exception
of `sendto` after some of them, which ends the receiver or the main thread.  `Within` is the substring relation of
the addresses, which `t in exclude` asks for.

**Queues of work.**  A critical section is one action.  In `CondQueue`, `notify`
and `wait` are part of the section they are called in, and a woken consumer is one
that may take the mutex again.  In `EventQueue`, pushing a job and setting the ready
event are two actions, as they are in the code; an auto-reset event is a Boolean.
`SyncQueue` has the library's queue as its jobs and the number of those that are
not done.  All three use `work` (the list), `made` (`i` of the producer), `pro`, `con` and `data`
(where each thread is, and the job it holds), which is what `MCSync` maps to `WorkQueue`.

**`PredicateWait`, `SpinLock`, `UniqueId`.**  One action for each access to a
shared variable, or for each critical section.  `late` in `PredicateWait` is
history: the consumer was awake while the value was the wanted one and had no turn.
A call of `BadGetUniqueID` is a read and a write; that it loses numbers is what the
code shows, and `NextIdShouldBe` is about the interlocked one.

**`ChildPipes`, `PipeWait`, `PipeSelect`.**  A pipe is how much was written to it
and how much was taken out (`written`, `shown`) and who has its write end open
(`writers`); contents are left out.  `Chunk` stands for the 1024 bytes of one read.
The child is the environment: it writes to the two pipes in any order, blocks on a
full one and exits.  `select` and each of the two reads are steps of their own, so
that the child may write in between.

**`WorkerPool`.**  Sockets are the bytes in them; `open` is `workers[i].s != -1`.
`MainEndIsOpen` says who keeps the parent's end of a socket: the parent, and the
living workers that were forked later.  `Spawn` includes a failing `fork`, which the
code does not notice: the worker is gone at once.  A worker's computation is the
step `Computed`, its look at the socket once in 10000 rounds the step `Check`.

**`CalcPipe`.**  `CallNamedPipe` is `Connect` followed by `ReadResponse` or
`Disconnected`, or fails in `CannotConnect`.  `DisconnectNamedPipe` empties the pipe.
`Calc` works on numbers modulo `Modulus`, as an `unsigned int` does; the sum and the
product are folds over the numbers, which stand for the loops of `SUM` and `MUL`.

**`ProverbServer`.**  `fdw` is how far the server is with one client, `fifo` what is
in the pipe.  `fdw.write` fills a buffer; it is `close` that writes (`Write`,
`WriteFails`) and closes (`CloseWritten`).  The kernel keeps the contents as long as
anybody has the pipe open.  Clients read to the end, as `cat` does, and leave in a
step of their own.  Proverbs are told apart by their number.

**`ClientThread`.**  A request is its form (`asked`): what its first line is like,
its method and query, its Content-Length, the number of pieces of its body and what
they are together, or the first of them alone, which may end within a character.  The
head is `HeadPieces` pieces; `recvuntil` takes one at a time,
`recv_all` and `recv_remaining` any number that has arrived.  `thread[c]` is where the
thread is in `__recv_http_request`, `__handle_client` and `run`.  An exception that
nothing catches is `Dies`: neither `shutdown` nor `close` is called then, and the
socket stays open as long as `ct` of `main` refers to the thread, that is, until
another connection is accepted.  These exceptions end a thread: a connection
that is reset, or found broken off in `send` or `shutdown`; a body cut short
(`json.loads(None)` is a `TypeError`); a head that is no UTF-8; a body that is none
when there is no Content-Length (the `ValueError` is raised inside an `except`
clause); a length beyond `RecvLimit`, for which `recv` raises an `OverflowError` or a
`MemoryError`; a body nested too deep for `json.loads` (a `RecursionError`); a text that
is no string, at which line 69 names `unicode` and Python 3 knows none; a message that
stdout cannot encode, which has been added by then.  `MayKill` is this list, written
from what the client sends and not from where the thread is.  Any other bad body is
answered with 400.  The semantics is that of Python 3 throughout.  The
timeout is one for each `recv`: a client that sends a byte now and then keeps its
thread.  What the handlers do is in `HttpChat` and `HttpFileCache`; here a handler is
its effect on one request.

**Readers of formats.**  `file` is the input, `at` how far it has been read, `acc` the
locals of the reader, `result` what it ends with; `None`, `NULL` and exceptions are
one `Error`.  An action is a chunk, a row, an opcode, a packet field or a line.  In
`PngDecoder` checksums and zlib are what they tell apart: any two chunks, any two
streams.  In `BmpReader` the header is its fields with their signs.  The Python readers
unpack sizes without a sign, so that a bitmap stored from the top is an error for
them and `h < 0` never holds; the C++ one shows it.  An end of line after the last row
of a run-length encoded bitmap is an error, as the iterator over the rows has ended.
In `DnsClient` a loop of pointers ends in the recursion limit, an `Error`.
In `IniParser` a character is one of those that the parser tells apart.

`MCSync` and `MCIpc` hold several programs: a behaviour runs one of them, which
`program` names, and keeps the variables of the others.

## 3. Runs

All runs use two workers and end within five minutes.  Deadlock is not checked in
any: each of these programs may stop (the machine is turned off, users go away,
bounds run out).

| Run | Shows | Bounds |
|---|---|---|
| `machine` | eleven guests on the whole machine | 256 bytes of RAM, 2-byte dwords, two characters, alarm after 2 ms, clock stops 1 ms late |
| `devices` | the devices under any guest | 2 activations each, alarms of 0 and 1 ms, two characters |
| `starvation` | **violated**: `NoInterruptStarves` | guest with both devices |
| `push_fault` | **violated**: `PushFaults` | guest that pushes at address 0 |
| `httpchat` | messages and windows; `ImplementsLog` | 2 windows, history of 2, 4 messages, 1 restart |
| `filecache` | freshness of answers | 3 threads (symmetric), 2 edits, 2 requests each, clock steps 0 and 1 |
| `stale_cache` | **violated**: `AnswersAreFresh` | 2 threads, every edit on a tick of its own |
| `p2p` | flood, greetings, neighbourhood | 3 nodes in a ring, 1 message, 1 fault |
| `substring` | **violated**: `ForwardsToAllButSender` | one address a part of another |
| `sync` | six programs of `014`, and the proverb server; the three queues implement `WorkQueue` | 3 threads, consumers or clients, 3 jobs, counter up to 3, 2 numbers each, the values 0 to 9, 3 proverbs |
| `ipc` | four programs of `021`, the server threads, the four readers of formats | pipes of 2, reads of 1, output of up to 3 in each pipe; 4 workers, 2 results, 2 bytes each; 2 clients with 2 calls, numbers modulo 16; 2 connections, 20 requests, the longest of them beyond `RecvLimit` of 3, heads and bodies of 2 pieces; the inputs of `MCFormats` |
| `sigpipe` | **violated**: `NotKilled` | 3 workers, 1 result of 1 byte |

Why the bounds are enough.  *machine*: two characters are what it takes for one to
arrive while the other's interrupt is handled; the RAM holds the longest guest
and a stack of several frames, and overflows when faults pile up; every
instruction and error path is met (`all_instr` and the fault guests), and in
`overtaken` two faults wait at once, which is as many as there can be.
*devices*: two activations meet the race of re-arming between a release of the
mutex and the interrupt.  *httpchat*: with `Limit = 1` the list holds two, so
that two more messages make windows fall behind and the offset grow past an id.
*filecache*: one thread is in the window between read and fstat, one overtakes it
with the new contents, one is answered from the result.  *p2p*: three nodes are a
line while the ring is being closed and then a cycle; n1 and n2 may add each other
at once.  *sync*: with three jobs a consumer can work on one while two signals are
merged or lost; with three threads one wins the lock and two wait for it when the
end comes.  *ipc*: the child's output can fit into a pipe, and be too much for it;
it can take more than one read; four workers are one that has sent, one that sends
half a result, one that computes, and one that keeps their sockets open; two
clients meet at the one pipe and find it listening, taken or gone.  The requests
overflow a sum and a product, and divide by zero and by nothing.  A head and a body of
two pieces can each be cut in the middle; the second connection is what lets go of the
socket of a thread that died.  Three clients of the proverb server are one that
leaves late, one that shares the pipe and one that comes too late.

The inputs of the readers come from encoders that follow the formats and not the
readers.  PNG: every pair of filters for two rows, over pictures of two by two pixels
whose channels differ and whose values wrap and tie; one picture cut into IDAT chunks
at both ends and in the middle, with foreign chunks, spoilt checksums, and each field of
the header that is not supported.  BMP: both orders of rows with padding; rows as runs,
as raw data and with moves; run-length encoded data that ends at every byte.  DNS: names in
full, as pointers, as labels and pointers and as pointers to pointers, in every
division of the stream, a packet cut short at every byte, pointers in a loop.  INI:
every sequence of up to three of eleven kinds of lines.

### What the violated runs say

* `NoInterruptStarves`: `vm.py:105` says "Return the first interrupt available.",
  and `pop()` takes the last.  A guest that re-arms the timer in its handler can
  keep a console interrupt waiting for ever.
* `PushFaults`: `vm_instr.py:151` tests the result of `store_dword` with
  `is None`; it is `False` when the address is outside the RAM.  No fault is
  raised, and `sp` has moved.
* `AnswersAreFresh`: `httpchat.py:161` takes the time of the file after the data.
  An edit in between is never noticed.
* `ForwardsToAllButSender`: `udpchat.py:154` passes a string where a set is
  expected, and `t in exclude` becomes a substring test.
* `NotKilled`: `socketpair.c:231` sends FF on every socket that is open.  A worker
  may have sent its result and ended since it was last polled; the send raises
  SIGPIPE and kills the parent.  The other workers end all the same (`WorkersEnd`),
  as the end of the parent closes their connections.

Some things that the passing runs show are worth knowing.  The history of the web
chat settles at one more than `messages_limit` (`HistoryIsTheTail`), because
`httpchat.py:77` compares before it appends.  A thread of the web server that dies
leaves its connection open until the next one is accepted (`ConnectionsEnd`).  The
proverb server dies when a client leaves between its `open` and the flush
(`DiesOfALateLeave`); only the sleep after each proverb speaks against it.  And `condpred.cc` may hang: the value
8 is there for 15 ms, and a consumer that gets no turn in that time waits for ever
(`ThreadsEnd` excepts it with `late`).

## 4. Fairness

* Machine: every thread that can run does (`WF` on the CPU, both workers, the
  exit and the clock): they are threads of the operating system.  Nothing is owed
  by the user: reading a character is not fair, and stdin may stay silent.
* Web chat: the browser's timer fires (`WF`), and a poll repeated for ever is
  answered and its answer delivered again and again (`SF`: any one may be lost).
  Lines are neither sent nor accepted fairly.
* P2P chat: threads go on and packets that are not lost come in (`WF` on the
  receiver's steps; the number of packets is finite, so that none is passed over
  for ever).  Properties that need every packet are stated for `faults = 0`.
* The file cache has no liveness property and no fairness.
* Server threads: `main` and every thread go on (`WF`), a timeout included, as it is
  the only step of a thread that waits for a silent client.  Clients owe nothing.
* Readers of formats: no fairness.  `AsExpected` says that a reader that has not ended
  can take a step; each step consumes input, or counts.
* Synchronisation: every thread runs (`WF` on each).  A spurious wakeup is not fair.
  Neither is the spinlock: no thread is promised to get it, only that somebody
  does, which is enough for `ThreadsEnd`, as the rounds are counted.  The clients of
  the proverb server are strongly fair: a client sees the end of the pipe only while
  the server sleeps, which it does after each proverb for long enough to give it a
  turn in the end.
* Pipes and sockets: every process runs (`WF`), the child of `pipe.c` included, which
  goes on to write and exits.  A worker's computation (`Computed`) is not fair, it
  may take as long as it likes: `WorkersEnd` holds by what the parent does.
  `ProgramsEnd` asks for enough results where the code needs them, and for output
  that fits into the pipes in `pipe.c`.  A client that is connected needs the
  server to go on; one that is not may fail at once.

## 5. Proofs

TLC shows a property on one small instance, a theorem for every value of the
constants.  Each module below gives its invariant, the facts that it holds at first
and that every action keeps it, and the theorems that follow.

`VMMachine_proofs`: for every program in the RAM, any size of it, a dword of 1 to 4
bytes and every input.
*Memory*: what `StoreDword` writes `FetchDword` reads (`DwordRoundTrip`), and no
other byte changes (`StoreDwordFrame`); this is arithmetic on the digits of a number in
base 256.  *Bits*: the recursive function behind `VAND`, `VOR` and `VXOR` is the
operation on each bit (`BitOpIsBitwise`).  *Interrupts*: what the interrupt entry pushes
`VIRET` reads (`ContextRoundTrip`), and when the stack pointer is back at the frame,
`VIRET` gives the program its registers and flags again, modulo the dword, with no fault
(`ReturnRestores`).  *The whole machine*: `MachineTypeOK` and `QueuesStayShort`, at most
one deferred load and two faults that wait.  `Executed` says of an instruction what both
need: it keeps the types, puts off one load or raises one fault, or neither.
`QueuesStayShort` is not inductive.  `QueuesOK` adds when two faults can be there: the
second is raised only while maskable interrupts are off, and then no load is put off, so
that the next interrupt check takes a fault before anything raises a third.

*The devices*, for every input, all bytes and any bounds: `DevTypeOK`,
`FifoDelivery`, `NoLostWakeup`, `OneShot` and `MutexLostOnlyAtBoot`.  The
inductive invariant `DevInv` has a part for each device (`ConPart`, `PitPart`)
that holds the safety properties themselves with the types they need, and adds
that the control register is 0 until the constructor is done: a guest cannot have
armed it earlier, which `NoLostWakeup` rests on.  A step of one device leaves the
variables of the other part alone (`KeepConPart`, `KeepPitPart`); Boolean
variables are typed in a part of their own, as they need another prover.  `BootPart`
says how far a worker can get while the constructor runs: to the first character,
which kills it.  `FifoDelivery` and `MutexLostOnlyAtBoot` hold in the whole machine, too,
under any program (`MachineFifo`, `MachineMutexLostOnlyAtBoot`).

*Handlers* (`HandlersReturnUndisturbed`, of any program): an interrupt puts the whole
context on the stack and, when no load is put off, turns the others off, and nothing is
taken while they are off and no fault waits.  From `vcrl 0x110` on its own frame a handler goes on to `viret`
and leaves with the saved context, whatever the devices raise and although the load turns
interrupts on: each step of the machine keeps `Enables`, `Enabled` and `Returns`, the places
of a handler's end, or goes to the next.

*Guests* (`GuestHandlersNeverNest`, `GuestInterruptsAreTransparent`,
`GuestEchoFollowsInput`): `console_test` and the
program with both devices are followed from their first instruction on, for every input
and any moment of each interrupt.  The invariant `GuestRuns` has two phases.  During the setup a guest
is at a `Row`: which instruction, what is in `r0` and `r1`, the two vectors and the control
word, a load that is put off included.  Then it is `Running`: in its main loop with the
registers of the setup, or at an instruction of a handler with the frame of the main loop on
the stack and interrupts off, up to the `viret`.  `Running` is stated for any
program whose code `Holds` certain instructions at certain addresses, so that one proof
(`RunningNext`) serves both guests; that the assembled bytes are these
instructions is proved from the operators of `GuestPrograms`.  `Calm` says that no fault waits,
and that only devices interrupt which the guest uses.  The theorems assume `UsualRam`: the RAM has 256 to
65536 bytes, a power of two, and a dword can hold its size.  The code has 65536 and four
bytes, the runs 256 and two; in a smaller RAM a guest does not fit, and a size that does
not divide 65536 sends a backward jump, whose distance is 16 bits, elsewhere.
What the guests print follows from where they are: `Echoed(k)` says that of the characters
read all but the last `k` are printed, in their order, and `ConsoleEcho` and `BothEcho` say
that `k` is 1, with the character in its register, between `vinb` and `voutb`, and
0 elsewhere (`FifoDelivery` makes what is read the beginning of what was typed).  Each
instruction of both images is one case of `ConsoleEchoes` or `BothEchoes`.  The prompt of
`console_test` is told apart from what was typed by its characters only, so for this guest
the theorem asks that the user types none of `C`, `:` and the space.
The program `storm` is left to TLC: its handlers do nest, as faults cannot be turned off.

`HttpChat_proofs`: for any browsers, limit, lines and restarts, `TypeOK`,
`HistoryIsTheTail`, `ShownOnceInOrder`, `NoGap` and that the
chat implements `ChatLog`.  None of the window properties is inductive: they need
what an id and an answer on its way *mean*.  In `ChatInv`, `Window(c)` says that an
id of this server counts the messages accepted when it was given out (`upto`), and
that one of an earlier server is no further than the messages that server
accepted; `Fits(c)` says that an answer is the consecutive messages up to such a
count, and starts after what its window shows.  `Gaps` adds, for a window that has
not been answered by a server its id is foreign to, that nothing the server still
has is missing, before and after the answer.  For the refinement, `HandlePostChat`
is `Accept`, `PollSucceeds` is `Read` of the block that the answer holds or, when it
holds nothing, no step; every other action leaves `posted` and `shown` alone.

`HttpFileCache_proofs`: for any threads, any steps of the clock and any number of
edits and requests, `AnswersAreFreshUnlessRaced` and `CacheFollowsTheFile`.  A pair of
a time and a version is *sound* when it is not from the future and, if the time is the
file's, the version is, too; it is *new enough* for the threads that are about to look
the file up with that time.  As long as nothing was `raced`, the entry and what a
thread is about to store are both, and that is inductive.

`ClientThread_proofs`: for any connections, requests and pieces, `RequestsAreWhole`,
which `MCIpc` checks as `H!RequestsAreWhole`.  The invariant says for each place of a
thread what has been received there, and that this is no more than was sent (`Place`),
and what the outcome so far says of the request (`Outcome`); a step of another client
disturbs neither.

`P2PChat_proofs`: for any nodes, neighbourhood, number of messages and faults,
`PrintedOnce`, `GreetedOncePerThread` and `RoutesHaveNoLoops`.  What is printed is known
(`PrintedIsKnown`).  The greetings sent to a user and the threads about to add it are
two at most, and none was sent to a user who is not nearby (`GreetedEnough`).  Of a packet
on its way or in hand, everybody on its route but the first knows its message, and they
are all different (`RouteFits`): a node that takes it and passes it on did not know it,
so it is none of them, and knows it then.

`MCSync_proofs`: for any threads, jobs, rounds, draws and proverbs, `SyncTypeOK`,
`CountsAreRight` and `ImplementsWorkQueue`.  `JobsInOrder` is what the three queues have in
common: the list holds the last of the jobs made, in order, and each job taken from it is
finished or in the hands of one consumer.  The step to `WorkQueue` that is not obvious is
a consumer's end, when no job may be left.  In `cond.py` `work_complete` implies that all is made.
In `event.cc` the completed event does, and while the list holds a job the
ready event is set, or about to be, or the consumer is going through the list.  In
`syncqueue.py` the count of open jobs is the list and what is in hands, and
it is 0 from `join` on.  The other parts: one thread at a time is past the
spinlock, and whoever has filled its row of the array has raised `g_finish` before it gives the
lock back; the interlocked counter is as many as the draws; the proverbs in the pipe
and those each client has got ascend, and a proverb is in one place.

`MCIpc_proofs`: for any sizes of pipes, workers, clients, calls, connections.
*Pipes of a child*: `OutputIsShown`.  *Calculator*: `AnswersAreRight` says that the answer
is what the call asked for in whole numbers, taken modulo `Modulus` at the end, while
the server reduces after each step; `CalcIsAsked` proves that these agree for any
number of operands, the division by zero and the empty list included.  *Pool*: the
bytes of each worker that are yet to be sent, on their way and received make up a
result, and the parent's count is the number of workers received whole, so it does
not finish before it has enough (`EnoughResults`).  *Server threads*:
`RequestsAreWhole`, from `ClientThread_proofs`.

`MCFormats_proofs`: for files of any size.  *PNG*: `UnfilterInvertsFilter`, for each of the five
filters and rows of any length; `PicturesComeBack`: the reader ends with the picture, or goes
on, for a file of any size that follows the format, each row filtered
as its writer liked, the stream cut into chunks of any length with any others in between;
`SpoiltIsRefused`: no picture comes of a file that ends before IEND or has a spoilt chunk
before it.  What a file that follows the format is, `Encodes` says without
recursion: `rest[k]` is the stream from row `k` on, `joined[k]` what the first `k` chunks hold,
each stated by the next or the one before.  It holds for the good files of `MCFormats`
and for no other of them.  *BMP* (`BitmapsComeBack`): a file that holds a picture gives that picture and never an error.
That a file holds it, `HoldsBitmap` says without recursion: uncompressed, where each
row begins, after the padding of those before it, from the bottom or from the top; run-length
encoded, a list of operations (a run, raw data, the end of a line, a move) with the byte where each is
stored and the column and row where it begins, such that each draws the colours of the picture and
what none draws is the first colour.  Every good file of `MCFormats` is one.  The invariant is
that after `k` rows the bitmap is the picture on one side of row `k` (`AtRow`), and after
`k` operations wherever one of them drew, and the first colour elsewhere (`DrawnSoFar`); the work is
that nothing else in `Next` can be taken, and that `Written` stays in the bitmap.  Moves that
leave the bitmap and come back, and operations that draw over others in another colour, are not covered.
*INI* (`SectionsComeBack`): a file whose every line is a comment or empty,
a header, or gives a key its value, with any spaces around and inside, gives the sections and
keys that `Meaning` states of the lines: what follows the last header of a
name, and the last value of each key.  `ReadSoFar` says that after each line the sections are the
meaning of the lines read.  What a line says is stated of its characters by `SaysSo`
(where the header ends, where the key does), not by the parser's `strip` and `split`;
all kinds of lines of `MCFormats` satisfy it.
*DNS* (`PacketsArriveWhole`): `ReceivedSoFar` says that `recv_all` has what came since it was
called and no more than it asked for, so the packet that is taken apart is the announced one,
in whatever pieces it came, and a connection that ends earlier gives no reply.

*Induction over data.*  The library's induction theorems take an operator as a parameter
and cannot be used here.  `Least` and `Induction` in `VMMachine_proofs` and `MCFormats_proofs` say the same of
sets of numbers, which is enough for the folds of the calculator, the bits and the rows of a
picture: a recursive function exists, is unique and has the property claimed of it.

Assumed are only the constants' assumptions, which stand in the modules, and
`HeadPieces \in Nat` in the theorem about `ClientThread`.  They are as weak as the code: the
threads of `014` are finitely many and there is one; `Modulus` is greater than 1, as
modulo 1 the empty product is not 1 (the code has 2^32); a pool needs some result.

With TLC stay:

* liveness under fairness (`AlarmFires`, `EventuallyShown`, `FloodEnds`, `ProgramsEnd` and the
  others that say what must happen) and `PicturesAreRight` and `RecordsAreRight` as they are
  stated, with `ENABLED`: that a reader which has not ended can go on;
* `InterruptsAreTransparent` and `EchoFollowsInput` of the guest `storm`, whose handlers nest;
* what the DNS client makes of the fields and names of a packet.

## 6. What is not modelled, and the plan

Output wording, logging, the register dump of `crash()`, HTML and CSS, windows and
files that pictures are shown in or written to; unparsable packets and commands of
the P2P chat, which change nothing.  A client of the web server that closes while the
server still sends, with input it has not read, may lose the response; this is the
kernel's doing and left out.  `hello.nasm` only prints.  `read1.c`, `read2.c` and `write1.py` are a
few reads and writes in a straight line, `obv-race-cond.c` likewise: it keeps no state
that another process could spoil but the files themselves.  `msgtest.cpp` prints what
others broadcast.  The data race of `stress_map.cc` is undefined behaviour inside a
library container, and the two versions that lock have nothing to get wrong.  Main of `httpchat.py` ends when
`accept` or the start of a thread fails, for want of files or memory, and so does anything
in the models that asks for more than there is; only `recv` is given such a limit, since the
client names the size.  A request whose JSON is followed by spaces beyond the announced
length is left out; it is answered like one without them.  The other chapters are listed with
their reasons in `PROJECT.json`.

The order of work was by how much can go wrong in a way that tests miss: the
virtual machine (three threads, one queue), the web chat (loss, bounded history,
restart), the file cache (four unlocked steps), the P2P chat (distributed), the
synchronisation programs, the pipes and sockets, the server threads, and then the
readers of formats.  Then came the proofs, in the same order.  What could still be
proved: guests whose handlers nest (`storm`), as `Running`, with a frame on a frame; and what the
DNS client makes of names, whose pointers need an order to go by.
