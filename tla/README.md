# TLA+ models of co_wq

co_wq is a header-only C++20 coroutine library: an executor with an intrusive
run queue, synchronization primitives built on it (semaphore, timers), and an
I/O layer (reactor, per-owner callback queue, serialized socket operations).
This directory models the concurrent core of it and the protocols on top, checks
the models with TLC and proves with TLAPS the safety of the executor, the semaphore and
its timed wait, the timer queue, the callback queue, the reactor, the serial slots, the
coroutine frames, the resolver and connect, and the byte stream.

All source paths are relative to the repository (`src/` in PROJECT.json).

## 1. Inventory

| Part | State | Operations | Interacts with | What makes it correct |
|---|---|---|---|---|
| Work queue `task/workqueue.hpp`, `task/usrlist.hpp` | `ws_head`, a list through the nodes themselves; `lk` | `post` of a node or batch, `add_new_nolock`, `trig_once`, `work_once` | everything: each callback, coroutine and primitive is a node | FIFO; a node re-posted while queued is linked once |
| Executor `test/syswork.cpp` | worker threads, condition variable, `stopping` | `wait_and_get`, `trig`, `stop_and_join` | overrides `get_work_node`; the ticker thread drives timers | no node is left while all workers sleep; stopping ends |
| Semaphore `sync/semaphore.hpp` | `_cur_val`, `acquire_list`, its own node | `acquire`, `try_acquire`, `release`, `sem_chk_cb`, destructor | executor's lock and queue | tokens conserved, waiters served in order, none forgotten |
| Timed wait `sync/semaphore.hpp` | per wait: `armed`, `cancelled`, `req_sta`, a timer node | the two functions racing to resume, `cancel_waiter` | semaphore and timer queue | resumed once, result tells the truth, no token lost |
| Timer queue `sync/timer.hpp` | pairing heap through the nodes, `owner_queue` | `post_delayed_work`, `cancel`, `tick_update`, `tim_chk_cb` | executor's lock and queue, ticker thread | a set of deadlines served in order; every delay ends |
| Callback queue `io/callback_wq.hpp` | `pending`, `running`, runner node and guard, `callback_enqueued` of waiters | `post`, `drain` | reactor and `close` post, a worker drains | one runner, FIFO, no post lost, state freed only when unused |
| Reactor `io/epoll_reactor.hpp` | waiters and mask per fd, the kernel's mask and ready list | `add_waiter*`, `remove_fd`, the reactor thread | posts waiters through their route | no edge lost, each waiter delivered once |
| Serial slots `io/io_serial.hpp` | `locked`, `waiters` per direction | acquire, release, two-phase awaiter, collect and post | socket operations and `close_fd` | one holder, FIFO, close wakes everybody |
| Files `io/file_io.hpp` | fd, `_closed`, two serial queues | read and write awaiters, `close` | serial slots, reactor | results tell what was moved, operations end |
| Sockets `net/stream_socket_base.hpp` | fd, `_closed`, `_rx_eof`, `_tx_shutdown`, two serial queues, callback queue | recv/send/connect awaiters, `shutdown_tx`, `close` | all of the above | bytes arrive once and in order, short counts mean something, operations end |
| WebSocket `net/websocket.hpp` | of a connection: request parser, frame and message being read | `accept`, `read_frame`, `read_message`, `send_frame` and its wrappers | a stream socket | right verdict on requests, messages and replies whole and in order |
| Tasks `task/task.hpp`, `task/worker.hpp`, `task/when_all.hpp` | coroutine frames, completion callbacks | `post_to`, resume, completion, destruction | executor | a frame is destroyed once, after its last use |
| `sync/inotify.hpp` | list of waiters, two counters | notify one/all, register, unregister, timeout | executor's lock and queue | notified waiters resume once |
| DNS resolver `net/dns_resolver.cpp` | `queue`, `stop`, a pool of threads, its own mutex and condition variable | `resolve`, `worker_loop`, `resolve_core`, `post_result`, `~Impl` | threads of its own; posts coroutines back to the executor | every lookup comes back once, its address fits the socket, the destructor ends |
| Listeners `net/stream_listener_base.hpp`, `tcp_listener.hpp`, `unix_listener.hpp` and connect `stream_socket_base.hpp`, `tcp_socket.hpp`, `unix_socket.hpp` | listening fd; of a connect: `ret`, `timed_out` | `bind_listen`, `accept` awaiter, `close`; `connect` awaiter with its deadline | reactor, the kernel's queue of connections | connections are accepted, success means connected, everything ends |
| TLS `net/tls.hpp` | SSL object, `_handshake_done`, two serial queues | handshake, receive and send awaiters, `close` | serial slots, reactor, OpenSSL | no data before the handshake, operations end |
| IOCP, USB, example programs | see PROJECT.json | | | |

Most of the hard behaviours are concurrent. Several executor threads, the reactor
thread, the ticker thread and outside threads share nodes that are linked into
one list at a time; decisions made under the lock are acted on after it
(`release` posts, `post` schedules the runner, the reactor posts waiters,
`close_fd` collects and then posts); some tests are made without the lock at all
(`sem_chk_cb`, `tick_update`, the end of `drain`). Memory belongs to coroutine
frames which a callback may end, so "who can still reach this node" is part of
correctness. The others come from the network: calls that move part of the data,
ends and resets in the middle of anything, messages in pieces. Nothing is
persisted, so there is no crash recovery.

## 2. Modules

```
WorkQueue ──┬─ Executor ──────── ConnectionProofs      MCExecutor
            ├─ Semaphore ─────── CoroutineProofs       MCSemaphore
            ├─ SemTimeout ────── SemTimeoutProofs      MCSemTimeout
            ├─ TimerQueue ────── TimerProofs           MCTimerQueue
            │  (PairingHeap, implements TimerSet)
            ├─ CallbackWq ────── ReactorProofs         MCCallbackWq
            │  (implements WorkQueue)
            └─ SerialIo ──────── SerialProofs          MCSerialIo
Resolver ─┬─ Dial ───────────── ConnectionProofs       MCDial
Connect ──┘
EpollReactor ───────────── ReactorProofs               MCEpollReactor
TaskFrame ──────────────── TaskProofs                  MCTaskFrame
StreamTransfer ─────────── ConnectionProofs            MCStreamTransfer
WebSocket ──────────────── CoroutineProofs             MCWebSocket
WorkQueueProofs: lemmas used by the other proofs, on lists, positions and
concatenations and on the existence of what a recursive definition describes
```

**WorkQueue** has the list operations as operators on sequences and, with them,
the abstract queue `QueueSpec`: post at the tail (moving a node that is queued
already, as `post` does by `list_del` and `list_add_tail`), splice a batch, take
the head. `list_del` on a node that is on no list is harmless in the code
because nodes are initialized to point to themselves.

**Executor** interleaves the steps of `work_once`/`wait_and_get`: taking the
lock, looking at the queue, evaluating the predicate of `cv.wait`, releasing the
lock and sleeping in one step (which is what a condition variable promises),
waking (notified or spuriously) and relocking. Posting and notifying are
separate steps, as in `post`. A running function may post other nodes, and may
use `add_new_nolock` without `trig` as `Semaphore::acquire` does. `ServiceNodes`
are nodes like the timer's or a semaphore's that may be posted while queued.

**Semaphore**: every critical section is an action, and `sem_chk_cb` is split
into its unlocked test, the lock, one action per turn of the loop and the
unlock. `co` says what each coroutine does. `issued` is a ghost that counts the
tokens in circulation. `Destroy` says when the destructor may run.

**SemTimeout**: a timed wait has two nodes, `Ev(r)` (the request) and `Tm(r)`
(its timer). The model keeps the lists as if memory were never reused, so that it
can say when a node outlives its awaiter. `req_sta` starts as "uninitialized";
reading it then gives either result.

**PairingHeap** translates the pointer operations (child, sibling, parent) as
functions on a record of links, for any set of nodes. `two_pass_merge` calls itself on
the list behind its first two nodes; the model is a recursive function of the depth of
the calls, which is at most the number of timers. The heap's nodes are the least set
closed under child and sibling that has the root. **TimerQueue** uses them in its actions and is
shown to implement **TimerSet**, where a timer just has a deadline. `post_delayed_work` is
two steps: it reads the clock and prepares the node, `owner_queue` included, without
the lock, and links it with the lock, when the deadline may have passed (`arming` has
the timers in between; TimerSet asks and arms in two steps for the same reason).
`CancelArming` says whether a timer may be cancelled between the two. `Watched` are
the timers that are awaited: of the others only their place in the heap matters.

**CallbackWq** splits `post` and `drain` at every point where another thread can
come between: after the link (the lock is still held to set the guard), after the
unlock, before each entry, between clearing `callback_enqueued` and the call,
inside the call. `Backlog`, what the running drain has taken followed by the
pending list, is the abstract queue.

**EpollReactor** is one fd with its waiters, and the kernel's side of edge-
triggered epoll: a change of the mask polls again, becoming ready puts the fd on
the ready list if the mask asks for it, `epoll_wait` takes it off. Different fds
share only the reactor's lock.

**SerialIo** is one direction of a socket or file with `close_fd`. `Closing` says
when it may be closed: never, while no callback runs (an executor with one
thread), or at any time. `kind`, chosen in the initial state, says which awaiters
use the direction: stream, `recvfrom` and datagram send
(`stream_socket_base.hpp`), file read and write (`file_io.hpp`), TLS data and the TLS
handshake (`tls.hpp`). Each has its set of outcomes of `attempt_once` (returned 0 or
-1, and the count it keeps) and its `await_resume`. OpenSSL is what its calls return
(done, wants to read, wants to write, end, error). How many bytes a stream moves is
module StreamTransfer.

**TaskFrame** follows coroutine frames. `resume()` is a call, made from `wk_cb`,
from an awaiter's callback, from `when_all` and from the completion of a child, so
each worker has a stack of calls under way; symmetric transfer replaces the top of
it. `frame` says where a coroutine is, `posted` which nodes wait to be run (their
order is module Executor). The decrement in `on_completed` is a read and a write
because `count` is a plain integer. `destroy_on_executor` never runs: `post` sets
`func` to `wk_cb` again, and `wk_cb` destroys a coroutine that is done.

**StreamTransfer** follows the bytes of one direction of a connection through
`attempt_once` of both awaiters. The kernel moves any number of bytes up to what
fits, a byte is the pair of its send and its position, and the turns of the
operations of one end are a queue (SerialIo says how it is kept). An operation that gets
EAGAIN is registered in a step of its own, and `close()` is three (`remove_fd`, the
collection of those that wait for the turn, the fd and the flags), so that everything may
come between; only operations are not started on a socket that is being closed. `Reset`
is a connection that breaks: bytes on their way are lost, and each end gets an
error from one call (`sockErr`: ECONNRESET, one like ETIMEDOUT that does not mark the write side,
or none, if the other direction has had it), after which `recv` returns 0.

**WebSocket** is a connection of the echo server: `accept` with the request in
parts, then `read_message` in a loop over `read_frame`, which collects each item
of a frame in pieces of any size, and replies through `send_frame`. The frame
format keeps its structure with smaller numbers (see the head of the module): the
places where the length changes its format and where the key repeats are within
reach of short payloads. `Answer` reads off a whole list of frames what must be
sent back; the actions know only the bytes that arrived. The lengths, the keys and the
texts of requests are constants with assumptions (`FrameAssumption`: a frame's length
fits the digits it has, a masked frame has a key; `RequestAssumption`).

**Resolver** is the pool: `enqueue` is two steps, because the notification comes
after the unlock; a thread of the pool looks at `stop` and the queue and falls asleep
in one step, as a condition variable promises; `resolve_core` is `ResolveCore`, a
function of the families of the host's addresses and of the socket's options. The
destructor is three steps (stop, notify, join). **Connect** has the clients' connect
awaiters, the listener with its acceptors, and the kernel's queue between them. The socket
of an `Impatient` client may be closed by another thread, in two steps, at any time: before
`connect()`, between it and the registration, or between `remove_fd` and the close of the fd, when
`await_resume` of the coroutine that `remove_fd` has posted asks an fd that is still
connecting. The reactor is reduced to what a listener sees of it: an event is taken in one step and
dispatched in another, to all who wait by then. **Dial** composes the two: a client of
a remote server looks a name up and connects to the answer, and the step that resumes
it from the lookup is a step of both modules; clients of a local server connect to a
number or a path.

Every `MC` module instantiates its specification for TLC. A definition whose
comment begins with "Variant with a fault" is used by no specification: it is
what a likely mistake in that code would look like, and PROJECT.json says which
property notices it.

## 3. What is checked

| Run | Result | Bounds |
|---|---|---|
| `executor` | holds | 2 workers, 1 outside poster, 3 nodes, one of them a service node |
| `semaphore` | holds | 3 coroutines, 2 workers, 1 signaller, initial value 1, maximum 2, up to 3 tokens in circulation |
| `sem_timeout` | holds | 3 waits (2 timed), 2 workers, 1 token |
| `sem_timeout_token` | violated: `NoTokenLostToTimeout` | same |
| `timer_queue` | holds | 4 timers, one of them awaited, 1 worker, delays 0 and 1, none cancelled while it is armed |
| `callback_wq` | holds | 3 waiters, 2 posters, 2 workers |
| `epoll_reactor` | holds | 2 waiters per direction, one with a deadline |
| `serial_io` | holds | 3 operations, 2 workers, each of the 7 kinds of awaiters |
| `stream_transfer` | holds | see `MCStreamTransfer`: full, partial, vectored and empty operations, a kernel buffer of 2 bytes, one of the ends closed, 2 ways to fail |
| `task_frame` | holds | 1 worker, a task joining 2 others, a task awaiting 1, each suspended at most once |
| `websocket` | holds | 5 requests, 2 sets of options, up to 3 out of 12 frames |
| `dial` | holds | 2 clients, 2 acceptors, a queue of 1 connection, 1 error of accept, 2 threads in the pool, 4 targets on 2 hosts, 1 client closed by another thread |

The invariant of a run is the conjunction of the named parts that belong together
(`SerialInv`, `TimeoutInv`, `HeapInv`, `CallbackInv`, `StreamInv`, `FrameInv`,
`EchoInv`, `DialInv`), types included; parts that a theorem is about are also listed by themselves.

Why the bounds are enough to meet the interesting cases: two workers are the
least that can race, and all per-thread state is symmetric; three nodes,
coroutines or operations give a holder, a first and a second waiter, so that
order matters; four timers give a heap with a node that has both a sibling and a
child, which is where cancellation has to repair three links. Two deadlines suffice
there because the heap only compares them, and one worker because `tim_chk_cb` works on the
heap in one critical section; arming, which does not, is a step of any thread. In
`stream_transfer` either end is closed, but not both in one behaviour: an operation meets its
own socket closed or the peer's. `ControlInv` and `JoinWaitsForAll` hold of the tasks of `task_frame`
on two workers too (25,757 states); `FrameInv` does not (see below). In `dial` there is one client and one acceptor more than the
listener's queue has room for, so that a connection waits for room and an acceptor
comes too late, and as many pool threads as lookups, so that all may sleep or all be
busy; `MaxFaults` is less than the number of acceptors, because each error of accept
ends one (see below). `MaxIssued` and
`MaxTime` bound counters that are otherwise unbounded; they appear in the guards
of `Signal`, `Clock` and `PostDelayedWork` only. `MaxSuspends` and `MaxFrames`
bound the length of a program: one suspension tells a task that ends inside
`resume()` from one that ends in a later callback, and three frames give a message
of two fragments with a control frame between them.

### The disagreements found

* `sem_timeout_token`: a timeout that wins after the grant loses the token.
  `cancel_waiter` returns whether the request was still waiting and `on_timer`
  ignores it.
More come from the same modules and have no run of their own. Each is reproduced by
the change to a configuration that is named with it.

* With several workers, which is what `get_sys_workqueue(0)` starts, `wk_cb` still
  reads and writes the promise after `resume()` has returned, while the awaiter's
  callback on another worker resumes, ends and lets `wk_cb` destroy the same frame:
  `Workers = {w1, w2}` in `MCTaskFrame.cfg`, `FrameInv`. This is against
  `.github/copilot-instructions.md:32`, "所有被 post 的 `worknode`
  必须在完成前保持有效" (every posted worknode stays valid until it has completed).
* With two workers the children of a `when_all` may lose a decrement, and the
  coroutine that joins them is never resumed: same change, `NoFrameLeaked`.
* A timed wait's awaiter can be destroyed while one of its nodes is queued, or
  before `await_suspend` has linked it, because the timer is armed first:
  `NodesOutlivedByAwaiter` in `MCSemTimeout.cfg`. The passing properties of
  SemTimeout are therefore about the protocol, assuming that memory is not reused
  meanwhile.
* `close_fd` on one thread while a callback on another is between its EAGAIN and
  `register_wait`: the waiter is registered after `remove_fd` and nobody wakes it.
  `Closing = "any"` and `CloseWakesWaiters` in `MCSerialIo.cfg`. With one executor
  thread, and `close_fd` called from it, the run `serial_io` shows that every
  operation ends, but for the reads of the next item.
* A file read that runs after `close()` makes no system call and then tests an
  `errno` left by some earlier call (`file_io.hpp:108` and `89`). If that was EAGAIN
  it registers fd -1 with the reactor, is never resumed and keeps the slot:
  `EveryOpEnds` without `ReadMisled`, in `MCSerialIo.cfg`.
* The same on a stream, with its bytes: `EndReleasesAll` without `Overtaken`, in
  `MCStreamTransfer.cfg`.
* `send_all` is documented to send exactly `len` bytes or return an error
  (`stream_socket_base.hpp:501`, "发送恰好 len 字节或错误返回"), but `await_resume` (line 489)
  returns the short count if anything was sent before the error. If the error is not EPIPE,
  ECONNRESET or ENOTCONN (lines 462, 482) the write side is not marked either: the short
  count is all that tells. `ShortOnlyAtEnd` therefore asks for a mark, a closing, or an error
  recorded by an operation on a connection that was reset.
* After a reset whose error one `recv` has reported the next one gets 0 and sets `rx_eof`
  (lines 365-368), although bytes were lost. `EofAfterAllData` is about connections
  that were not reset.
* A connect that `remove_fd` has posted may be resumed on another thread before the fd is
  closed: `SO_ERROR` of a socket that is still connecting is 0, and `await_resume` returns 0,
  "0 表示成功" (0 means success, line 164). `ConnectTellsTruth` without `CloseOvertaken`, in
  `MCDial.cfg`. It takes two threads.
* `cancel` of a timer whose `post_delayed_work` has set `owner_queue` and not yet linked it
  clears `owner_queue` and finds nothing to unlink; the node is linked afterwards, in a heap
  that it does not know of, so that no later `cancel` removes it:
  `CancelArming = TRUE` in `MCTimerQueue.cfg`, `HeapInv`. The awaiters of `sync/` cannot
  meet it. `test/chat_server.cpp:586` cancels the timer of a peer from another session's
  coroutine, with several workers perhaps while `arm_wait_timeout` (line 577) arms it.
* What an operation reports when `close()` takes it from the queue depends on its
  kind: datagram receives, file reads and file writes report ECANCELED, but datagram
  sends and stream operations report 0, a stream receive thus an end of stream.
  `ReportsAreTrue` is stated for the first three.
* `stop_and_join` (`syswork.cpp:68-76`) does not take the lock around the store,
  so a worker between the predicate and the sleep misses the notification and
  `join` never returns: `StopJoins` instead of the properties of
  `MCExecutor.cfg`, with deadlock not checked.
* `~Semaphore` does not unlink the semaphore's own node: `Destroy = "visible"`
  and `NoUseAfterDestroy` in `MCSemaphore.cfg`. The `semaphore` run restricts the
  destructor to states where that node is not in flight, which the code leaves to
  the caller.
* The immediate path of `acquire` leaves `req_sta` unset: `Timed = {}` and
  `ResultTellsAcquired` in `MCSemTimeout.cfg`.
* `close()` of a listener on one thread while an acceptor on another is between
  `await_ready` and the registration: the acceptor is registered after `remove_fd` and
  stays suspended, against `stream_listener_base.hpp:86`. `ListenerClosing = "any"` in
  `MCDial.cfg`, `ShutdownEnds`.
* A connect to a Unix socket whose listener's queue is full gets EAGAIN, which
  `connect_awaiter` treats like EINPROGRESS (`stream_socket_base.hpp:203`). Such a
  socket is not connecting: epoll reports EPOLLOUT and EPOLLHUP at once, SO_ERROR is 0,
  and success is reported without a connection. `ConnectTellsTruth` excludes it by
  `ConnectMisled`.
* `enqueue` of the resolver notifies after its unlock. If the resolver may be
  destroyed while that is under way (`Teardown = "any"` in `MCDial.cfg`), `JoinPool` may come
  before `NotifyOne`, which then uses a condition variable that is gone. Programs keep the
  resolver for their whole life.
* TLS: `close()` frees the SSL object and sets it to null, and a callback that runs
  afterwards calls SSL_read or SSL_write with null: `SslOutlivesItsUse` in
  `MCSerialIo.cfg`. OpenSSL since 3.2 returns an error, older versions crash; the
  `serial_io` run assumes the former.

Found by reading and not in the models:

* Each tick moves the timer's node to the tail of the run queue. With one worker
  and work that keeps the queue non-empty `tim_chk_cb` never runs. The `timer_queue` run
  has no other work on the executor.
* The end of `drain` (`callback_wq.hpp:457-458`) compares and resets `runner.guard`
  without the lock, so that it can take the reference that a concurrent `post` has
  just stored for the next runner. `TailCompare` and `TailReset` mark the two steps in
  CallbackWq.
* `inotify_num` (`inotify.hpp:46`) posts with the executor's lock held, and `post`
  takes it: the first notification that finds a waiter stops there for ever.
* The server loops of `test/echo.cpp:470` and `test/uds.cpp:86` end on the -1 that
  `accept` returns to an acceptor that came too late, which is not an error. With one
  acceptor, as there, another process or an aborted connection is needed for it.
* Every error of accept other than EAGAIN and its like is fatal
  (`stream_listener_base.hpp:173`), also those that pass, like EMFILE: a server may
  stop accepting for good.
* `usb_device.hpp:531` uses a transfer after it has posted the coroutine that owns it.

### Fairness

Weak fairness of each worker, of the reactor thread and of the ticker: they are
threads in endless loops. Strong fairness is used where a thread competes for the
spin lock (`DrainStep`, `TickPost`, `WorkerStep` of the timer queue): the lock is
not fair, but nobody holds it for ever and the scheduler does not starve one
thread systematically. Coroutines return their tokens and end (`Semaphore`), and
a peer eventually sends or reads (`AttemptDone`, `ReactorEvent` in `SerialIo`):
these are assumptions on the user of the library, stated in the comment of each
`Fairness`. In `TaskFrame` the events that coroutines wait for come, and every posted
node is taken (`OneShotServed`); in `StreamTransfer` callbacks run, the reactor
delivers and a `close()` that has begun ends, and `EndReleasesAll` asks nothing of the peer; in `WebSocket` only the
server's coroutine is fair; in `Dial` callbacks run, the reactor delivers events and
deadlines, getaddrinfo returns, `enqueue` and the destructor end once begun, while the
network may be silent for ever: only the deadline ends such a connect. Clients never
have to call anything.

`CHECK_DEADLOCK FALSE` appears where the system may come to rest: all coroutines
ended, no timer armed, the socket closed. The `executor` run checks deadlock.

## 4. What is proved

For every value of the constants that satisfies the module's `ASSUME`:

| Module | Theorems |
|---|---|
| `CoroutineProofs` | of Semaphore: `SemaphoreInvariant`, `TokensAreConserved`, `NoWaiterIsForgotten`, `CoroutineInOnePlace`, `GrantsAreFifo`; of WebSocket: `EchoInvariant` |
| `SemTimeoutProofs` | `TimeoutInvariant` |
| `ReactorProofs` | of EpollReactor: `ReactorInvariant`, `NoEdgeIsLost`, `WaiterDeliveredOnce`; of CallbackWq: `CallbackInvariant`, `CallbackQueueIsFifo` |
| `SerialProofs` | `SerialInvariant`, `ReportsTellTruth`, `SlotPassesInOrder` |
| `TimerProofs` | `TimersInHeap`, `HeapIsTimerSet` |
| `TaskProofs` | `ControlHolds`, `JoinWaits` for any number of workers; `FramesLive` for one |
| `ConnectionProofs` | of Executor: `ExecutorInvariant`, `NoWakeupIsLost`, `ExecutorImplementsQueue`, `NodeQueuedOnce`; of Dial: `DialInvariant`, `ConnectTellsTheTruth`; of StreamTransfer: `StreamInvariant`, `EndOfStreamIsReal` |

The two of the timer queue assume besides that no timer is cancelled while it is being
armed (`~ CancelArming`); otherwise they are false (§3). For all but the timer queue, `EndIsReal`
and WebSocket the invariant of the run is the inductive one: the
parts that only serve the induction are conjuncts of it too, so TLC checks them. For the
timer queue it is `TimersInv`, which says what tree the links form; `HeapInv` is what can be
said of that node by node, and follows from it. `EndIsReal` is proved with `ErrInv` and `EofInv`
(below). For WebSocket it is `EchoInductive`, stated
with the existence of functions that TLC would have to enumerate. The proofs have one lemma per
part and in it one step per action; they rest on the constants' assumptions (which sets
are disjoint, that the set of coroutines is finite where tokens are counted) and on
nothing else.

*Executor.* "While the queue is not empty, some worker is not asleep or a notify is
still to come" is not inductive alone: a worker about to sleep would break it. The
invariant adds that a worker at the point of sleeping has the lock and saw an empty
queue (`SleepOnEmpty`), that the lock's holder and the workers inside agree
(`LockDiscipline`), and that workers only exit when stopping. Since a post needs
the lock, nothing can be linked between the last look and the sleep.

*Semaphore.* `SemInv` adds to the four properties the relation of workers and
coroutines (`WorkerInv`), the position of the loop relative to the list and the
value (`LoopInv`: what lies before the position was passed over because no token
was left) and that a destroyed semaphore has no waiters (`DeadInv`). Conservation
of tokens is an argument on cardinalities of the set of owners, so it uses
FiniteSetTheorems; being in one place is an argument on the indices of two
sequences and uses the lemmas of `WorkQueueProofs` on removal, append and tail.
`GrantsAreFifo` follows from `LoopInv`: with a token left the loop is at the first
entry.

*Timed wait.* `ResumedOnce` needs to know who may resume: `ClaimInv` says that from
`await_suspend` to the end of the body either `armed` is set or exactly one worker has
the right, so that an exchange can only be won once. `TokensNotDuplicated` fails to be
inductive where a coroutine releases: it must own what it gives back, although
`req_sta` may be uninitialized or overwritten by the loser. `GrantInv` says that a
token stands behind every queued event and behind every worker that resumes without
having set REQ_TIME_OUT. `sem_chk_cb` is treated as a whole: `Live` is a recursive
function, and the lemmas `KeptExists` and `LiveFacts` show by a least counterexample
that it is defined and keeps only requests of the list that were not cancelled.

*Timer queue.* `HeapInv` says of each node that its links agree with its neighbours' and
that no child is due before its parent; that every armed timer is reached from the root,
and that there is no cycle, is a statement about the whole. `ListOf(m, deadline, f, owner, S)`
is the notion the proof works with: the links of `m` make `S` a list of sibling heaps
that starts at `f`. Every operation cuts such lists and joins them: a list is
the heap of its first node and the rest (`HeadTree`, `HeadRest`); a node that is
detached leaves its list whole, and its children are a list of their own (`Detached`);
`meld` makes one heap of two that share nothing (`MeldTrees`). `two_pass_merge` does the
three again and again, and `MergeFacts` shows by a least counterexample on the depth of the
calls that it makes one heap of a list, provided the depth is not less than the length
of the list, which the set of all timers bounds. The root is then the first due
(`RootIsFirst`), which is what `tim_chk_cb` relies on when it stops at the first
timer that is not. For the refinement the deadlines read through the links are those of
the armed timers (`DeadlinesAre`), whatever the shape of the tree.

*Tasks.* `ControlInv` relates three places that know of a coroutine: its `frame`, the
node that waits to be run, and the stacks of calls. With it `JoinWaitsForAll` holds for any
number of workers: a lost decrement leaves the count too large, never too small. That
a frame is alive whenever a call returns into it (`FrameInv`) is a matter of who
destroys it. With one worker, a frame is destroyed only by the call that `wk_cb` made
at the bottom of the stack, and nothing that runs above it can end it for `wk_cb`
(`WkCbAlone`). `FramesLive` therefore assumes one worker, and with two the property fails
(§3).

*Callback queue.* `RunnerOnItsWay` says who has the right to drain (`running` is set
exactly if a post is about to schedule, the runner is queued or one worker drains), so
two drains never overlap and a post that finds `running` set leaves its entry to a
drain that has still to look. `EnqueuedInv` says what `callback_enqueued` means: on a
list, or just taken off one. The FIFO part needs `LinkedOnce` besides: an entry is on
one list, once, so that linking it is an append. The refinement maps to `local \o pending`; a splice
is then a stutter and a link an append.

*Reactor.* `ReactorInv` adds to the properties the agreement of the waiters' own
state with the place they are in (`PlaceInv`) and of the mask in `fd_state` with
the waiters and with the kernel's mask (`InterestAgrees`).

*Serial slots.* `InOnePlace` counts the places of an operation; `PlaceInv` says the same
without counting (with a worker, on the run queue, on the list, with the reactor, in the
hands of `close_fd`, each excluding the others), which is what the steps maintain.
`HolderInv` says that an operation that is to make a call and release the slot has it,
and how `locked` relates to that; `ReportInv` what an operation's count can be at each
point. They hold for every value of `Closing`: closing at the wrong moment leaves an
operation suspended (§3), but before `close_fd` resets the queue it never gives the slot
to two, and nothing false is reported.

*Resolver and connect.* The pool is like the executor (`PoolAwake`), with `PlaceInv`
for the lookups, `ExitInv` for threads that leave only when stopping with an empty
queue, and `AnswerInv`, which carries the answer of `ResolveCore` from the pool to the
socket. `ResolveCore` takes the first usable address, so its lemma needs that a set of
positions has a first one. `SettledInv` says what is known of a connect that was posted
without an error: its connection is settled, or it is one of those that nothing tells
(`ConnectMisled`, and `CloseOvertaken` between the steps of a `close()`). The two exceptions
are states of the code, not assumptions: `ConnectTellsTheTruth` is the statement that there
are no others.

*Stream.* `StreamIntact` needs to know who moves the bytes and how many. `TurnInv` says
that the operation that reads or writes is the last of `served`, and that one that has
not had the turn has moved nothing: so a read or a write lets the last part of one
concatenation grow, and an operation that gets the turn adds an empty part.
`CountInv` says that a buffer holds as many bytes as are counted and, with `Covers`, that
the iovecs left are the rest of the data without gap or overlap, which `advance_iov`
keeps wherever in an iovec a call stopped (`AdvanceFacts`). What remains is that a
concatenation is associative. The recursive definitions (`TotalLen`, `advance_iov`, the
`FlattenSeq` of the community modules) are functions: the lemmas `RecursionExists`,
`TotalLenFacts`, `AdvanceExists` and `FlattenIsConcat` show by a least counterexample that
each is the one that satisfies its equations. A reset cuts the stream short: from then on
what is received and in the kernel is a prefix of what was sent, which no later step
lengthens (`ResetStays`). `EndIsReal` then goes action by action: an
operation that ends short has met the end, an error or the closing of its socket, and none of
them goes away. `ErrInv` says that only a connection that was reset has an error to tell; `EofInv` that `rx_eof` without a
reset means an empty kernel and a sender that is shut down or closed, so that nothing
can be added to what was sent (`EofIsAll`).

*WebSocket.* That what was sent is a prefix of what is owed says nothing of a frame that
is half read. `EchoInductive` therefore has `n`, the number of frames read to their end,
and two functions: `T[k]` is the stream that follows frame `k` and `R[k]` what is owed for
it (`Behind`). While the coroutine reads (`Reader`), the bytes it holds, the bytes on their way
and those a broken connection lost are what is left of frame `n + 1` at this item, followed by
`T[n + 1]`; what `read_frame` knows of that frame is right (`FrameAt`); no frame so far was
refused or a close; and the buffer holds the payloads since the last message that ended
(`Assembled`). When it no longer reads, it has met a bad frame, a close, the end or a
reset (`Ended`). And `out`, the rest of the frame being sent and `R[n]` are together
`Answer(sent)` (`Owed`), unless the client has broken the connection. Receiving a piece moves
bytes from one side of a concatenation to the other. The four items of a frame are read back
as they were written: `DigitsOfNumber` and `NumberOfDigits` for lengths and codes,
`XorFacts` for the mask, `WireParts` and `NextFacts` for the order of the items. A frame
that is complete is compared with the reference definitions, which look back over the
whole list: `ReplyToControl`, `ReplyToData`, `AssembledFragment`, `AssembledEnd`. A frame
the client sends afterwards changes none of what was read off the shorter list
(`AppendReply`), and a list with a bad frame or a close calls for nothing more
(`DeadIsSilent`), which gives `AllAnswered`. `HandshakeSound` needs of `accept` only that the
size was checked before the verdict. The assumption that two exclusive ors with one key
cancel is the model's `Base = 2`.

Only model-checked:

* everything under fairness (`OneShotServed`, `EveryWaiterResumed`, `EveryPostRuns`,
  `EveryDelayEnds`, `EveryWaitEnds`, `WaitersWoken`, `EveryOpEnds`, `EndReleasesAll`,
  `NoFrameLeaked`, `ConnectionCloses`, `NoConnectionStranded`, `EveryDialEnds`,
  `ShutdownEnds`): the provers do not do ENABLED.

## 5. Left out

Memory order: all steps are sequentially consistent; where the code shares a plain
variable without a lock the accesses are separate steps. Debug poison patterns,
magic numbers and hooks: they detect misuse. The reference count of the callback
queue's shared state. Several fds in one reactor and reuse of fd numbers. Results
and exceptions of coroutines. Several coroutines that send frames on one WebSocket
connection. The text of HTTP requests and answers. Of TLS: contexts, certificates,
`shutdown_tx` and DTLS. Of the listeners: the placeholder sockets of
`async_accept_socket`, the path that a Unix listener unlinks, moving. inotify, because
there is no concurrent behaviour to model before its self-deadlock (above) is
resolved. Windows (IOCP, wepoll), USB, the example programs: see the components in
PROJECT.json.

## 6. Plan

1. A composition of EpollReactor, CallbackWq and SerialIo for one socket, with the
   abstract specification "each operation is executed once, in order", and with the
   lifetime of the callback queue's state.
2. `UsbPool` (`usb_device.hpp`): a pool of transfers with waiters, completed on the
   event thread of libusb; file offsets.
3. `Notify` (`inotify.hpp`), once it can notify at all.
