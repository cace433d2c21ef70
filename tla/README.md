# zephyr_practices: models, checks and proofs

TLA+ models of the concurrent parts of this repository, the TLC configurations that check them on
small instances, and TLAPS proofs of their main invariants for instances of every size.

Paths below are relative to `src/`; `castle/` and `castle_ext/` stand for
`test_features/linking_lib_castle_2.0/include/castle` and `.../castle_ext`.

## 1. The system

The repository is a collection of Zephyr programs and of the C++ library *castle* that some of them link.

| Part | State | Operations | Interaction | What is hard |
|---|---|---|---|---|
| `castle/events/thread_pool.hpp` | task slots, free and pending ring of slot indices, flags, created threads | construct, `submit`, worker loop, `stop`, destroy, `running`/`queued`/`available` | pthreads share one mutex and one condition variable; tasks may call back | lost wakeups, slots handed over between threads, stop against submit, partial construction, destruction of the mutex |
| `castle/events/event_handler.hpp` | event slots, free ring, min-heap of due nodes, sequence counter, flags | construct, `post_*`, run loop, `shutdown` | one worker; callbacks run in their slot without the mutex and may post or stop | timed waits against earlier posts, repetition, order, shutdown while a callback runs |
| `castle/container/spsc_buffer_desc.hpp` | per slot: atomic state, size, generation; two cursors; handles held by users | `acquire_write`, `commit`, `cancel`, `acquire_read`, `release`, `clear` | one producer, one consumer, no lock | plain memory protected by the state protocol only, stale handles, generation wrap, out-of-order commits |
| `castle/sync/shared_mutex.hpp` | one word (writer bit or reader count), count of waiting writers | `lock_read`, `try_lock_read`, `unlock_read`, `lock_write`, `try_lock_write`, `unlock_write` | atomic builtins only | decisions on stale values, writer preference, starvation |
| `test_drivers/console_uart_echo_bot` | static line buffer, message queue of 10 | UART interrupt, echo loop | interrupt puts, main thread gets | full queue, overlong lines |
| `test_drivers/rpi_pico_ublox_gnss` | ring buffer, binary semaphore, line buffer | UART interrupt, parser thread | interrupt gives, thread takes and drains | wakeup between drain and take, overflow, sentences cut by interrupts |
| `test_drivers/rpi_pico_ublox_gnss_dma` | as above, two DMA buffers | async UART callback, parser thread | driver events | buffer hand-over, restart after errors |
| `castle/container/ring_buffer.hpp`, `castle/events/tick_timer.hpp` | indices; timer table | push, pop, bulk; start, stop, tick | used by the above; callbacks re-enter | wrap-around; re-entrancy |
| `castle_ext/protocols/mqtt` | client: tables of outgoing and incoming messages and of requests, packet identifiers, keep alive; broker: slots, sessions, subscriptions, retained message, wills | connect, publish, subscribe, poll, packet handlers, resend, take-over, expiry, close | packets over TCP, polled by both ends | lost connections, resend, two ends that disagree on an exchange, a session shared by an old and a new connection |
| `castle_ext/protocols/coap` | client: exchanges, recent identifiers; server: recent replies, pending responses, request counters | `send_request`, `cancel`, `process_once`, timers; `receive`, `send_separate_response`, `tick` | datagrams over UDP; callbacks re-enter the client | loss, duplicates, reordering, retransmission, tables that overflow, two spaces of identifiers |
| `castle_ext/io/rpmsg`, DNS, HTTP | endpoints, transactions | send, receive | packets | timeouts, matching of answers |
| `test_features/kernel_*` | one kernel object each, a few threads | demonstration threads | Zephyr kernel objects | wakeups, shared payloads, initialisation order |
| `test_features/linking_cpp_libs` (nmea_parser) | parser state, database, shared buffer | feed, dispatch, generate | callbacks | framing across chunks |
| everything else | none or straight-line | print, configure, link | | |

What makes each correct: every accepted task, event, buffer, line or byte is handled once, in order and at
the right time; no wakeup is lost; nothing is used after it was released or destroyed; a stop ends. The list of
hazards, each at its line with the properties that would reveal it, is in `PROJECT.json`.

## 2. Modules

### ThreadPool
State: the class's members (`free_queue_`, `pending_queue_`, `tasks_`, `running_`, `stop_requested_`,
`created_thread_count_`, the two `*_initialized_` flags) plus, for each worker, its place in `worker_loop()`, and, for
each thread or task inside `stop()`, its place there. Every section between lock and unlock is one action. `stop()` reads and
writes `running_` and `created_thread_count_` and joins *outside* the mutex; there every access is an action.
A waiting worker can wake without a signal. `accepted` and `taken` number the tasks. The owner constructs and destroys;
other callers submit and stop, and so do running tasks. A task that calls `stop()` is at once a stopping actor and a busy worker:
`pthread_join` of its own thread fails (`StopJoinSelf`), and of two tasks that join each other one may get that error too or both wait for ever
(`StopJoinMutual`: POSIX leaves the choice to the implementation).

### EventHandler
State: members of the class, a tick clock, and the worker's place in `run_loop()`. `scheduled_queue_` is the set of the
heap's nodes and the top is the least node under `event_node_compare`. Posting computes the due time under the mutex,
as the code does. `CallbackDone` is the whole second critical section, with the re-queue of a repeating event and
its fallback. `shutdown()` is two actions around `pthread_join`; a callback may call it too (which requests the stop and joins
nothing). Events are numbered in order of acceptance; `runs` and `goal` count starts.

### SpscBuffer and SpscChannel
Each atomic load and store of `state` is an action, and so is the plain write before a store. Every handle
ever returned may be used again, so stale copies are part of the model; generations wrap at `GenMax` (2^32 - 1 in the
code), skipping 0. `is_valid()` reads the plain generation and then the atomic state. For the producer, who alone writes generations, this is one step.
The consumer's are two, and its first read races with the producer's write at line 534 when the handle is old: `Matches` lets that read
yield anything outside a slot the consumer is reading. `SpscChannel` is the abstract specification: a bounded channel in which buffers are reserved, committed in any
order, and received in reservation order. `SpscBuffer!ImplementsChannel` maps the slots from the read cursor on to the channel,
from the start and again after each `clear()`, until a reservation is cancelled (the history variable `cancelled`).

### SharedMutex
State: the two words of the class, each thread's place in an operation and the value of `state_` it read. Each
`__sync` builtin is one action. `WriterBit` stands for `writer_bit_` and only has to be above `MaxReaders`, so the writer bit is set
exactly when the word is at least `WriterBit`. Threads call any operation while they hold nothing, and unlock what they
locked. `passed` records the readers admitted while a writer waits.

### UartEchoBot
One action per received byte (the interrupt handler's loop body), the queue, and the echo loop with one action per
`uart_poll_out`. A character is its line and position, so that mixing or reordering is visible.

### GnssReceiver
The interrupt (one action: a chunk of bytes, the prefix that fits, the give), the semaphore with limit 1, and the parser
thread with one action per byte. Bytes are `$`, line feed or other.

### MqttWire, MqttClient, MqttBroker, MqttSystem
`MqttWire` is a TCP connection as the two ends use it: two sequences of packets, either end may hang up, the network
may cut (everything in flight is lost; an end learns of it at its next receive). `MqttClient` has one action per call of the application (`connect` in its
steps: dialled, CONNECT sent, CONNACK received, returned; `publish`, `subscribe`, `unsubscribe`, `disconnect`, `force_close`; `CallFails` for calls that fail after they took an identifier), the two outcomes of a
ping, and one operator per packet handler, which maps the client's record to the next one. `MqttBroker` does the same for `poll()`: accept, one slot's visit
(receive, end of stream, keep-alive expiry, closing), and the pruning of sessions. A slot that is overtaken by a new connection of the
same client is closed in a later visit, as in the code. One topic; a message is its number, its QoS and
what it does to the retained message. `log` and `app` record what was forwarded, delivered and acknowledged.
The message callback may call `publish()`. Inside `poll()` that is the same as `Publish` followed by `ClientReceive`, because a handler reads nothing that
`publish()` writes before it runs the callback. Inside `connect()`, which accepts packets that came with CONNACK, it is an action of its own, `CallbackPublishes`:
`connect()` then resends or forgets the new entry with the old ones.
`MqttSystem` composes them; a scenario (the options of the connections, the messages, the calls) is chosen in `Init`.

### CoapWire, CoapClient, CoapServer, CoapSystem
The network is the set of all datagrams sent: any of them may arrive at any later time, any number of times, or never, which is
loss, duplication and reordering in one. Time belongs to the application in this code (`now_ms` is a parameter), so a deadline
may have passed at any poll, and `service_timers()` and `tick()` are sequences of steps for one entry. The callback is part of the action
that runs it: it may cancel its exchange, send the next request, or both, *before* the client frees the slot. The tables of recent
messages are rings that lose their oldest entry when they are full or when the exchange lifetime has passed. The sends
of the server may fail, and so may the retransmissions of both ends: `RetransmitFails` and `ResendFails` leave the entry as it is, due and uncounted, and end the loop and the poll, so
neither later entries nor datagrams are looked at. `Reached` and `Ticked` are the entries the loop gets to. An empty acknowledgement starts the exchange's lifetime again, and
`LifetimePasses` (`waited`) is the time going by. A generation is represented by the request that uses the slot.

`MC*` modules give the constants their values together with the `.cfg` files.
`*Proofs` modules hold the theorems and the lemmas they rest on; `MqttOnceProofs` continues `MqttProofs`.

## 3. Runs

| Run | Shows | Bounds |
|---|---|---|
| `thread_pool` | slots accounted, order, no lost wakeup, nothing used after destruction; accepted tasks are taken and stops terminate | 2 workers, 2 slots, 5 tasks, 2 callers; one thread, the tasks of both workers and the owner stop; any constructor call fails |
| `thread_pool_two_stops` (violation) | two concurrent `stop()` join the same thread | two stopping threads |
| `spsc_buffer` | exclusive ownership, stale handles invalid, contents intact; refinement of the channel and reception of what was committed, until a cancellation and again after `clear` | 2 slots, 3 uses each, generations that wrap at 2, sizes 0 and 2, with `cancel` and `clear` |
| `spsc_buffer_cancel` (violation) | after `cancel()` a ready slot is out of the consumer's reach | 2 slots |
| `event_handler` | slot accounting, no oversleeping, due order, exact repetition, safe destruction; events complete, shutdown terminates | 2 slots, 3 events, delays 0 and 2, intervals 0 and 1, 2 repetitions, time 0..3 |
| `shared_mutex` | exclusion and the limit of readers, each thread overtakes a waiting writer at most once, readers alone cannot starve a writer | 3 threads, 2 readers at most |
| `mqtt` | QoS 2 at most once to each subscriber, from end to end, acknowledged messages were forwarded, settled messages were delivered, neither end rejects the other's packets, wills only on loss and once; exchanges complete; with a callback that publishes inside `connect()` | one client that publishes to itself, 2 connections of which one may be cut, 2 messages, 2 identifiers, tables of 2; three scenarios |
| `mqtt_session_expiry` (violation) | closing the slot a client was taken over from starts the expiry of the session in use | as above |
| `coap` | a request is executed once while its reply is remembered, every exchange ends once, a piggybacked response goes to its own request, a separate one is heard once, and heard when it was acknowledged; exchanges and retransmissions end if retransmissions are not refused for ever and empty acknowledgements do not come for ever | 2 clients with equal identifiers and tokens, up to 3 requests, 2 exchanges, 1 retransmission, tables of 1 and 2 recent messages, up to 2 separate responses, one failing send; six scenarios |
| `uart_echo_bot` | echoes unmixed and ordered, a line that fits is echoed whole and not lost below capacity, queued lines are echoed | messages of 2 characters, queue of 2, 4 lines of up to 4 characters |
| `uart_echo_bot_overlong` (violation) | the end of an overlong line is echoed although the code reports that it drops the message | one line is enough |
| `gnss_receiver` | sentences counted and reported as the reference definition says, buffered bytes are parsed | all streams of up to 6 bytes, ring of 3, line buffer of 4, chunks of 1 or 2 |

The bounds are chosen so that each limit is met: queues become full and empty, slots are reused several times,
generation counters wrap, a line is shorter than, equal to and longer than the buffer, the ring overflows, a repetition is
behind schedule, and a stop meets each place of a worker. Two workers or slots are enough for two parties to compete for one thing.
In the MQTT run identifiers wrap, both tables fill, a connection is cut at every point of both handshakes, and the second
connection takes over, resumes or clears the session. In the CoAP run both recent tables lose entries and the only pending slot is taken.
The scenarios of these two runs keep their features apart to keep the product of all faults out of one behaviour: what needs, say, a
failing send *and* a callback that cancels is not explored.
Deadlock checking is off where a bound ends the behaviour (`MaxUses`, `MaxTime`, `MaxLines`, `MaxBytes`, the scenarios); it is on for the thread
pool, whose only final state is the destroyed pool. No state constraint and no symmetry is used.

**Fairness.** Weak fairness with one exception (below), and only for threads that the code has started and that the scheduler must run: workers
(their tasks and callbacks return), a constructor, a `stop()`, `shutdown()` or destructor that has begun, the
clock, the echo and parser threads, a thread inside an operation of the reader/writer lock or holding it. The two ends of MQTT go on polling (which receives, closes and accepts), the two
ends of CoAP go on polling and time goes on: what the timer loop reaches and has no retransmission left is given up. That it is reached, and that a retransmission is
counted, depends on sends that succeed. So the premises of `ExchangesSettle` say what is asked of the network there: a retransmission that stays due is sent at last (`ClientSends`,
`ServerSends`), and empty acknowledgements, each of which moves the deadline, come to an end (`AcksEnd`). Beyond that nothing is assumed of the network: it may cut every connection it is allowed to and
lose every datagram that was sent. Nobody is obliged to submit,
post, type, lock, connect, publish, send, stop or destroy. The exception is the consumer of the ring, who may do other things with handles between two polls:
strong fairness of `AcquireReadLoad` says that one who can poll again and again does poll. Elsewhere weak fairness suffices because
each such step stays enabled until it is taken: a thread that waits on a condition variable is represented by an action that
is disabled, not by a lock it competes for. `MqttSystem!Fairness` writes weak fairness out, with the enabling conditions as
formulas: infinitely often disabled or infinitely often taken.

**Findings.** The four violation runs are disagreements between the code and what its comments say; they are described
with their lines under `findings` in `PROJECT.json`.

**Exceptions in properties.** Some properties would be false of the code without an exception, and each exception stands for
a behaviour that TLC shows when the exception is taken out:

* `ThreadPool!AcceptedIsTaken` is about pools with `running_` set: when the first `pthread_create` fails, `shutdown_created_threads()` returns at
  line 403 and the pool accepts tasks that nobody takes.
* `ThreadPool!NoUseAfterDestroy`: a task that calls `stop()` cannot join its own worker (258). The call clears the count and `running_` all the same (263-264), the destructor's `stop()`
  then returns at its first test (239), and line 144 destroys the mutex while that worker is alive. These workers (`self_stopped`) are excepted; the property covers all others of such a pool.
* `ThreadPool!StopTerminates`: two tasks of one pool that call `stop()` may join each other (`TasksJoinEachOther`).
* `MqttSystem!NoProtocolError` and `AckedIsForwarded`: a callback that publishes inside `connect()` (`connected_` is already set, client.hpp:969). `clear_outgoing()` (176) drops the new entry while its PUBLISH is
  on the way, or `resend_outgoing()` (172, 789) sends it a second time; the broker answers each, and the answer without an exchange is an error (1113-1116), or is taken for that of the next
  message with the same identifier. `AtMostOnce` needs no such exception in the run.
* `MqttSystem!AckedIsForwarded`: the broker keeps its half of an incoming QoS 2 exchange in the connection's slot. After a reconnection it answers PUBREL
  with PUBCOMP although it has lost the message; the publisher believes it delivered.
* `MqttSystem!SettledIsDelivered`: the broker numbers outgoing messages from 1 on every connection, the client keeps QoS 2 identifiers it has not released
  when it resumes a session. A new message with such an identifier is acknowledged and not delivered. The other exception needs three connections: the closing of an old slot
  erases the session of a client that has taken over, a subscription of that client puts its entry for subscriptions back, and a third connection gets a CONNACK without "session present"
  with a message right behind it. `connect()` polls until CONNACK is there, may accept the message in the same poll, and then forgets it in `clear_incoming()`.
* `CoapSystem!EndedOnce`: a callback that cancels its exchange and sends a new request gets the same slot, which is freed when the callback
  returns; the new request is never answered nor timed out.
* `CoapSystem!ExchangesSettle` has the premises named under Fairness: a retransmission that is refused for ever (client.hpp:437, server.hpp:281) keeps its entry, and those after it, for ever.
* `CoapSystem!ExecutedOnce`: a reply that could not be sent is not remembered, and a full ring forgets replies within their lifetime.
* `CoapSystem!HeardOnce`, `AnswersOwnRequest`: a confirmable observation that was answered is not marked as acknowledged, so the registration is
  retransmitted, the cached answer is heard again, and the observation is given up after the last retransmission. A response that is not an acknowledgement is matched by
  its token alone.
* `CoapSystem!AckedIsHeard`: replies to NON requests carry identifiers of the client, separate responses identifiers of the server, and the client
  remembers both in one table; both counters start at 1. A notification whose number is that of an earlier reply is acknowledged and dropped. A response the client has
  reset is acknowledged when its copy arrives.

## 4. Proofs

All theorems hold for every value of the constants allowed by the modules' `ASSUME`s (positive sizes; sets of
naturals for delays, intervals, sizes), with no bound on tasks, events, uses or time: the bounds only restrict the guards.

* **ThreadPoolProofs.** `IndInv` = type correctness, the queue invariant (free and pending queue are disjoint, duplicate-free
  and cover the slots; pending tasks are numbered `taken + 1 ..`), `RunOnce`, `NoLostWakeup` and `Lifecycle` (which worker
  states are possible in which phase of construction, stopping and destruction). `SlotsAccounted` alone is not inductive:
  that tasks are numbered consecutively is needed for the order, and `NoUseAfterDestroy` needs the join loop's progress (all workers
  below the loop index have been joined) and that `created_thread_count_` counts the workers that exist, in all phases.
  `NoUseAfterDestroy` excepts the workers whose own task called `stop()`; `ThreadPoolExitBeforeDestroy` says that without such a call no worker at all outlives the mutex.
  `StopIsFinal` is an action property from the guards. `JoinedOnce` is false with two stopping threads, see the violation run.
  Type correctness, `RunOnce`, `StopIsFinal`, and `CallbackStable` and `NoStartAfterStop` below are proved and not repeated as properties of a run.
* **LockFreeProofs: the ring.** `SpscTypeCorrect`; `SpscExclusiveOwnership` from `CallInv` (what a side's place in a call says about the
  state of its slot); `SpscStaleHandlesInvalid` from `GenInv`: the generation of a slot is the number of its uses reduced to `1 .. GenMax`, and so
  is that of every handle, so two of them agree exactly when the uses are a multiple of `GenMax` apart; `SpscDeliveredIntact` from `BufferInv` (slots in use hold
  distinct buffers); and `SpscImplementsChannel` from `RingInv` (unless something was cancelled since the last `clear()`, the
  slots between the cursors are writing or ready, the others free or reading, `ahead` is the distance of the cursors).
  `SpscBufferCancel.cfg` shows why cancelling ends it.
* **EventHandlerProofs.** `NoOversleep` and `NoUseAfterDestroy` are inductive as they stand. Slots: `SlotInv` adds that a
  scheduled slot is occupied and carries its node's due time, and what holds before construction and after a stop request. Order: `OrderInv`
  says that the last started event precedes every scheduled node strictly (by due time, then sequence), that sequence
  numbers are distinct and below the counter, and that a running slot still carries the due time it was started with,
  from which the repetition is computed. `NeverEarly` and `StartsInDueOrder` follow. Repetitions: `RunsExactly` speaks of events that have no slot, so `Tally` says
  what their slots owe: the runs of an event plus the starts its slot has left are the number asked for. It uses that no two slots hold
  the same event and that re-scheduling a repetition never meets a full queue (the nodes use the other slots).
* **LockFreeProofs: the reader/writer lock.** `Inv` = type correctness, `Exclusion`, `WordInv` (`state_` is the writer bit while a writer owns the lock and the
  number of readers otherwise; a reader about to swap carries a value below `MaxReaders`) and `CountInv` (`waiting_writers_` is the number of announced
  writers). `Exclusion` needs `WordInv` because the threads decide by the word. With `PassedInv` (who overtook a waiting writer is not past the look at
  `waiting_writers_`) it gives `OvertakenAtMostOnce`. `MutexTypeOK` is proved and not repeated as a run (the names of `SharedMutex` carry `Mutex` where they
  would clash with those of `SpscBuffer`, as one module holds the proofs about both). `ReadersCannotStarveWriter` is liveness and stays with TLC; two writers
  can starve one another, which no comment excludes.
* **UartEchoBotProofs.** A character is known by its line and position, so the properties compare the output with what was typed. `RxInv`: the receive
  buffer holds the end of the open line, and what it lost before was lost `MSG_SIZE` characters at a time. `SentInv`: what was sent of a message is a prefix of it. `PipeTails` and
  `PipeOrder`: echoed, current and queued messages are ends of finished lines, in the order of the lines; in particular the j-th message in the queue is at least of line j,
  which is why the queue cannot be full before line `QueueSize + 1` ends. `Kept`: until then every line that fits is somewhere in that pipe. That a line that fits is echoed whole rests on the buffer never having been emptied in it. The three properties follow.
* **GnssReceiverProofs.** `CountsSentences` compares the parser's state with a definition over the whole text it consumed. The proof relates the two step by
  step: reading one more byte extends the text, and `CountInv` (a line is being assembled exactly when the text has a `$` with no newline after it; the count is that of
  the sentence ends of the text) says what the set of sentence ends becomes. `RingInv` (the ring is the end of what was accepted) connects
  the byte read with the text, `LossInv` says that while the counts agree no byte was skipped, and `LineInv` that then the line buffer and the last
  sentence are contiguous from their `$`, cut at `LineSize - 1`.
* **CoapProofs.** One invariant `CoapInv` for both ends and the network, which loses, duplicates and reorders (a sent datagram stays in `net`). `ExchangeInv` is about a client's table:
  every request made is active in exactly one slot, or has exactly one outcome, or is an orphan (its slot was overwritten by the request a callback made); `CoapEndedOnce`
  follows. `RunsInv`: a request whose callback ran is in the server's cache or was evicted from it; `CoapExecutedOnce` follows.
  `NetInv` and `CacheInv`: what is in flight or in the cache for a request answers that request, and the identifiers of the server's confirmable responses are distinct;
  with `HeardInv` (a response heard is remembered or was evicted) this gives `CoapAnswersOwnRequest` and `CoapHeardOnce`. `CoapAckedIsHeard`
  needs `KnownInv`, an invariant across the network: an acknowledgement in flight, and an identifier in the client's list of recent messages, belong to a message
  that was heard or rejected, and `PendingInv`, that what the server still repeats was sent. The proof has one lemma for all steps of a client and one for all of the
  server, which say what such a step may do to the invariant; each action is then shown to be such a step.
* **MqttProofs.** `MqttWillOnLossOnly`, for any number of clients, slots, connections and cuts and whatever the applications do. `WillInv`: a slot that serves a connection has
  it to itself, the connection is open and its will unpublished; if the connection has a will, the slot still holds it, so no step but DISCONNECT, a take-over or
  `close()` can drop a will before `publish_will()`; what waits in the backlog has had nothing happen to it; a closed connection with a will had it published. DISCONNECT
  marks the slot, and the same visit closes it: `Settling` is the invariant in the middle of a visit of slot i, `Steady` between visits. The difference matters: an expired keep-alive time
  sets the will pending again, which is harmless because no slot whose client has left survives a visit. The packet handlers are dealt with by one notion: `Quiet` says that a step
  leaves alone what decides on wills, and every send, publication, session and table operation is shown to be quiet; what is left are `HandleConnect`, `HandleDisconnect`,
  the closing mark and the end of a visit. Clients and the network only add connections to the backlog (`Grown`).
  The property itself is not inductive: it says nothing of open connections, and that a will is published once rests on each of them having one slot.
* **MqttProofs, continued.** `MqttAckedIsForwarded`. An acknowledgement is believed by its identifier alone, so the invariant has to say that an identifier in flight means
  what the client thinks it means. `ExchangeInv` says of each client's current connection: the table of outgoing messages and the requests have distinct identifiers; every packet in either
  direction that belongs to an exchange (`UpOK`, `DownOK`) finds its entry, in the state that packet implies; of one identifier at most one such packet is on its way, in one direction or
  the other (a token that is with the client, on the wire or with the broker); what the slot holds of a QoS 2 exchange is in the client's table; and whoever is about to be acknowledged, the
  message has been forwarded or the exchange was resumed (`Acked`). That a freed identifier is really unused when it is given out again, after it wrapped, is where the mutant
  `AllocateIdentifier_AnyBusy` breaks it. Three notions of a step of the broker carry the proof: `Calm` (it changes nothing an exchange of any client depends on), `Mild` (it sends to clients what is no
  answer: publications) and `Firm` (it may also answer one client); `SideStep` and `OwnStep` are the same for clients. `resend_outgoing()` is the only place where several
  packets are sent at once: `NthIs` says that the entries in use, counted in order, are each sent once.

* **MqttOnceProofs.** `MqttAtMostOnce`: the broker hands a QoS 2 message on at most once, and the callback of each client sees it at most once, for any number of clients, connections,
  cuts and retransmissions. Nothing in the protocol numbers messages from end to end, so the invariant `OnceInv` says where a message can be. On the way up, `UpInv`: a message that has not been
  forwarded is with one party only - in an entry of its publisher that still awaits PUBREC, and at one slot of the broker, which holds it or may still read it from its connection - and one that was
  forwarded is at none (`OnePlace`). Connections the publisher has given up count as long as the broker may read them, which is why `UpInv` also says that a client has one session at a
  time (`OneSession`, from the take-over in `HandleConnect`), that a slot serves the client at the other end of its connection (`Greets`), and that who sent PUBREL does not send the message again
  (`Releases`): a PUBLISH that comes late is then known by its identifier or dropped with its slot. On the way down, `DownInv`: before its callback a client has at most one copy of the message, held for
  PUBREL or on its connection, none once the callback has run (`Half`); retained copies and wills are told apart by `Bears`. The subscriber's
  table survives a reconnection while the broker's does not, so no copy is sent twice: a connection given up takes what was on it along.
  The broker's steps are of three kinds (`Hush`: nothing is accepted or forwarded; `Stored`: a message is held; `Starts`: it is forwarded), as are the clients' (`OneMoves`, `OwnHalf`, `Rests`), and each
  action is shown to be one of them.
  `AtMostOnce` counts the callbacks of each client apart; a count over all clients would not notice one that sees a message twice while another has not seen it.

The theorems about `AckedIsForwarded` and `AtMostOnce` speak of behaviours up to the first callback that publishes inside `connect()`: the invariants then no longer hold (`Unnested`). For `AtMostOnce` the
run covers the rest.

Every inductive invariant was first checked with TLC on the instance of the component's run.

Only model-checked: liveness (it needs fairness and `ENABLED`, which this prover does not handle), and `SettledIsDelivered` and `NoProtocolError` of MQTT.
Both speak of the broker's table of outgoing messages, for which an invariant of the kind of `ExchangeInv` is needed in the other direction: which identifiers a client still remembers from
an earlier connection, and which answers to them are on their way. Beyond that `SettledIsDelivered` is about what must have happened, not about what cannot happen twice, and needs an account of every
way a message can be dropped. These invariants have not been worked out.

## 5. Not modelled

* Failures of `pthread_mutex_lock`, `pthread_cond_*` on initialised objects. The code returns in those cases; POSIX gives no reason for them
  with default attributes.
* Memory ordering below sequential consistency. The spsc ring uses acquire and release on the state, which is what makes the
  plain accesses ordered; with a non-atomic `TState` the class makes no promise.
* `event_handler`'s conversion of milliseconds to nanoseconds and `timespec`: `add_ms()` (line 809) casts a 64-bit delay to `int64_t` and may
  overflow for delays of centuries.
* MQTT callbacks that call `disconnect()`, `force_close()` or `connect()`: they change the receive buffer and the connection under
  the loop of `receive_bytes()` (client.hpp:863). Inside `connect()` also callbacks that subscribe or unsubscribe, and a `publish()` there that fails or is called twice by one callback.
* A tear in the spsc ring's racing read of the generation is covered (the read may yield anything); what else an optimizer may make of undefined behaviour is not.
* MQTT: the encoding of packets and malformed packets, topics and filters (one topic that matches), version 5 properties, authentication, identifiers assigned
  by the broker, and partial sends. Wills are QoS 0. Sends to an end that is gone vanish or fail. The refusal of a further
  client is in the model but the instance has room for both connections. Noticed and outside the properties: after `poll()` has seen the end of a
  connection, `ping_outstanding_` and entries of `requests_` stay; a message for a subscriber whose table is full is dropped.
* CoAP: the encoding, `close()`, registration of resources at run time, the reset branch of the client (this server resets no request of this
  client), the wrap of 16-bit message identifiers, the failure of the empty acknowledgement before a separate response, and the peer table of the UDP server: it never
  forgets a peer and refuses new ones when it is full.
* The DMA variant of the GNSS receiver beyond its parser thread: `UART_RX_BUF_REQUEST` reads a field of the event (line 89) that the event does not define, so
  which buffer is offered depends on the UART driver, which is not in the repository.
* Payloads, logging, timing statistics, device set-up.
* The parts listed as `not_modelled` in `PROJECT.json`, each with its reason. Most of the repository's lines are of this kind: serialisers (XML, JSON, CSV,
  INI), codecs, cryptography, containers, linear algebra and filters of the castle library, twice (versions 1.0 and 2.0), and vendored parsers. They are sequential conversions
  of large data without a protocol; the models concentrate on the parts with threads, interrupts, connections and timers, a few percent of the lines.

## 6. Plan

1. done: ThreadPool, SpscBuffer with SpscChannel, EventHandler, SharedMutex, UartEchoBot, GnssReceiver, CoAP, with proofs; MQTT, with the proofs about wills, acknowledged messages and delivery at
   most once.
2. Proofs: `NoProtocolError` of MQTT, with the exchange invariant for the broker's table of outgoing messages; then `SettledIsDelivered`.
3. Candidates for further modules: `TickTimer` (callbacks that stop or start timers during a tick), `RingBuffer` as a refinement of a
   bounded queue, the kernel programs with shared objects (`kernel_cond_vars`, `kernel_polling`, `kernel_events`), `NmeaFraming`, rpmsg endpoints.
