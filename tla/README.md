# stdiobus (Python SDK): TLA+ specifications

TLA+ models of the asynchronous core of `stdiobus`, the Python client of the
stdio_bus agent transport. Paths are relative to the package,
`src/stdiobus/`, unless they name another directory of the repository.

## 1. The system

A user program talks JSON-RPC to agents through a bus. `AsyncStdioBus`
(`client.py`) keeps the requests in flight and the notification subscriptions;
a backend (`backends/`) owns the bus itself: a child process, a Docker
container, or the C library in the same process. Everything runs on one asyncio
event loop; a coroutine runs undisturbed from one `await` to the next.

| component | state | operations | how it interacts |
|---|---|---|---|
| In-flight requests and streams, `client.py` | `_pending_requests`; per entry a future or a queue, the chunks so far; each caller's place in `request()` or `stream_request()` | `request`, `stream_request`, `start`, `stop`, `destroy`, the dispatch of messages, `_on_backend_closed` | calls the backend's `send`, `start`, `stop`, `destroy`; the backend calls back with each message and, subprocess only, with the exit of the process |
| Notification subscriptions, `client.py` | active set; per subscription a bounded `asyncio.Queue`, `_closed` | `subscribe_notifications`, `_deliver`, `close`, `__anext__`; teardown by `stop` and `destroy` | fed by the dispatch; consumers suspend in `Queue.get` |
| Subprocess backend | `_state`, `_process`, stdin, read task, registry of live processes; the pipes to and from the process | `start`, `stop`, `destroy`, `send`, read loop, stderr loop, `atexit` handler | writes on the loop, reads in executor threads; calls the message handlers and `on_close` |
| Docker backend | `_state`, container id, TCP reader and writer, buffer | the same, over the engine's command line | as above, but tells nobody when its read loop ends |
| Native backend | C bus, poll descriptor or timer, `_stepping`, `_stopping` | `start`, `stop`, `send`, `destroy`, step callbacks | the C library calls the message handlers from within a step |
| Backend contract, `backends/base.py` | none | abstract methods and defaults | implemented by the three backends |
| Backend selection and configuration, `client.py`, `types.py`, `_resolve_binary.py` | the temporary files and pipe ends that carry the configuration | the constructor: option validation, choice of the backend, lookup of the binary; `_spawn_process` | before everything else; the binary is looked up again by `start()` |
| Sync wrapper and builder, `client.py` | a private event loop, which stands still between calls | each call runs one coroutine to its end | over `AsyncStdioBus` |
| Errors, message assembly, bus binary, cffi glue | none or not Python | | |

What is hard here, and the properties that make each component right:

* **Requests.** A call can end by its answer, an error, its deadline, a
  cancellation, a broken-off loop, `stop()`, `destroy()` or a crash, in any
  order and several at once; chunks carry no request id and go to every pending
  call; answers come late or twice. Right means: nobody in flight is forgotten;
  the table holds the calls in flight and nothing else; a consumer gets each
  chunk once and in order, then at most one end; two streams never share a
  chunk; every wait ends.
* **Subscriptions.** Full queues at the moment of a notification or of
  `close()`, closing while the fan-out iterates, several consumers and
  cancelled ones. Right means: isolation between subscribers, order,
  drain-then-stop, no lost wake-up, and an end of every iteration.
* **Backends.** `start` and `stop` suspend, and anything may happen meanwhile:
  the other one, `destroy`, a cancellation, an exit of the process. Right means:
  no orphan process or container, STOPPED is true, a crash is noticed, no
  message after the end, and `stop()` ends. In the native backend the handlers
  run inside a step of the bus and may send or destroy it there.
* **Pipes and threads.** Messages are written on the loop by calls that block,
  and lines are read in threads that need the loop; the program's end waits for
  those threads. Right means: the loop comes back from a write unless the
  output overflows, every call of the wrapper returns, a process that is stuck in
  its output is served, and a program that stopped its bus exits.
* **Selection.** Five groups of arguments, the platform and what is installed
  decide together. Right means: a listener is served or refused, never dropped;
  the documented order is kept; no file or descriptor stays unnoticed.

`PROJECT.json` lists each hazard at its line with the properties aimed at it.

## 2. Modules

| module | models | reads as |
|---|---|---|
| `BackendLife` | what the client relies on in a backend with a process: its state, whether a message can be sent, whether one can still arrive | the abstract life cycle |
| `Client` | requests, streams, dispatch, composed with `BackendLife` | one action per segment between two awaits |
| `CallContract` | nothing in the code: what callers are promised | the abstract specification `Client` implements |
| `Subscription` | `NotificationSubscription` and its fan-out, with `asyncio.Queue`'s hand-over of wake-ups | same |
| `SubprocessBackend` | `backends/subprocess.py`, up to the end of the program | same, plus the process, the reaping thread and the reading ones; implements `BackendLife` |
| `Pipes` | the four pipes of the subprocess backend with their capacities, under `asyncio.run` and under the synchronous `StdioBus` | one action per unit written or line read |
| `DockerBackend` | `backends/docker.py` | same, plus the engine, the container and the bytes on the connection |
| `NativeBackend` | `backends/native.py` | one action per callback of the loop; a step and the handlers it calls are separate actions, as the C library and Python take turns |
| `BackendSelection` | the constructor of `AsyncStdioBus`, `_resolve_backend`, `_create_*`, `NativeOptions.validate`, `resolve_binary`, and `_spawn_process` of the subprocess backend | decisions as operators, each with the order of its tests |
| `MCClient`, `MCSubscription` | small instances | |
| `Client_proofs`, `ClientContract_proofs`, `Subscription_proofs`, `SubprocessBackend_proofs`, `Pipes_proofs`, `DockerBackend_proofs`, `NativeBackend_proofs`, `BackendSelection_proofs` | theorems | `ClientContract_proofs` builds on `Client_proofs`: chunks and the refinement of `CallContract` |

The modules compose in a chain: `CallContract` <- `Client` over `BackendLife` <-
`SubprocessBackend`. The arrows are refinements, checked by TLC and proved;
`Client` is composed with `BackendLife` by conjunction, each of its actions with one
of `BackendLife` or with none.

### Client

A call is its message id: a member of `FutureCalls` (`request()`) or of
`StreamCalls` (`stream_request()`). `pending` is the key set of
`_pending_requests`; `chunks`, `queue` and `future` are the fields of
`_PendingRequest`; `pc` is where the caller is: `waiting` (suspended in
`wait_for`), `yielded` (its consumer has control), `abandoned` (the consumer
left the loop, the generator is not finalized yet), `done`. The k-th chunk the
agent writes has the text k, and `emitted` counts them: order, loss and
duplication of text are then visible.

* `Call` is `request()`/`stream_request()` up to the first await: refused, sent,
  or failed in `send()`.
* `ReceiveChunk` and `ReceiveResponse` are `_handle_message_on_loop` and
  `_handle_notification_on_loop`. A response may be repeated or late
  (`asked` may keep it), may hold a dict (aggregated text), another result, an
  error object, or an `error` member that is no object, which raises after the
  entry was popped.
* `RequestReturns`, `RequestTimesOut`, `CancelRequest`, `StreamResumes`,
  `StreamAwaits`, `StreamTimesOut`, `CancelStream`, `Abandon`, `FinalizeStream`
  are the ways a suspended caller goes on. When the timer of `wait_for` fired,
  an answer that comes before the coroutine resumes no longer counts; the model
  admits either outcome, which covers the implementations of `wait_for` of the
  supported Python versions.
* `Start` ... `ReadLoopEnds` conjoin a step of `BackendLife` with what the client
  does to its calls in the same segment: `Stop` and a `ReadLoopEnds` that is a
  crash fail all of them, `Destroy` does not. The subprocess backend is the only
  one with a close callback; over Docker and native there is no such crash.
* User handlers run inside the dispatch and may call `destroy()`, which leaves the
  table: the dispatch that goes on afterwards does the same as if the handler had
  called it just after, so the model has no action for it.

### BackendLife

`backend` is the state the client reads, `"NONE"` once `destroy()` dropped the
backend. `StartReturns` overwrites whatever the state was, as the code does, or
raises when the process is known to have exited. `Hears` says when a message may
still be handed over: while the read loop runs, also after `stop()` began.

### Subscription

Notification n is the number n. `getters` is the list of waiters inside
`asyncio.Queue`, which the module models because a wake-up and the resumption
it leads to are two steps, between which others run. `Anext` and `Resume` are
the two halves of `__anext__`; only the first looks at `_closed`, as in the
code. `Notify` has no guard but the bound on notifications, as the dispatch looks at
no state of the bus: notifications may come, and subscriptions be made, after a
`Teardown`. `HandOver` is the part of `Queue.get` that handles a cancellation: the
waiter leaves the list, or, when it was woken already, passes the wake-up on.
`missed` records what a policy discarded.

### SubprocessBackend

`startPc` and `stopPc` say where the two coroutines are, `reader` and
`errReader` the two loops, `threads` which streams an executor thread sits in
`readline` of: a thread stays there when its task is cancelled. Environment
actions are the process (`ProcessWrites`, `ProcessExits`) and the thread in
`proc.wait()` (`Reap`): the return code is known only after the latter, and only
`stop()` starts it. Lines are JSON, junk, or such that `json.loads` raises
another error than `JSONDecodeError`. Time is not counted, but for one thing: the
grace period of `start()` is over before the second timeout of `stop()`.

`Leave` is the end of the main program: of `asyncio.run`, which cancels the
tasks that are left (`CancelAll`), or of one that used `StdioBus`, whose loop is
never run again. The interpreter then joins the executor threads, and only
`AtExit` kills what is registered.

Under `Life` the module is mapped to `BackendLife`: a cancelled `start()` or
`stop()` is one that stays suspended, `destroy()` makes the state `"NONE"`, and
`reading` is the read loop. `ImplementsContract` adds that lines are heard only
where `BackendLife` allows it and that the close callback runs exactly when the
read loop ends while RUNNING.

### Pipes

The state of `SubprocessBackend` with its data turned into counts: units of the
configuration and of requests on their way in, lines on their way out. `write`
is what blocks the thread of the loop: while it is not `"none"` nothing runs on
the loop (`LoopRuns`). `call` is the call that runs the loop: `"run"` for
`asyncio.run`, a call of `StdioBus`, or `"none"` while the loop of a `StdioBus`
stands still; `Interrupt` is a KeyboardInterrupt, which leaves what ran on the
loop for the next call. The process reads a request only when it has written all
it owes, its log first. A loop of a reader is a task first (`"begin"`) and sits in
`readline` only once the event loop has run it (`ReaderBegins`,
`ErrReaderBegins`): a `send()` in the same segment as the end of `start()`, as in
`connect()`, blocks with nobody reading. `readline` in a thread and the hand-over on the loop are
two steps (`ThreadReads`, `ReaderResumes`, `ErrReaderResumes`). `Destroy` kills
the process and then closes the streams, which waits for the threads in them.

### DockerBackend

`docker run` is a process of its own (`run`), which goes on when the task that
waits for it is cancelled. The bus writes lines; a line is a sequence of bytes,
some of which belong to a character of two bytes; a read returns any prefix of
what has arrived. `Decodable`, `Lines` and `Rest` are what the loop does with it:
`Feed(text, k)` is the place of the k-th line feed, and a line is what lies
between two of them.
The connection can end or be reset while the container is up (`LinkLost`: the
bus or the engine's port forwarder closes it); the read loop ends without a word
and the state stays RUNNING. The engine may fail to stop or to kill a container
(`refused`); nobody looks.

### NativeBackend

`stack` is what the loop is running: nothing, a step (from the timer or not),
`stop()` between two drain steps or in one. While it is not `"idle"` only the
library and the handlers act, since `start()` and `stop()` have no `await` and a
step is a C call. `Hand` is one call of `on_message`: the handlers do nothing to
the bus, `send()` or `destroy()`. `ptr` keeps `None` and the null pointer of a
failed creation apart. The library is external: `stdio_bus_step` hands over what
the workers wrote, may take the bus to STOPPED or never do so, and is taken to
survive `stdio_bus_destroy` from one of its own callbacks, which only the
library can promise.

### BackendSelection

`args` and `host` are the arguments and the machine, chosen once; `Refusal`,
`Choice` and `ChoiceError` are the tests in their order. `files` are the
temporary files on disk, by the backend that knows their path, and `writeEnds`
the open write ends of configuration pipes. The system may refuse the file, the
pipe or the process (`MaterializeFails`, `CarrierFails`, `PopenFails`): all raise
`OSError` as it is. `HostChanges` installs or removes the binary between constructor and
`start()`. The reference is the order in the repository's README
(`Rank`, `CanServe`): the automatic mode must take the first that can serve,
unless the disk refuses Docker's file.

## 3. What is checked

Faulty variants (operators commented as such, each before the definition it
varies) are plausible bugs that some property must catch; `PROJECT.json` names
one for each property of each passing run.

| run | instance | shows | properties |
|---|---|---|---|
| `client_streams` | two streams, 2 chunks, symmetric streams | nobody is forgotten, chunks are conserved, and the client implements `CallContract` | `StreamConserves`, `InFlightIsTracked`, `KeepsContract` |
| `client_mixed` | a request and a stream, 2 chunks, malformed errors too | the table and the aggregated texts of both modes; the table is empty once the bus is down; every wait ends | `TypeOK`, `TableIsInFlight`, `ResultCarriesItsChunks`, `NothingPendingOnceDown`, `WaitEnds` |
| `subscription` | a `drop` subscription with two consumers, a `close` one with one, queues of 2, 3 notifications | isolation and order, drain-then-stop, no blocked consumer on a closed subscription, no lost wake-up, every iteration ends | `TypeOK`, `OpenSubscriberGetsAll`, `StoppedMeansDrained`, `NoneBlockedOnClosed`, `NoLostWakeup`, `IterationEnds` |
| `subprocess` | 2 lines of all kinds, 1 line of log | no orphan, STOPPED is true; a crash is noticed, `stop()` ends, a program that stopped its bus exits; the backend implements `BackendLife` | `TypeOK`, `NoOrphan`, `StoppedMeansExited`, `CrashIsNoticed`, `StopIsOver`, `LeavesOnceStopped`, `ImplementsContract` |
| `pipes` | pipes of one unit, stdout of 2 lines, stderr of 1; configuration and requests of 2 units, replies of 2 lines, logs of 1; 3 messages | loop and process lock each other up only if the output of the messages before the blocked one overflows; otherwise writes, `destroy()` and every call of `StdioBus` end, and a stuck process is served | `TypeOK`, `EmbraceNeedsOverflow`, `LoopComesBack`, `ProcessIsServed`, `CallReturns` |
| `docker` | 3 lines, narrow and wide | framing, no container out of reach, `stop()` leaves none, every line is heard | `TypeOK`, `FramesAreLines`, `NoContainerForgotten`, `StopLeavesNothing`, `EveryLineHeard` |
| `native` | 3 messages, 2 sends waiting for their step, drain budgets up to 2 | polled in one way while it runs and never after, quiet after `stop()`, output is handed over, `stop()` ends | `TypeOK`, `PolledWhileRunning`, `QuietAfterStop`, `OutputIsHandedOver`, `StopReturns` |
| `selection` | every combination of arguments and host, ports on both sides of the limits | a listener is served natively or refused, the documented order is kept, files and descriptors are accounted for | `ListenerIsServed`, `OnlyDockersFileStays`, `AutoTakesTheFirst` |

Four more runs show where the code departs from what the repository says of it:

| run | what happens | property violated |
|---|---|---|
| `client_leak` | `request()` cleans up on timeouts and on `Exception`; `CancelledError` is neither, so the entry of a cancelled call stays, while `client.py` speaks of cleanup on every exit path | `CleanupIsTotal` |
| `client_race` | a stream whose wait timed out raises `TimeoutError` although a crash or an answer reached its queue before it resumed; the comment in `stream_request` says that a ready end wins | `ReadyEndBeatsTimeout` |
| `subprocess_stop_as_crash` | `stop()` during the grace period of `start()`: the state goes back to RUNNING, and the exit `stop()` asked for is reported as a crash | `StopIsNotACrash` |
| `subprocess_exit` | a program that ends without `stop()` or `destroy()` joins the threads in `readline` before the `atexit` handler runs: while the process is silent and alive neither of them ends, although the handler is to kill the processes "still alive" (`subprocess.py:49`) | `OrphansAreKilled` |

Seen while modelling, described by the models, and without a run of their own:

* `destroy()` leaves the table: calls in flight wait for their deadline and raise
  `TimeoutError`, where the repository's README (line 48) promises
  `TransportError` on shutdown;
* the embrace (`Pipes!Embrace`): requests that are larger than the pipes, written
  while the process is busy writing replies, stop the event loop for good, and no
  `timeout_ms` helps since no timer fires. A program that sends four requests of
  100 KB at once to a process that answers each with 200 KB before it reads on
  shows it. A configuration larger than its pipe does the same to `start()` if
  the process fills its stderr first: the stderr loop starts after the write;
* `send()` on a stdin that `stop()` closed raises `ValueError`, which is not
  among the errors it catches (`outcome` `"valueerror"` in `Client`);
* a KeyboardInterrupt while `start()` blocks in writing the configuration leaves
  a process that no handle names (not modelled);
* `timeout_ms=0` is falsy and becomes the default deadline (not modelled: a
  deadline may fire at any moment);
* at the end of `asyncio.run` the cancelled read loop sets STOPPED and calls back
  as if the process had crashed, with the process alive (`~leaving` in
  `StoppedMeansExited`);
* a response whose `error` is no object makes its caller wait for the deadline,
  also through `stop()` and crashes (`ErrorShapes`);
* `start()` reads `returncode` without polling, so that a process that died in
  the grace period is reported RUNNING until the read loop meets its end;
* a line on which `json.loads` raises a plain `ValueError` (a huge integer) or
  `RecursionError` ends the subprocess read loop with the process alive and the
  state STOPPED, after which `stop()` does nothing (`reader = "failed"`, the
  exception in `StoppedMeansExited`);
* `max_queue=0` means an unbounded queue;
* a subscription made after `stop()` or `destroy()` is closed by nobody, and its
  iteration does not end, while the repository's README says that iterations end
  when the bus is stopped or destroyed;
* a late chunk of an ended call goes to the stream that is active: chunks carry
  no request id;
* a bad `BusConfig` or an unknown mode raises `ValueError`, where the README's
  table gives `InvalidArgumentError` for a bad parameter or config;
* the temporary file with the configuration for Docker is never removed, also
  when the constructor then finds no engine; a `Popen` that raises leaves the
  write end of the configuration pipe open;
* a native bus whose creation failed cannot be started again, also after
  `destroy()`; `stop(timeout_sec=0)` does not drain at all, and any other
  `stop()` drains on the event loop, which runs nothing else meanwhile;
* on Windows, a failing write or `chmod` of the temporary file leaves it on disk:
  its path is remembered only afterwards, so `destroy()` does not remove it;
* the Docker backend keeps RUNNING when its container or its connection is gone,
  and stops reading
  for good when a read ends inside a multibyte character;
* `destroy()` while Docker creates the container does not keep it from coming up
  and the state from becoming RUNNING; a `start()` cancelled at that moment
  leaves a container whose id nobody has.

### Bounds

* Two calls: every rule of the client is about one call or a pair (one slot for
  streams, one table, one broadcast). Two streams show the competition for the
  slot and late chunks of the other; a request with a stream, both modes at once.
* Two chunks: one can be left in a queue while the other is with the consumer,
  and order, loss and duplication need two.
* Queues of 2 and 3 notifications: a queue can be full with one more to come,
  and partly drained. Three consumers: two that share, one that does not.
* Two or three lines: one in the read loop, one in the pipe, and for Docker, a
  read with the end of one line, a whole one, and the start of the next.
* Pipes smaller than what is written into them, configuration and requests of two
  units over pipes of one, so that every write can block half way. A reply fits into
  stdout and a log line into stderr; two messages overflow either. So there are
  states on both sides of `EmbraceNeedsOverflow`: a write that is blocked with the
  process still writing output that fits, and an embrace, on stdout and on stderr,
  with the reader of that stream holding a line or not begun, on either loop.
  Three messages: one whose reply is heard, one under way, one that is being written.
  The log of the start fits, hence no embrace while the configuration is written;
  that one is left to the theorem, which covers all capacities and sizes.
* Three messages and two waiting sends for the native bus: one step can hand
  over several, and a step scheduled before `stop()` or `destroy()` can run after
  it, in the next bus too. A drain budget of 2 has a first and a last step.
* `BackendSelection` has no bound but the ports, 0, 1, 65535 and 65536.
* Symmetry is used in `client_streams` only: the two streams are
  interchangeable in every property of that run, and `CallContract!Spec` has no
  liveness part.
* `CHECK_DEADLOCK FALSE`: each system does stop, when calls are over and the bus
  is down.

### Fairness

* `Client`: deadlines pass (`Expire`), and the loop resumes what is ready
  (`RequestReturns`, `RequestTimesOut`, `StreamTimesOut`, `StreamResumes` while
  suspended in `get()`). Nothing is assumed of the agent, of the bus, of what the
  consumer does between two events, or of asyncio's finalizer of dropped
  generators (`FinalizeStream`): until it runs, the entry and the slot of a stream
  its consumer left stay, and no property claims that it does.
* `Subscription`: woken consumers resume, and consumers go on iterating.
* `SubprocessBackend`: until the end of the program the coroutines resume and
  their timers fire; threads whose read or wait is over go on. Nothing is assumed
  of the process, which may ignore the end of its input and SIGTERM, nor that the
  program ends; SIGKILL works.
* `Pipes`: as above, and the process reads and writes what it can, since the
  properties are about who waits for whom: a process that stops reading would
  block any writer. It need not exit by itself.
* `DockerBackend`: the read loop runs. Nothing is assumed of engine or
  container; `stop()` awaits the engine without a timeout, so no claim is made
  that it ends.

* `NativeBackend`: the loop calls its timer and descriptor callbacks, and what
  runs on it goes on; nothing is assumed of the steps that sends schedule, of the
  workers, or of the bus ever reaching STOPPED.

## 4. What is proved

For every set of calls, subscriptions, consumers and ports, every number of
chunks, notifications, lines, messages and drain steps, every queue limit,
capacity and size:

| theorem | states |
|---|---|
| `Client_proofs!TypeCorrect` | `TypeOK` |
| `Client_proofs!TableCorrect` | an entry of the table is a call in flight without an end, or the leftover of a cancelled `request()` |
| `Client_proofs!NobodyForgotten` | a caller in flight is in the table, or its end is on its way |
| `Client_proofs!DownMeansEmpty` | the table of a bus that is stopping or stopped is empty |
| `ClientContract_proofs!ChunksConserved` | a stream shows each chunk written while it is in flight once and in order: what it showed and what is queued for it is what it recorded |
| `ClientContract_proofs!ResultsAreExact` | an aggregated text is a run of consecutive chunks |
| `ClientContract_proofs!ClientKeepsContract` | the client refines `CallContract`: every step is one of a call's promised steps or changes nothing its caller can see |
| `Subscription_proofs!SubscriptionTypeCorrect` | `TypeOK`: no queue is overfilled |
| `Subscription_proofs!FanOutIsIsolated` | an open subscription has, in order, every notification since it was made but those its own policy discarded, whatever the others do |
| `Subscription_proofs!DrainedBeforeStopped` | an iteration stops only on a closed subscription with an empty queue |
| `Subscription_proofs!LoneConsumerIsReleased` | who consumes a subscription alone is not left blocked by its closing |
| `Subscription_proofs!WakeupsAreNotLost` | while a consumer waits, each queued item has a consumer on its way to it |
| `SubprocessBackend_proofs!NoOrphanEver` | no bus process outlives the interpreter |
| `SubprocessBackend_proofs!StoppedIsTrue` | no process runs behind a backend that reports STOPPED, unless a line broke the read loop or the program is over |
| `SubprocessBackend_proofs!SubprocessImplementsLife` | the backend refines `BackendLife`, hears lines only where that allows it, and calls back exactly when the read loop ends while RUNNING |
| `SubprocessBackend_proofs!SubprocessTypeCorrect` | `TypeOK`; the close callback runs at most once |
| `Pipes_proofs!PipesTypeCorrect` | `TypeOK`: no pipe is overfilled, no count negative |
| `Pipes_proofs!NoEmbraceWithinCapacity` | for all capacities and sizes, loop and process lock each other up only if the output of the start and of the messages before the one being written, less what was taken from the stream, overflows the full pipe |
| `DockerBackend_proofs!ContainerIsKnown` | a running container can be stopped, but in the two named cases |
| `DockerBackend_proofs!StopIsComplete` | a `stop()` that ran to its end left no container, unless the engine failed |
| `DockerBackend_proofs!DockerTypeCorrect` | `TypeOK`: the buffer never keeps a complete line |
| `DockerBackend_proofs!FramesAreWhole` | the lines handed over are those the bus wrote, whole, in order and once, wherever the reads cut them |
| `NativeBackend_proofs!PolledAlways` | a running bus is polled in exactly one way, and no callback outlives the bus or its `stop()` |
| `NativeBackend_proofs!QuietAlways` | no message reaches the handlers after `stop()` |
| `NativeBackend_proofs!NativeTypeCorrect` | `TypeOK`: no more is handed over than was written |
| `BackendSelection_proofs!ListenerAlwaysServed` | a client with a listener has the native backend and a valid address |
| `BackendSelection_proofs!LeftBehind` | what a refusal or `destroy()` leaves is Docker's file, on Windows the file a `start()` could not complete, or elsewhere the descriptor of a failed `Popen` |
| `BackendSelection_proofs!AutoIsPreferential` | the automatic mode takes the first backend of the documented order that can serve, and raises only if none can or the disk refuses Docker's file |

Assumptions: the named `ASSUME`s on the constants, and, for `NobodyForgotten`,
that error members are objects (`ErrorShapes \subseteq {"object"}`), without
which it is false.

The arguments. *Table* (`TrackInv`): call by call, an entry of the table is a
call in flight whose end is not on its way (or the leftover of a cancelled
`request()`), and a call in flight has an entry or its end. Each needs the
other, and both need that nothing was delivered to a call not made yet: else
its entry, once made, would be settled already, and a delivery could find a
future that is done. *Down* (`DownInv`): what makes the state STOPPING or STOPPED
fails all pending calls in the same step, but `start()` may write RUNNING over
either; what keeps the table empty then is that `stop()` closed stdin, so that
`send()` fails and no call enters. *Chunks* (`ChunkInv`): for a stream, the chunks shown
followed by those in its queue are the ones it recorded; what a call records is
a run of consecutive chunks that goes up to the last one written while the call
is in the table; an end on its way carries the recorded chunks; and one stream
at a time is in the table, so that two streams record no chunk in common. The
last part is what makes a chunk fresh in the sense of `CallContract`, and it
holds across calls because a stream that comes later records only what is written
later. It rests on `TrackInv`. *Contract*: a call is begun, shown a chunk or
ended by the steps that change where its caller is; all other steps, deliveries
among them, change nothing under the mapping. *Subscriptions* (`SubInv`): the list
of waiters holds each blocked consumer once; while it is not empty there are as
many woken consumers as items (a put wakes one, a take uses one up, and a
cancelled consumer that was woken wakes the next, which is the step that breaks
without `HandOver`); the sentinel is the last item of a closed queue. Each step is
shown to concern one subscription, then each part to survive it. *Process* (`ProcessInv`): a running process has a handle, is
registered, and its backend is not in state STOPPED; a known return code means
that it exited, which the end of `start()` relies on. *Life* (`LifeInv`): what the
state says of the two coroutines, of stdin and of the read loop; the step that
needs it most is the end of `start()`, which may come after a `stop()` that is
over, and is then known to find the return code. *Pipes* (`Counts`): the units on
their way belong to requests not read to the end, among them the one that is being
written, and the lines owed, in the
pipe, held by a thread or handed over to the requests read; when the process is
stuck a pipe is full, and the sum gives the overflow. *Container* (`ContainerInv`): the two
properties are inductive together with the order of `start()` and `stop()`.
*Frames* (`FrameInv`): until a read fails, the buffer followed by the bytes not yet
read is the text of the lines not handed over, and a list of positions says where
each of them ends; a read moves a prefix of it, the k-th line feed in which is
the end of the k-th of those lines, so what is cut out is lines and what is left
has no feed. The list replaces a recursive concatenation, about which nothing
could be proved. *Counts* of the native backend (`CountInv`): what the bus holds and
what was handed over is at most what was written, also when a new `start()`
loses what the old bus held.
*Polling* (`PollInv`): `_loop` is set exactly as long as there is a bus, which is
what `_schedule_poll_timer` relies on after a step in which a handler destroyed
it; and a step of the loop is never one of a stopping bus, since `stop()` cannot
begin inside a step. *Selection*: a listener leaves only the native mode and the
automatic one, and both choose native; files are followed phase by phase; the
automatic choice is compared with the documented order case by case.

Every safety property of every passing run is proved. Model-checked only are
the liveness properties (`WaitEnds`, `IterationEnds`,
`CrashIsNoticed`, `StopIsOver`, `LeavesOnceStopped`, `LoopComesBack`,
`ProcessIsServed`, `CallReturns`, `EveryLineHeard`, `OutputIsHandedOver`,
`StopReturns`), since neither fairness nor `ENABLED` is within reach of the
prover; and the four violations, which are counterexamples and need no proof.

## 5. What is not modelled

* JSON, texts and the assembly of messages (`_build_request`, `hello`,
  `connect`): one dictionary each, no state but the agent's session id. Errors: a
  table from codes to classes.
* The content of the stderr ring buffer, and statistics.
* `NativeBackend.send()` from another thread, which raises before it changes
  anything; the marshalling of messages from foreign threads in
  `_handle_message`, which no backend of the repository uses: native steps and
  both read loops run on the owning loop.
* The limit of the default executor, which all buses of a loop share: the models
  give every read and every wait its own thread.
* A configuration given as a file (or on Windows) is not written to a pipe: then
  the `config` write of `Pipes` does not happen. Other processes that hold the
  bus's ends of the pipes. A KeyboardInterrupt inside a blocking write.
* The Docker and native backends under `Client`: they tell the client nothing of
  a lost connection, so that only deadlines end the waits. The Docker backend is
  no implementation of `BackendLife`: a `destroy()` during the creation of the
  container does not keep the state from becoming RUNNING, and lines of a read
  that is under way are handed over after it.
* The builder, which collects keywords. The bus binary and the cffi glue: not
  Python.
* Weaker than the code in places: timers are not ordered by their lengths; the
  last part of the subprocess `stop()`, in which it cancels the two loops, is
  one step; in `SubprocessBackend`, `destroy()` does not wait for the threads
  (in `Pipes` it does).

## 6. Plan

Done, in the order of importance: `Client` with `CallContract`, `Subscription`,
`SubprocessBackend`, `DockerBackend`, `NativeBackend`, `BackendSelection`;
then `BackendLife` with the composition of `Client` and the refinement by
`SubprocessBackend`; then `Pipes` with the loop of the synchronous wrapper.

The proofs followed the same order, up to every safety property the runs check.
What could be added, first the most useful: an abstract
specification of a subscription (a bounded channel with one end) for
`Subscription` to refine, on top of `SubInv`; the absence of embraces for
`destroy()` in `Pipes`; the thread limit of the executor, with several
backends in one module.
