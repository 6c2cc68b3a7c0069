# A TLA+ specification of the SpaE event library

`SpaE` is a small C++ library of event loops, Qt-like signals and slots, timers
and stackful coroutines. This directory specifies its core in TLA+, checks it
with TLC on small instances and proves the main facts with TLAPS. All paths below
are relative to the repository's root (`src/loop.cc` is the event loop).

## 1. The system

| Component | Code | State it keeps | Operations |
|---|---|---|---|
| Event loop | `src/loop.cc`, `loop.h` | a ring of high priority functions, a multimap of the others, three semaphores, a spin mutex, `m_terminate`, the shared `LoopAlive`, the connections whose receiver is the loop | `work`, `workSync`, `setRun`, `process`, `waitProcess`, `waitEvent`, `deleteLater`, `run`/`processData`, `add`/`removeSharedConnectBase` |
| Loop registry | `loop.cc` | `g_loopPoolMap`, a map from thread ids to loops, and the default loop | `getCurrentLoop`, `getInstance`, `newInstance` |
| Semaphore, spin mutex | `semaphore.h`, `spin_mutex.h` | a counter; a flag | `wait`, `waitFor`, `tryWait`, `post`; `lock`, `unlock` |
| Ring list | `ring_list.h` | nodes linked in a ring that grows by chunks of 64, a read and a write pointer, two atomic counters | `push`, `pop` |
| Signals, connections | `connector.h` | per signal the connections and their slots; per connection `alive` and `disconnectFun` | `connect`, `dispatch`, `dispatchSync`, `removeConnect` |
| Object | `object.cc`, `object.h` | its loop, a copy of the loop's `LoopAlive`, an alive flag, the connections it sends and receives | destruction, `moveToLoop`, the `disconnect` family |
| Timer | `timer.cc` | one global multimap of due times, per timer a status under a mutex, a helper thread | `start`, `stop`, the helper's round, `setTimeout`, `setInterval` |
| Coroutine | `coroutine.cc` | the set of its contexts, the map of those ready to run, the current one; `g_coPoolMap`, a map from thread ids to coroutines; per context `firstRun`, `running`, `alive`, `signalCompelte` | `newInstance`, `work`, `yield`, `yieldFor`, `pending`, `resume`, `join`, `run`, `deleteLater` |
| Coroutine pool | `coroutine_pool.cc` | a multimap from load to coroutine and its inverse, the wanted size | `initPool`, `coroutineWork`, `loopWork`, `setPoolSize` |
| Fd operator | `fd_operator.cc` | per operator the numbers of up to four files; a map of watched operators; two shared epoll threads, and one of each isolated watch | construction, `epollWatch`, `inotifyWatch`, `close`, destruction, the threads' rounds |
| Context switch | `src/{x64,x86,arm,arm64}` | registers, stacks | make, jump |

How they interact: everything runs as functions posted to loops. A signal posts
its slots to the receivers' loops; a connection or an object keeps its loop alive
by a shared pointer whose last owner posts the loop's `m_deleteSem`; a timer
emits a signal from its helper thread; a coroutine is one function that never
leaves its loop and processes the loop's queue itself; the pool spreads functions
over coroutines and their loops; a watcher thread of the file descriptor
operators finds an operator by its id and emits its signal, which posts to the
operator's loop.

What is hard, and a test would hardly reach: the ring is popped without a lock;
the two queues of a loop are looked at one after the other; the run semaphore
must count both; a function may process the queue it came from; `deleteLater`
races the thread that deletes the loop; connections call back into loops that are
being deleted; timers and joins race their completion; a context may be resumed while
it is on its way into the wait; watcher threads meet operators that are being
destroyed. `PROJECT.json` lists every
such place with its line, under "hazards".

What makes each component correct:

- **Event loop**: each function runs once, in the loop's thread, in order of
  posting; no post of the run semaphore without its function and no function
  without its post; `workSync` returns after its function and always returns; a
  loop is deleted when, and only when, nobody owns it.
- **Ring list**: a FIFO queue without a data race for one writer and one reader.
- **Registry**: a thread that runs functions or contexts of a loop finds that loop.
  (Not so before it runs any: see the stale entries in section 5.)
- **Connections, objects**: a slot runs in the receiver's loop, never for a dead
  receiver; no slot is posted after `disconnect`; both ends forget a connection;
  destruction of either end disconnects.
- **Timer**: no timeout before its time, at most one entry of a timer in the map,
  none after `stop` has been processed; a started timer does time out.
- **Coroutine**: a context has one turn at most, and none after its end; what is
  handed over begins; a resume wakes; a `join` returns, and not before the
  context has ended; a deleted coroutine ends.
- **Pool**: both maps know each coroutine once and under the same load, and a load
  is never below the work there is.
- **Fd operator**: the numbers of a living operator are those of its own files; a
  watcher holds its two mutexes for living operators only, and briefly; what comes
  for a watched file is reported.

## 2. The modules

    Executor      what the loops promise            Fifo      a queue
       ^ refined by                                   ^ refined by
    Loop <- LoopProperties <- MCLoop (TLC)          RingList (its own instance)
                   ^                                  ^
               LoopProofs  (TLAPS)                  RingListProofs (TLAPS)
                   ^
               LoopExecProofs  (TLAPS)

    Connection <- ConnectionProperties <- MCConnection      (TLC)
                                       <- ConnectionProofs  (TLAPS)
    Timer      <- TimerProperties      <- MCTimer           (TLC)
                                       <- TimerProofs       (TLAPS)
    Coroutine  <- CoroutineProperties  <- MCCoroutine       (TLC)
                                       <- CoroutineProofs   (TLAPS)
                                       <- CoroutinePool <- MCCoroutinePool (TLC)
    CoroutinePool, CoroutineProofs     <- PoolProofs        (TLAPS)
    FdOperator <- MCFdOperator                              (TLC)
               <- FdOperatorProofs                          (TLAPS)

`CoroutinePool` is `Coroutine` with the pool's variables beside it: the contexts it
hands out run in the same coroutines, by the same actions.

`Connection`, `Timer`, `Coroutine` and `FdOperator` do not repeat what a loop does:
they take from `Executor` that posted functions run one at a time, in order, in the
loop's thread.

### Loop

`Loop` models several loops and all threads that use them. The state of a loop is
a function of the loop for each member: `highPri` (`m_highPriWorkTable`),
`events` (`m_eventsMap`, as a sequence sorted by priority), `runSem`,
`runStaSem`, `deleteSem`, `operateMutex`, `terminate`, `sharedAlive`,
`connects`, and `freed` once `delete this` has run. `holders` are the other
owners of the `LoopAlive`: objects, and connections without a receiver. `bare` are
those that refer to the loop without a share: after `deleteLater` has dropped
`m_sharedAlive`, `getSharedAlive` returns null to the loop's own thread
(`loop.cc:215`), and `Object` and `Connect` go on with that (`object.cc:56`, `:67`).
`Referrers` are both.

The program counter of a thread is its active `frame` (a label, the loop the
member function is called on, and the function it is about) with the `stack` of
suspended frames: `processData` calls functions, and these call `process`, so
calls nest. A label stands where another thread can see or change something:

| Code | Actions |
|---|---|
| `run` | `Check`, `Wait`, `Reap` |
| `processData` | `PopHigh`, `PopLow`, then the function: `Finish` (also the end of `workSync`'s wrapper), `Pause` (the function of `setRun(false)`), `Register`, `Unbind`; then `NextEvent` |
| `work`, `workSync` from another thread | `Work`, `WorkSync`, `Push` (the lock and the insertion), `Post` (the post and the unlock), `Ack` |
| `workSync` in the loop's thread | `WorkSyncOwn`, `ProcessFirst`, `BeginBody`, `EndBody` |
| `process`, `waitProcess`, `waitEvent` | `Process`, `ManualWait`, `ManualWake` |
| `setRun` | `SetRunFalse`, `SetRunTrue` |
| `deleteLater` | `DeleteLater`, `DelLock`, `DelConnects`, `DelAlive`, `DelTerminate`, `DelRun`, then `Push` and `Post` of the empty function |
| `connect` without a receiver, `disconnectFun` | `Connect`, `Register`, `AddSharedConnectBase`, `Disconnect`, `Unbind`, `RemoveSharedConnectBase` |
| owners of `m_sharedAlive` | `Hold`, `Drop` |

The users are not part of the library: while a thread is in user code (no loop,
or the body of a posted function) it may make any call of the constant `Calls`.
`May` lets it call a loop only in the loop's own thread or while the loop is owned:
what happens after that is a user's mistake, except where the library itself does
it. A connection made without a share does it: its registration and its
`disconnectFun` may get to a deleted loop, and no property claims anything of those
two (`RegistrationTouchesLiveLoop` leaves `bare` out; the run reaches the case).

Abstractions. A posted function is an identity, a kind that says what the library
wraps it in, and a priority. A mutex section in which nobody else can observe an
intermediate state is one action. `m_terminate` and `m_sharedAlive` are read and
written atomically although the code does so without synchronisation. A
connection's sender outlives it (`Unreferenced`), so the `senderAlive` tests of
the posted functions are always true; objects that die first belong to
`Connection`.

### RingList

One node per natural number, `next` links, the two pointers and the two atomic
counters; each access to memory both sides share is a step of the writer
(`PushBegin`, `Chain`, `Splice`, `Write`, `WriteStep`, `Count`) or the reader
(`PopBegin`, `Take`, `ReadStep`, `Uncount`). The writers of a loop hold
`m_operateMutex`, so they are one writer. `Loop` uses the ring as a plain queue
with one reader. `ImplementsFifo` justifies the first. The second holds of a loop
that is not the default one, and of the default one as long as no thread without a
loop calls `workSync`, `process` or `waitProcess` on it (`ServedByCurrentLoop`); the
repository's own test does (`loop_one_reader`), and what the ring does with two
readers is not modelled.

### Connection

Threads that each run a loop; a thread is its `queue` of posted functions and
its `stack` of calls. A posted function is what it does (`register`, `enter`,
`unregister`, `leave`, `slot`, `dispatch`, `query`), what it is about, and the
thread that waits for it if it was posted by `workSync`. Objects have `loop`,
`alive`, `asSender`, `asReceiver`; signals `signalLoop` (`SignalBase::m_loop`)
and `connects`; connections `connAlive`, `receiverLoop`, and `wired` once
`disconnectFun` is set; loops the set `entered` (`m_sharedConnectBaseSet`).

| Code | Actions |
|---|---|
| `connect`, `connectDone` | `Connect` (with the registration, or its post), `Enter`, `Wire`; in the loops `RunRegister`, `RunEnter` |
| `disconnectFun` | `Test`, `LeaveSender`, `LeaveReceiver`; in the loops `RunUnregister`, `RunLeave` |
| `SpaE::disconnect`, `Object::disconnect...` | `Disconnect`, `DisconnectQuery`, `RunQuery`, `Each` |
| `~Object` | `Destroy`, `Each` |
| `moveToLoop` | `MoveToLoop` |
| `dispatch`, `dispatchSync` and their helpers | `Emit`, `RunDispatch`, `Look`, `Hand`, then `CallSlot`, `EndSlot` at once or by `RunSlot`; `Return` ends a `workSync` |

Users call from a function of a loop or from a slot. They keep to what the code
asks of them: an object is destroyed and moved in its own thread (the code warns
otherwise), not while a `connect` that names it is under way, and a dead object is
not used. Copies of one `Connect` differ in nothing that is read later, so a
connection is one thing. The order of a signal's connections is that of their
addresses, so `Look` takes any next one. The lock of `AliveMutex` is held for one
action each time.

### Timer

`timerMap` is `g_timerMap` as a sequence in the order of the multimap, `status`
the `TimerStatus` of each timer, `helper` the point the helper thread is at,
`ready` its array. Time is a small number that `Tick` increments.

| Code | Actions |
|---|---|
| `start` | `Start`, `StopStatus`, `StopMap`, `StartStatus`, `StartMap`, `StartPost` |
| `stop` | `Stop`, `StopStatus`, `StopMap` |
| `setSingleShot`, `setTimeout`, `setInterval` | `SetSingleShot`, `Start`; the slots of `setTimeout` are in `Dispatch` |
| `~Timer`, `deleteTimer` | `Destroy` in `DeleteTimer` and `Dispatch` |
| helper thread | `Plan`, `Wake` (`Semaphore::waitFor`), `Collect`, `Examine`, `Emit`, `PutBack` |

A section under a mutex is one action, except that the helper keeps the mutex of
a status (`Locked`) over `Emit` and `PutBack`. `PutBack` changes the map without
`g_timerMapMutex`: when a user's section meets it the map is damaged, `undefined`
is set and the model stops. Due times are exact, and the time between the
computation of `waitTime` and the wait is left out: both only make timeouts
later. The timers' signal is a queue of emissions to one loop (`slots`), which
skips dead timers, as `Connection` shows signals do.

### Coroutine

A coroutine is its loop's `queue`, the place `at` which its thread is at in
`Coroutine::run` or in the loop, `ready` (`m_runningContextMap`), `members`
(`m_sharedContextSet`), `current`, and `terminate`. A context is the coroutine it
was handed to (`home`), where its code is (`pc`), the flags `begun` (not
`firstRun`), `running` and `dead` (not `alive`), and the connections to its
`signalCompelte` (`waiters`). `coMap` and `loopMap` are the two tables by thread
id; an id is free again when its thread has ended, so a second thread may meet
what the first left in a table.

| Code | Actions |
|---|---|
| `newInstance`, constructor | `NewInstance` (by `Create`) |
| `run` | `Top`, `RunFunction`, `Drained`, `Switch` (the jump to a context), `SwitchBack` in the actions that jump back, `Delete` |
| `Loop::run` after `run` has returned | `RunFunction` and `Drained` at `"loop"`, `EndThread` |
| `work` | `Work` (by `Hand`), then the posted function in `RunFunction` |
| `yield`, `pending`, `yieldFor` | `Yield`, `Pending`, `TimerFires` |
| `resume` | `Resume`, then the posted function in `RunFunction` |
| `join` in a context | `Join`, `Slot` and the posted slot in `RunFunction` |
| `join` in a thread | `ThreadJoin`, `ThreadWaits` (the look, the wait and the return) |
| `archContextFun` | `Complete`, `Slot`, `EmitYield`, `Leave` |
| `deleteLater` | `DeleteLater`, `Terminate`, `UseLoop` |

`yieldFor` is a timer of `setTimeout`, which makes two connections without a
receiver in the coroutine's loop: one of the function that resumes the context, one
of the function that deletes the timer. The two run in the order of the connections'
addresses (as in `Timer`), so when the timeout is processed (`Posts`), the deleting
one may run first, and then the context is never resumed. While they last, `timers`
counts them, and `deleteLater` meets them in the loop's set as it meets the
connections of `join` (`Connected`).

The jump between stacks is one step, because nothing of it is visible to other
threads; a context runs in the thread of its loop only, so the steps from one
switch to the next that others cannot see in between are one action.
All contexts have priority 0. What the program cannot recover from is a `fault`,
after which the model stops: use of the deleted coroutine (`"freed"`), a switch to
a context that has ended (`"ended"`), an exception of `process` nobody catches
(`"foreign"`), emission of a signal whose `m_loop` was never initialised
(`"signal"`), the self-deadlock of `deleteLater` that `Loop` shows (`"deadlock"`).
A fault is an outcome of this code: where one is reached, the properties say what
holds until then.

### CoroutinePool

`poolMap` is `g_poolMap` in its order, `workSize` its inverse. A load is a `float`,
a whole number plus a number of millionths (`tie`) that keeps the coroutines apart;
from the load `Exact` on the millionths are lost, as they are in 24 bits.

| Code | Actions |
|---|---|
| `initPool` | the flag in `EnterPool`, then `TakePool` (the lock), `FillPool` for each round of the loop, `LeavePool` |
| `coroutineWork` | `EnterPool`, `CoroutineWork`, `ConnectPool`; the slot is `DefaultLoop` |
| `loopWork` | `EnterPool`, `LoopWork`; the second posted function is `RunUnload` |
| `setPoolSize` | `SetPoolSize`, then `TakePool`, `FillPool`, `LeavePool` |

`Charge` and `Discharge` are the two updates of the maps. They translate the
`erase` by key (every entry of that key) and the `find` by key (the first one), so
two coroutines with one key lose an entry: `Apart` is the condition under which
`MapsAgree` claims anything of the maps.

### FdOperator

`table` is the process's descriptor table and `number` what the operators keep of
it: `open` takes the lowest free number, and `close` takes whatever file is behind
the number out of the table and out of all sets it is watched in, as the kernel
does. `interest` are the epoll sets, `map` is `g_fdOperatorMap`, from which nothing
is ever erased. An operator is used by one thread, whose place is `user`; a watcher
(`at`, `waits`, `batch`, `event`) is one of the two shared threads or the thread of
an isolated watch.

| Code | Actions |
|---|---|
| constructor | `Construct` |
| `epollWatch`, `inotifyWatch` | `Watch`, `EnterMap`, `AddWatch`; `Isolate` for a thread of its own |
| `close`, `~FdOperator`, `~Object` | `Close`; `Destroy`, then `EndObject` |
| threads of `getEpollFd`, `getInotifyEpollFd` | `Wait` (`epoll_wait`), `Look` (the two mutexes; `Lookup`: the map), `Read` and `EndRead` (inotify), `Emit` |
| threads of isolated watches | `Start`, `Call`, and the same |
| a slot of the user's | `Answer` |
| data for a file (external) | `Arrive` |

A second `inotifyWatch` overwrites `m_watchInotifyFd` (`fd_operator.cc:269`), as in
the code: the first inotify file stays open and watched, and its events make the
thread read the second one. So inotify files are numbered by the call that made them
(`inotifies`, at most `MaxWatches` calls in all); an operator has at most one
isolated watch of each kind at a time. A read that waits keeps its file: `reading`
is resolved once, by `Read`, and when the file is closed meanwhile it goes on being
there until the read is over (`EndRead`). The epoll files of the two shared threads
are opened once and never closed, and are outside `Numbers`.

`epoll_wait` is level-triggered: a file stays ready until it is read. An isolated
thread keeps `this`, and reads the number of its epoll file before each wait; use of
an operator that is gone sets `fault`, and so does the destructor of an operator
closed by hand when it closes a number that has become somebody else's. The model
stops at a fault.

### Abstract specifications

`Executor` says what posting to loops means with no mechanism in sight: a queue
for each loop and priority, a nest of running functions, the set of those that
have returned. `ImplementsExecutor` maps the two queues (filtered by priority),
the frames that execute, and the functions neither waiting nor in a frame.
A high priority function may be overtaken by a low one in `Executor`, because it
may in the code: it can arrive between the two looks of `processData`.
`Fifo` is a queue and the last value taken.

## 3. What is checked

| Run | Expected | Asks |
|---|---|---|
| `loop_exec` | pass | do loops execute functions as promised: `TypeOK`, `PostPerFunction`, `SyncCallerWaits`, `ImplementsExecutor`, `EveryWorkRuns`, `SyncReturns` |
| `loop_delete` | pass | is a loop deleted when and only when it may be, and served by its own thread: `ServedByCurrentLoop`, `RefsKeepLoop`, `RegistrationTouchesLiveLoop`, `DeletedLoopIsFreed` |
| `ring_list` | pass | is the ring a race-free queue: `TypeOK`, `RaceFree`, `OneRing`, `ImplementsFifo` |
| `connection` | pass | do signals reach their slots and connections their end: `TypeOK`, `SlotInPlace`, `EndsAgree`, `SlotsInOrder`, `EmissionsArrive`, `SyncReturns` |
| `timer` | pass | do timers fire, on time, while they live: `TypeOK`, `EmitsLiveTimer`, `OneEntry`, `NoEarlyFirstTimeout`, `StartedFires` |
| `coroutine` | pass | do contexts take turns, and do waits end: `TypeOK`, `OneTurn`, `OwnTables`, `JoinMeansEnd`, `HandedBegins`, `ResumeWakes`, `ConnectedJoinReturns`, `DeletedEnds` |
| `pool` | pass | does the pool keep account of its coroutines: `PoolTypeOK`, `MapsAgree`, `LoadCoversWork` |
| `fd` | pass | do events find their operators: `TypeOK`, `OwnNumbers`, `HoldsBriefly`, `Reported` |
| `loop_delete_touch` | violation | does `deleteLater` only touch a live loop: `DeleteLaterTouchesLiveLoop` |
| `loop_delete_lock` | violation | does nobody wait for a mutex he holds: `NoSelfDeadlock` |
| `coroutine_join` | violation | does the join of a thread return: `JoinReturns` |
| `loop_one_reader` | violation | does one thread pop a loop's ring: `OneReader` |

Bounds and why they are enough.

- `loop_exec`: the default loop, another loop, one client; three functions, each
  handed over once, so that two can wait at the same priority, or at two
  priorities, while a third calls `process` or `workSync` from inside; priorities
  0, 1, 2, so that both queues are used and one of them holds two priorities.
  Synchronous calls go to the second loop only: two loops that call each other
  wait for each other, in the code as in the model.
- `loop_delete`: the deleted loop and the default one; a client, which deletes it at
  any point of what its thread does; one object and
  one connection as owners, in either loop, and of the deleted loop also after
  `deleteLater`, without a share; two functions, each of which may be a pause, so
  that there can be more pauses than `deleteLater` ends. The client waits on the
  default loop (`waitEvent`, `waitProcess`), whose ring it then reads as that loop's
  thread does, and may try to on the other, which throws. `MaxResume` bounds
  the posts of `setRun(true)` that users make. `DeletedLoopIsFreed` claims nothing
  when more pauses wait than are ended (`Pauses(l) <= Resumes(l)`), or when a
  function of the loop pauses it after `deleteLater` has (`PausesItself`): the thread
  then waits for ever, in the code as in the model.
  A loop that deletes itself takes the same steps while its thread does nothing
  else, so the run leaves that call out; the theorems cover it.
- `ring_list`: `Chunk` is 2 instead of 64 and ten values are pushed, so the ring
  grows up to five times, at every position of the writer relative to the seam
  of the ring. After `MaxPushes` the writer stops.

- `connection`: the sender in loop `la`, the receiver in `lb`, and a client `lc` that
  connects, disconnects and emits synchronously, so that every function is posted
  to a third party at least once; a second connection without a receiver runs its
  slot inside the emission, where it may destroy the sender, emit again or
  disconnect. Any five calls (`MaxCalls`): both connections, two emissions and
  one destruction or disconnect between them. No claim is made of a connection
  whose end has moved to another loop (`Unmoved`): what was posted to the old
  loop stays there. `SyncReturns` needs users who do not call synchronously in a
  circle, so `lb` makes no synchronous call.
- `timer`: a client starts (twice at most) and stops `t1`, and the loop's thread
  deletes it, beside `t2` of `setTimeout`; durations 1 and 2 in times up to 2, so
  a due time can be now, next, or the last. One thread calls `start` and `stop`
  of a timer: with two, `stop` may erase what a concurrent `start` inserted, and
  the timer never fires. `OneEntry` and `NoEarlyFirstTimeout` speak of a timer
  started once: when the helper has collected a due timer and `start(2)` comes
  before it emits, the helper finds the timer running and emits at once, and an
  interval is put back as well and then has two entries.
- `coroutine`: two contexts that may be in one coroutine or in two, so that joins,
  resumes and connections are made in the loop's own thread and across loops; one
  thread that creates, hands over, joins, resumes and deletes; two thread ids, so
  that one is used again after an end. Six calls (`MaxCalls`): two coroutines and
  two contexts take four, and two more meet, such as a join and a resume, or a yield and
  a deletion. `OneTurn` leaves out contexts that both yield and are resumed: yield
  makes its context ready with `running` false, so a resume makes it ready again.
- `pool`: two threads and three coroutines. `initPool` wants two (`HardwareThreads`)
  and creates one, because its loop compares a growing index with a shrinking
  difference; `setPoolSize(3)` adds the others, one a call, or makes two and `initPool`
  the third. In the first case the three have the millionths 0, 1 and 2, and
  `MapsAgree` speaks of all three; in the second the last two have 2, and nothing is
  claimed of the maps once both are there. Nor is it once `Exact` loses the
  millionths. The mutant of `PoolTypeOK` breaks the conjunct it takes over from
  `Coroutine`. `Exact` is 2 in place of the 32 or so
  at which the millionths drop out of a `float`; two contexts and a `loopWork` on
  two coroutines reach it. Coroutines and ids are symmetric: no call names one, and
  nothing chooses among them. The pool's properties are all about safety, so this run
  needs no fairness.
- `fd`: two operators and six numbers, so that a number closed by one is the next
  one the other opens. Both may make inotify watches, of the shared thread and
  isolated ones, two calls in all (`MaxWatches`): two of one operator, whose second
  replaces the number of the first, or one of each, in either way. `o1` may be closed
  by hand and destroyed; `o2`'s slot answers, and `o2` stays. Two events
  (`MaxEvents`), one for each operator or two for one. The epoll threads of data
  files differ from these in nothing but that they do not read. `HoldsBriefly` says
  that a watcher waits in a read for no operator but a `Disturbed` one: one that is
  being closed, that has two inotify files, whose inotify number is also that of an
  operator closed by hand, or whose epoll file a stray thread waits on. All but the
  last occur in the run; the last takes more watches than it has, and is covered by
  the theorem. `Reported` stops its claim when an operator is closed by hand or a
  thread is blocked in a read.

`CHECK_DEADLOCK FALSE` is set everywhere, because a system whose users have made
all their calls, or whose ring has seen its last push, rests.

Fairness. `FairSpec` assumes weak fairness of each loop's `run` and of the other
steps of each thread: the operating system schedules every thread that can run,
and the functions users post return. No call of a user is fair. Weak fairness is
enough although a spin mutex is not fair, because the instances bound the number
of times it is taken. `EveryWorkRuns` and `SyncReturns` are checked with
`loop_exec`, in which nobody pauses or deletes a loop; `DeletedLoopIsFreed`
covers those. `Connection` and `Timer` assume the same of their threads, with the
calls of users bounded, and `Timer` that time passes. `Coroutine` assumes weak
fairness of each coroutine's thread, which includes that the code of a context
returns from where it is, of the timers of `yieldFor`, and of the steps of other
threads. `FdOperator` assumes strong fairness of each thread's steps, for the sake
of those that need `g_fdOperatorMapMutex`: it is a spin mutex that its holders give
up to go back to `epoll_wait`, and a thread that finds it free again and again gets
it. Data is
never assumed to come.

### What the violations show

1. `loop_delete_touch`. A client calls `deleteLater`. It drops `m_sharedAlive`,
   which posts `m_deleteSem`, and sets `m_terminate`; the loop's thread, just
   finished with a function, leaves `run`, takes `m_deleteSem` and deletes the
   loop; the client goes on with `setRun(true)` and `work(nullptr)` on it.
2. `loop_delete_lock`. `deleteLater` holds the spin mutex while `disconnectFun`
   asks for it: in `removeSharedConnectBase` always, in `work` when the sender
   lives in the same loop. In `loop_delete` this branch is blocked for ever, so
   `terminate` is never set and `DeletedLoopIsFreed` says nothing of it.
3. `coroutine_join`. A thread joins a context as `test/testCoroutine.cc:44` does:
   it finds `alive` true under `compeleteCvMutex`; the context ends, clears
   `alive` under another mutex and notifies nobody; the thread goes to sleep.
4. `loop_one_reader`. `main` calls `workSync` on the default loop, as at
   `test/test.cc:53`, while that loop's thread is in `processData`. `getCurrentLoop`
   finds no entry for `main`'s thread and gives it the default loop (`loop.cc:232`),
   so `main` processes the queue itself, and two threads are in `pop` of one ring,
   which takes no lock because it has one reader (`ring_list.h:24`).

## 4. What is proved

For all values of the constants that satisfy the assumption of the component's module:
`LoopAssumption` (the sets are disjoint where the code's types are, priority 0 is one
of the priorities, the calls are calls), `RingAssumption` (a chunk has more than one
node), `ConnectionAssumption` (signals have a container and connections a signal),
`TimerAssumption` (durations are numbers, and only the loop's thread deletes timers
and uses those of `setTimeout`), `CoroutineAssumption` (contexts and threads are
different, the calls are theirs), `PoolAssumption` (sizes are numbers) and
`FdAssumption` (there is a number, and `Nil` is no operator or file). So: any number
of loops, threads, functions, connections, objects, timers, contexts, ids, operators
and numbers, any size of a chunk and number of pushes, any durations and any bound on
calls, time and events. TLC evaluates the assumptions in every run of the component.

| Theorem | Module | Users | Says |
|---|---|---|---|
| `TypeCorrect` | `LoopProofs` | any | `TypeOK`, and the shape of the call stacks |
| `ReadersAreCurrent` | `LoopProofs` | any | `ServedByCurrentLoop` |
| `DisciplinedPostPerFunction` | `LoopProofs` | disciplined | `PostPerFunction` |
| `OwnersKeepLoop` | `LoopProofs` | any | `RefsKeepLoop` |
| `ConnectionsKeepLoop` | `LoopProofs` | any | `RegistrationTouchesLiveLoop` |
| `SyncSemaphoreOutlives` | `LoopProofs` | any | `SyncCallerWaits` |
| `LoopsImplementExecutor` | `LoopExecProofs` | disciplined | `ImplementsExecutor` |
| `RingTypeCorrect`, `RingRaceFree`, `RingStaysOne` | `RingListProofs` | | `TypeOK` of `RingList`, `RaceFree`, `OneRing` |
| `RingIsFifo` | `RingListProofs` | | `ImplementsFifo` |
| `ConnectionTypeCorrect` | `ConnectionProofs` | any | `TypeOK` of `Connection` |
| `SlotsRunInPlace` | `ConnectionProofs` | any | `SlotInPlace` |
| `NoEmissionLost` | `ConnectionProofs` | any | `EmissionsArrive` |
| `EndsSettleAlike` | `ConnectionProofs` | any | `EndsAgree` |
| `SlotsKeepOrder` | `ConnectionProofs` | any | `SlotsInOrder` |
| `TimerTypeCorrect` | `TimerProofs` | any | `TypeOK` of `Timer` |
| `HelperEmitsLiveTimer` | `TimerProofs` | any | `EmitsLiveTimer` |
| `OnePlaceOfTimer` | `TimerProofs` | any | `OneEntry` |
| `FirstTimeoutInTime` | `TimerProofs` | any | `NoEarlyFirstTimeout` |
| `CoroutineTypeCorrect` | `CoroutineProofs` | any | `TypeOK` of `Coroutine` |
| `ThreadsOwnTables` | `CoroutineProofs` | any | `OwnTables` |
| `ContextsTakeOneTurn` | `CoroutineProofs` | any | `OneTurn` |
| `JoinsMeanEnd` | `CoroutineProofs` | any | `JoinMeansEnd`, an action property |
| `PoolTypeCorrect` | `PoolProofs` | any | `PoolTypeOK` |
| `LoadsInOneMap` | `PoolProofs` | no size 0 | `MapsAgree` |
| `LoadsCoverWork` | `PoolProofs` | contexts through the pool only | `LoadCoversWork` |
| `FdTypeCorrect` | `FdOperatorProofs` | any | `TypeOK` of `FdOperator` |
| `OperatorsKeepNumbers` | `FdOperatorProofs` | any | `OwnNumbers` |
| `WatchersHoldBriefly` | `FdOperatorProofs` | any | `HoldsBriefly` |

`Disciplined` is a condition on `Calls` only: a thread that runs no loop does not call
`workSync`, `process` or `waitProcess` on the default loop (`getCurrentLoop` takes it
for the default loop's own thread, as it does `main` at `test/test.cc:53`, and two
threads then read one queue), and nobody calls `waitEvent`, which takes a post and
leaves its function in the queue. The calls of `loop_exec` satisfy it, those of
`loop_delete` and `loop_one_reader` do not. Only `DisciplinedPostPerFunction` and
`LoopsImplementExecutor` need it: without it a second thread takes posts and
functions between the two looks of the first, and the ring, which is a queue for one
reader only, does not do what `Loop` takes it to do.

The two conditions on the pool's users are met by the calls of `pool`. `PositiveSizes`:
nobody sets the size 0, and `hardware_concurrency()` is not 0 (which it may be, for
"unknown"); otherwise a pool that is filled may be empty, and `coroutineWork` goes on
with the end of the map. `NoWork`: nobody hands a context to a coroutine directly;
`ContextInfo` tells users the coroutines of the pool, and a context handed to one by
its own `work` is charged to nobody.

The argument, bottom up:

- `CallInv`: where a thread can be (`Active`), where it can be suspended
  (`Suspended`), and that only code of a base label has an empty stack. Types
  alone are not inductive: `Return` needs to know that the stack is not empty and
  that what it pops is a frame some call has pushed. The frames that take posts or
  functions are on the loop that `getCurrentLoop` gives to their thread, which is
  `ServedByCurrentLoop`; with disciplined users this is the thread's own loop.
- `MutexInv`: a frame between the insertion and the post of a function, or in
  the first half of `deleteLater`, holds its loop's `m_operateMutex`. It speaks of
  suspended frames as well, because `deleteLater` keeps the mutex over
  `disconnectFun`, and it says that two frames of a thread never hold the same
  one. Hence at most one function per loop is inserted and not yet posted.
- `CountInv`: `PostPerFunction`, and that the multimap is not empty when
  `processData` comes to it after an empty ring. The second part is what makes
  the first inductive (otherwise a post would be spent on nothing), and it
  follows from the first at the moment the ring is found empty. `CallInv` with
  disciplined users keeps a second reader from taking the function in between.
- `LifeInv`: `RefsKeepLoop` for a posted `m_deleteSem` as well as for a deleted
  loop. A post is promised by the last owner; a copy is made only from the
  library's own one, which is gone by then, so the promise holds until the
  delete and ever after.
- `RegInv` for `RegistrationTouchesLiveLoop`: a frame that enters a connection in its
  receiver's loop, or takes it out, is on a loop the connection refers to, with a share
  or without one, and so does each connection in the loop's set. For those with a
  share `LifeInv` does the rest; for those without there is nothing that would.
- `SyncInv` for `SyncCallerWaits`: wherever the wrapper of a `workSync` is, queued or in
  a frame, suspended or not, its caller is between the push and the return. That the
  return is not taken for another call of the same function needs `OnceInv`: there is
  a table that tells of each function the one place it is at, a position in a queue
  or a frame.
- `LoopsImplementExecutor`: what the loops show to `Executor` is what `Kept`
  (`SeqFilter`) leaves of their queues and of their threads' frames, and `Returned`,
  the functions that are handed over, in no thread's hand and in no queue. First, what
  `Kept` makes of a sequence that is built or taken apart at one end. `Kept` is
  recursive, and the induction theorems of the library cannot be used; but a set of
  numbers has a least element (`LeastNumber`), and no length can be the least one
  at which a lemma fails. Then each step is one of `Executor`'s or is `Unseen`:
  `Push` submits, a pop starts, `BeginBody` runs at once, the end of a body finishes,
  if the function is a user's, and all else moves frames that show nothing (`Idle`,
  `Alike`). `OnceInv` says that what enters a queue is nowhere else, and that what
  ends is in no other hand, so that it has returned. `OrderInv`: the ring holds priority
  0 only and `m_eventsMap` is sorted; so an insertion after the last element of its
  priority is one at the end of the queue `Executor` sees, and the first element has
  the smallest low priority there is. `DelInv`: the null function of `deleteLater` is no
  user's. `Disciplined` is needed since a function must run in its loop's thread.
- `RingInv`: types and counts do not carry the ring, because a chunk may be spliced in
  anywhere. There is an order `g` of the nodes, from the reader's on, in which each
  links to the next and the last to the first, and the writer's node is as far on as
  items are held (`Held`, which knows of a push that is not counted yet and of a pop
  that is not discounted yet). `Splice` inserts the chunk into the order behind the
  writer's node. The refinement: what `Fifo` holds is the items along `g` (`Listed`),
  so `Count` puts, `Take` gets, and the others, `Splice` among them, leave the list as
  it is. `OneRing`, which follows the links, needs an induction on the length of
  the way; the library's induction theorems cannot be used, so it is made by counting
  (`Inductive`: numbers up to n that contain 0 and with each the next are all).
- `Base` of the connections: `TypeOK` with the shape of the stacks (`StackInv`), that a
  thread in `workSync` waits for one function, queued or running, and so is not woken
  by another (`TokenInv`), and that calls and functions name connections that were
  made (`KnownInv`). `HomeInv` says in whose thread each call and function is, which is
  `SlotInPlace` for a slot that has not been called yet as well; a receiver that is
  tested alive stays so, as only its own thread destroys it. `LinkInv` says that a
  round of slots misses no connection but dead ones: with it `EmissionsArrive` is
  inductive. `EndsInv` for `EndsAgree`: for each end, what it has, what waits in its
  loop's queue and which connect or disconnect has still to tell it add up to whether
  the connection is alive (`EndOK`); and a function that would enter a dead connection
  is followed, in that queue, by one that removes it (`Followed`), which is where the
  order of the queue is used.
- `OrderInv` for `SlotsInOrder`: that slots ran in order says nothing of those that
  have not yet. An emission gets to a connection in stages: the connection is left in a
  round of `dispatchHelper`, is handed over, has its slot posted, has it called, has
  run it; and of two emissions the earlier one has come further (`Turns`, in
  `TurnInv`). Each step takes one emission to its next stage, and the invariant has to
  say that it is the earliest in the stage it leaves. In the queue of a loop the slots
  of a connection stand in the order of their emissions (`LineInv`); on a stack the
  rounds are later the further in they are (`FallInv`), so that a round which is
  interrupted by another of the same signal, because a slot emits it (`nested`), is the
  one case in which only "once" remains of the claim. `IdsInv`: an emission that begins
  is later than all there are. `TunedInv`: a signal with connections knows its loop, so
  an emission is not run where it was called and then again where it belongs. `Direct`,
  also in `TurnInv`: a connection does not change between slots that are posted and
  slots that run at once.
- `LiveInv` of the timers: `EmitsLiveTimer` is not inductive, because the helper
  goes to emit when it sees `running`, not when it sees the timer alive. So
  `RunningLives`: a timer that runs is alive; and for `start`, which sets
  `running` long after the call was made, `CallsLive`: a timer in a call is alive,
  and one of `setTimeout`, which a slot of the loop deletes, is in calls of the
  loop's thread only. The destructor keeps all three: it sets `running` to false
  under the mutex that the helper holds while it emits.
- `PlaceInv` for `OneEntry` and `NoEarlyFirstTimeout`: the map is sorted; a timer
  started once is in the map or in the helper's array, once (`InOnePlace`); its entry has
  the due time, and the array has it when it is due (`EntryOnTime`); and before a
  start has set the due time its timer is nowhere (`StartsAlone`).
- `TypeInv` of the coroutines: with the types, that a context is dead from its
  `Complete` on, that what executes does not join, and that thread and context are at
  labels their targets fit (`AtWork`). `Tables` for `OwnTables`: two threads that live
  have different ids, and an entry of a table names a coroutine of that id, in
  `g_coPoolMap` one that is alive.
- `TurnInv` for `OneTurn` and `JoinMeansEnd`: neither says where a context is that is
  neither ready nor executing. `OneWake`, of a context no user resumes: it is at one
  place only, be it its turn, the ready map, one function of some queue, its timer, one
  emission that has still to call it, or the join of a context that has not ended; so
  its turn comes from there, and a join returns by the emission alone. `OneRun`, of a
  context that never yields and may be resumed at any time: while it is started, ready
  or executes, `running` is true, so `resume` does not make it ready again. Each step
  is about one context at most (`Goes`); of the others it changes nothing that could give
  them a turn (`Unmoved`). `Homes` and `Yielding` say of contexts nobody has handed over,
  and of labels that yield, what the steps need.
- `PoolInv` of the pool: what `erase`, `emplace` and `find` do to the map follows from
  the map being sorted, as counts of smaller keys are then places (`BoundsAre`).
  `MapInv` says that it is, that it names coroutines of the pool only, and that while
  the loads are apart it holds each once (`MapOf`). One coroutine always has the tie
  0: a load that loses its millionths is no longer apart from that one's, and never is
  again. `PoolWork` says where the threads are in the calls of the pool, and `OwedInv`
  that whatever will discharge a coroutine, be it a connection of a context
  (registered, on its way or told to the default loop) or a function in a queue, is
  about one of the pool. The steps of the coroutines keep these because of what they
  do not do, whatever else they do (`CoQuiet`). `AgreeInv` for `MapsAgree`: once
  somebody has left `initPool` the pool has a coroutine, so whoever finds nothing came
  while another thread was in it.
- `LoadInv` for `LoadCoversWork`: a load covers the functions in its coroutine's queue
  that will discharge it, together with the contexts that have not ended or whose end
  still has to get to the default loop. It is an inequality, as an end is not told
  when the connection comes late, and a discharge that finds no entry changes nothing.
  `ToldInv`: an end is told once, because the connection to it is called once, after
  the end.
- `TypeInv` of the operators: types alone are not inductive, because a watcher that
  reads or emits must be at an operator (`WatcherShape`), a thread in `epollWatch`
  must have a kind of watch (`UserShape`), and an epoll file in the table must be
  one of an isolated watch that some watcher can wait on (`EpollShape`).
- `OwnNumbers` is then inductive: `Open` takes a number without a file and so
  disturbs nobody's (`OpenKeeps`), and `CloseAll` of an operator that was not closed
  by hand closes no file but its own, by `OwnNumbers` itself; the destructor of one
  that was either finds its numbers without files or sets `fault` (`CloseKeeps`).
- `HoldInv` for `HoldsBriefly` has a part for each thing it depends on. Inotify files
  are numbered by the calls that made them, and a file that is there has been made
  (`FileShape`). A watcher watches the inotify file of an operator that lives and has
  one (`InterestShape`); two ways of watching an operator are two calls of
  `inotifyWatch` (`WayShape`); a thread that waits on the epoll file of another
  operator has its number (`StrayShape`). So of an operator that is not `Disturbed`
  only one watcher is told, and `HandShape` can say that what a watcher has in hand, in
  its batch or its read, is there to read when the read comes, and `BlockedShape`
  that a wait has one of the causes of `Disturbed` and is not for the file of an
  operator that has none. `AliveShape` and `ReadShape` hold the lives of operators and
  the watchers' places together. The cases of `Disturbed` are no assumptions about
  users: the theorem says that whatever they call, a wait in a read has one of these
  causes.

Only model-checked: the liveness properties and the four findings. Fairness and
`ENABLED` are out of the prover's reach. Every invariant that a passing run checks is
stated by one of the theorems, and so are the two refinements and `JoinMeansEnd`.

## 5. Not modelled, and the plan

Not modelled in the loop: `queueSize`, `getThread`, `getName` (no state change);
exceptions of `process` in a foreign thread (the call is simply not made, except
in `Coroutine`, where the library itself makes it).
Not modelled at all: the assembler of the context switches (registers and stacks;
`Coroutine` uses a switch as one step), the build files, the printing of the test
programs.

Not modelled in `Connection`: copying one object over another, and the copy
constructor of `Signal`, which copies nothing. Not modelled in `Timer`: the
getters, which change nothing, and two threads that use one timer.

Not modelled in `Coroutine`: priorities other than 0; stack sizes and
`stackOverflowCheck`, which read memory the model has not; a context's copies of its
`SharedContext` that users keep, which only lengthen its life. The race of two
first callers of `getInstance` is left out: both find the pointer null and create a
loop. Not modelled in `CoroutinePool`: calls of `coroutineWork` from contexts, whose
connections belong to their own loops, loads that differ by rounding alone, and what
`coroutineWork` returns as the coroutine: it reads it from an entry of the map that
`updateCoroutinePool` has just erased (`coroutine_pool.cc:130`).

Not modelled in `FdOperator`: `write`, `configSerial` and the signals' own
connections, which change no state of an operator; the two first callers of
`getEpollFd`, which race for a static number; files that fail to open, since a
number of -1 is then watched by nobody; more than eight events in one `epoll_wait`.

The model of coroutines and that of operators stop at the first fault: what a
program does with freed memory is anything, so nothing is claimed of it.

### Divergences the models reach and no run is about

Each of these is in the model as it is in the code; the properties claim nothing of
it, in the words of their comments.

- Isolated watches: their threads look the operator up in `g_fdOperatorMap`, in
  which only shared watches are entered (`fd_operator.cc:208`, `:283` against `:242`,
  `:318`). Unless the operator has a shared watch as well, they drop the event without
  reading the file, which stays ready, so the thread turns for ever. `fd_operator.h:54`
  and `:62` offer the isolated thread as another way to the same signal. `Reported`
  is about shared watches.
- A stale entry of `g_loopPoolMap`: `run` detaches its thread before `delete this`, so
  `~Loop` erases no entry, and a new thread with the same id gets a deleted loop from
  `getCurrentLoop` until it has set its own (`loop.cc:64`), against `loop.h:194`. In
  run `coroutine` this is the fault `foreign`: `process` throws. `OwnTables` says that
  no function and no context runs in such a thread.
- A share that is null: `Object` and `Connect` made in the loop's thread after
  `deleteLater` own no share (`object.cc:57`), so the registration and `disconnectFun`
  (`connector.h:361`, `:395`) may use a deleted loop.
- `workSync` in the loop's thread processes what is pending before the function,
  while `loop.h:113` says that it is executed at once. `Executor` lets pending
  functions run first.
- The functions of `object.cc:156-241` that disconnect by name compare the other way
  round than their names suggest (`:160`, `:207`, `:228`). `Connection` translates them
  as they are; no line of the documentation or of a test says what they should do, so
  there is nothing they could be shown to contradict.
- A connection without a receiver has no `receiverAlive`; `dispatchSync` to another
  loop reads it (`connector.h:269`). `Connection` sets `undefined` and stops.
- Two pauses and one `deleteLater`: the loop stays in the second for ever
  (`loop.cc:269`).
- A timer started again between the collection and the emission, and one that two
  threads use (`timer.cc:55`, `:163`); see the bounds of `timer`.
- A context that yields and is resumed can be ready twice (`coroutine.cc:300`).
- Equal keys in the pool's map, and a pool found empty while it is being filled
  (`coroutine_pool.cc:91`, `:69`).
- The destructor closes again the numbers of an operator closed by hand, which may
  by then be another's (`fd_operator.cc:350`).

To follow, in the model: `workSync` on a loop that terminates, and `Connection` with a
receiver that moves while functions about it wait.
