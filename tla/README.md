# TLA+ models of the sm6150 device support code

This directory verifies the parts of `android_device_xiaomi_sm6150-common` that
have state, threads and messages. The repository is an Android device tree: most
of its 477 source files are configuration, sysfs writers and three older copies
of the same HAL. Its own core logic is the GPS stack in `src/gps`, a location
service in which one message thread per adapter serves clients, the modem, timers
and the Android framework, all of which call back asynchronously. That stack is
what the modules model. Paths below are relative to `src/`.

`PROJECT.json` lists components, runs, the source lines behind every definition
(`map`), the mutants that show that each property can fail, the hazards and the
theorems.

## Inventory

The GPS stack is built for HIDL 2.1 only (`gps/android/Android.mk`,
`BoardConfigCommon.mk`); the 1.0, 1.1 and 2.0 HALs are older copies.

| Component | State | Operations | Talks to | What is hard | What makes it correct |
|---|---|---|---|---|---|
| AGPS state machines (`gps/gnss/Agps.cpp`) | per network interface: state, subscriber list with inactive flags | subscribe, unsubscribe, granted, released, denied | GnssAdapter's queue, modem (ATL answers), framework or NativeAgpsHandler | connection shared by several handles; reports without transaction ids; modem restart | a handle is answered once, keeps a connection that is up, and the last one gives it back |
| NativeAgpsHandler (`gps/gnss`) | connected flag | request, release, network notification | Agps, data items | answers inside the request; network lost during use | as above |
| Tracking (`gps/gnss/GnssAdapter.cpp`) | maps of time and distance based sessions, pending messages, SPE flag, NHz flag | start, update, stop, remove client, engine up, NHz callback | clients, LocApi (asynchronous answers) | multiplexing of options; answers after further commands; restart | engine serves every session, clients are answered, nothing runs that nobody wants |
| NI requests (`GnssAdapter.cpp`) | two sessions: request, id, response, flags; a thread each | notify, response, timeout | modem, user client, NI threads | fields read outside the lock; timeout against response | one end per request, the right answer |
| ODCPI (`GnssAdapter.cpp`) | request, active flag, handler and priority, timer | start, stop, timer, register, restart | modem, handlers, LocTimer | an expiration overtakes or is overtaken by requests | a wanted request is sent and renewed, an unwanted one is not |
| LocTimer (`gps/utils/LocTimer.cpp`) | delegates, heap, timerfd, epoll set | start, stop, delete, expire | client threads, poll thread, message thread | arm and disarm in two threads; deletion of clients | no lost wakeup, no use after deletion, every timer ends |
| LocHeap (`gps/utils/LocHeap.cpp`) | unbalanced heap of ranked objects | push, pop, remove, peek | LocTimer | removal by rank with ties | the top is the soonest |
| Message tasks (`gps/utils/MsgTask.cpp`, `msg_q.c`, `LocThread.cpp`) | queue, unblock flag, thread | send, receive, unblock, flush, destroy | every adapter | wake-up against destruction | no message lost, every waiter wakes |
| LocApiBase, LocAdapterBase (`gps/core`) | adapter array, event masks, session ids, client map | addAdapter, removeAdapter, open, close, fan-out, engine events | LocApi, adapters | the array changes while events loop over it | every adapter hears each event once |
| LocationAPI, LocationAPIClientBase (`gps/location`) | client maps, adapters to wait for, per-session request queues | create, destroy, commands, collective answers | all adapters | destruction counts asynchronous confirmations; requests queued per session | client deleted once, after the last confirmation; one request at a time |
| Geofence adapter (`gps/geofence`) | maps client id <-> hardware id | add, remove, pause, resume, modify, breach, restart | LocApi | answers out of order, restart | maps are inverse |
| Batching adapter (`gps/batching`) | sessions, trip batching state | start, update, stop, trip completed, restart | LocApi | as tracking | one multiplexed trip session |
| SystemStatus, its observer, XTRA (`gps/core`, `gps/gnss`) | data item caches, subscriptions, IPC | subscribe, notify, connect | framework, daemon | callbacks while subscriptions change | each subscriber gets its items |
| GNSS HAL 2.1 (`gps/android/2.1`) | callbacks, API clients | translate calls and callbacks | framework, LocationAPI | death of the framework | mostly translation |
| Battery listener (`gps/android/utils`) | last state, thread | health callbacks | health HAL | filtering thread | callback for each settled change |
| Fingerprint HAL, lights, live display, power, amplifier, perf client | little | sysfs and vendor library calls | framework | I/O | pure I/O |
| Settings parts (Java) | camera state, motor, delayed messages | camera and sensor events | framework | PopupCameraService's delayed messages | motor follows the camera |
| Recovery updater, build files | none | | | | |

The tracking, NI, ODCPI and AGPS components share GnssAdapter's message queue but
none of the variables that are modelled, apart from the engine-up event, which
each module has. They are therefore modules of their own and each orders its own
messages. So do geofences and batching, whose adapters have queues of their own.
That such a queue is FIFO, loses no message and has each message handled by one
thread is what every module assumes; `MsgTask` shows it of the code.

## Modules

| Module | Models | Proofs |
|---|---|---|
| `Agps`, `MCAgps` | `Agps.cpp`, `Agps.h`, the ATL commands of `GnssAdapter.cpp`, `NativeAgpsHandler.cpp`, `AGnss.cpp` | `AgpsProofs` |
| `GnssTracking`, `MCGnssTracking` | tracking sessions of `GnssAdapter.cpp`, client removal of `LocAdapterBase.cpp`, `LocApiResponse` | `GnssTrackingProofs` |
| `Ni`, `MCNi` | NI requests of `GnssAdapter.cpp` | `NiProofs` |
| `Odcpi` | ODCPI of `GnssAdapter.cpp` and its timer | `OdcpiProofs` |
| `LocTimer` | `LocTimer.cpp`, one container with its poll thread and message thread | `LocTimerProofs` |
| `RankedSet` | what a user of LocHeap relies on (abstract) | in `LocTimerProofs` |
| `LocHeap`, `MCLocHeap` | `LocHeap.cpp` on the tree itself, implements `RankedSet` | |
| `MsgChannel` | what a user of a message task relies on (abstract) | |
| `MsgTask` | `MsgTask.cpp`, `msg_q.c`, `linked_list.c`, `LocThread.cpp`, implements `MsgChannel` | `MsgTaskProofs` |
| `Geofences` | `GeofenceAdapter.cpp` between clients and engine | `GeofencesProofs` |
| `Batching`, `MCBatching` | sessions and trips of `BatchingAdapter.cpp` | |
| `BatchingHal` | `GnssBatching.cpp`, `BatchingAPIClient.cpp`, the session part of `LocationAPIClientBase`, create and destroy of `LocationAPI.cpp`, the adapter's side of a session | `BatchingHalProofs` |

Conventions. `msgQ` is an adapter's queue; a `Proc...` action (or the name of
the method it calls) is one message from beginning to end, with everything it
calls, as the queue's thread runs it without interruption. Where several threads
really touch the same data (LocTimer, NI) the steps are as fine as the locks.
Actions of other threads append to the queue. Comments that begin with "Mutant:"
mark operators that exist only to show that a property can be violated; no
behaviour of a specification uses them.

### Agps

`state`, `subs` and `inactive` are `mState`, `mSubscriberList` and `mIsInactive`
of the two state machines, by nif "agnss" and "internet". `Subscribe`,
`Unsubscribe`, `reportAtlOpenSuccess`, `reportAtlClosed` and
`reportAtlOpenFailed` are the five events, with the state transitions of the code
as disjuncts. `requestOrReleaseDataConn` either appends to `fwQ`, from which the
framework takes requests later, or, for the internet nif, produces the message
NativeAgpsHandler sends back inside the call. `requestATL`
makes every subscriber with `mWaitForCloseComplete`, so `Unsubscribe` models that
side of its conditions only: the handle stays, inactive, until the close.

`modem` is what the modem knows of each handle. It is history from the code's
point of view: the answers (`Granted`, `Denied`, `Closed`) move it, and an
answer the handle was not waiting for makes it "error".

Abstracted: APN names, bearers, IP types and the APN type mask, of which there
would be one value per state machine. `WdsQuery` is the presence of the WDS
library, `BadApn` an APN name the length check refuses.

### GnssTracking

`tb` and `db` are the two session maps, `apiQ` the commands on their way to
the engine together with the callback (`cb`) the rest of the operation waits in,
`msgQ` the commands and callbacks. The start, update and stop of the multiplexed
session are operators that return the maps, the commands and whether the client
is answered at once (`startMultiplex`, `updateMultiplex`, `stopMultiplex`).
`Resp...` actions are the callbacks of `LocApiResponse`. Removal of a client
takes its time based sessions one by one, then the distance based ones, then the
client itself; nothing else runs in between (`removing`).

`want` is what each client asked for last and `owed` how many answers it waits
for; the engine is external and accepts or (`EngineErrors`) refuses each
command, and answers commands with an error while it is down.

Abstracted: intervals and power modes are small numbers, `minDistance` is a flag;
the power mode is only compared (the M4 and TBM adjustments, DGNSS and the fix
mode sent to the engine hub are left out). Power state suspension is not modelled.

### LocTimer and LocHeap

Each `start` makes a delegate numbered in order. `heap` and `top` are what
LocTimer needs of the heap: a set and the object on top, any of the soonest
(`RankedSet` specifies this, `LocHeap` implements it). `PollWake`, `PollDisarm`,
`PollRemove`, `PollSend` are the system calls of the poll thread, `SetTime` is
the message thread's `timerfd_settime` after its `epoll_ctl`. `ReadClient` and
`StopClient` split `LocTimerDelegate::expire` where it holds no lock.
`LocHeap` has the recursion of the C++ on trees, including the sizes by which
it balances. Its variable `last` records the last call and its result, so that
the refinement also compares what `pop` and `remove` return.

### Odcpi

`active`, `emergency` and `timerFlag` are the adapter's flags, `due` the LocTimer
behind the flag, `on` and `lastStart` what the handlers have been sent. The
expiration of the timer is one step (`TimerExpires` puts the message behind
those already queued), as the LocTimer module checks that service by itself.

### Ni

`raw`, `reqID`, `resp`, `recvd` are the fields of the two sessions. `writes` holds
the locked writes that a handler has decided on after reading without the lock;
`expired` says that the timed wait of the NI thread is over though it has not got
the lock back; `leaving` are threads that have left the lock and not yet cleared
`reqID`. `ended[r]` collects how the request's buffer ended, each time.

### MsgTask and MsgChannel

`list`, `unblocked` and `freed` are the queue; `pc` is where the thread of the
task is (`rcv` before it locks the queue, `wait` in `pthread_cond_wait`, `woken`
when it has been signalled and has not got the mutex back, `proc` in a message),
`owner` where the thread is that deletes the `MsgTask`. One step is one critical section of
the queue's mutex, and the wait is split where it gives the mutex up; it may also
end for no reason (spurious wake-ups). `inside` are threads that have called
`sendMsg` and not locked the queue yet: the window in which the queue must not be
freed. `refs` are the holders of the `shared_ptr` to the runnable, the last of
which frees the queue. `MsgChannel` is a FIFO channel whose closing refuses what is
sent later and drops what has not been handled; the state functions `list`,
`handled`, `unblocked` and `pc` map to it by name.

Abstracted: messages are pairs (sender, number); deletion of a message after it has
been handled, the C wrappers' error codes, and `msg_q_rmv` and
`linked_list_search`, which the message task does not use.

### Geofences

`fences` and `ids` are `mGeofences` and `mGeofenceIds`. A command about several
geofences shares the arrays of ids and errors and is deleted by the answer to the
last item: `cmd[b].live`. Every item travels the engine's call queue twice
(`queue`, then the call itself), as `LocApiProxy`'s messages do: the id is looked
up between the two (`Lookup`), and the maps change when the engine has answered.
`told` is what each client has been told of its geofences.
A restart loses the engine's geofences; the adapter adds them again from its map
and pauses those that were paused.

Abstracted: latitude, longitude and radius are one option value; the engine hands
out hardware ids in any order and, unless `ReuseIds`, each once; `geofenceStatus` is
a fan-out without state. A client's ids stand for themselves: the HAL makes them.

### Batching

`ad` holds the adapter's fields as one record, because the functions that restart
the trips' batch call one another: an operator takes the record and gives the next.
`sessions`, `trips`, `ongoing` and `full` are `mBatchingSessions`, `mTripSessions`,
`mOngoingTripDistance` with `mOngoingTripTBFInterval`, and the registration of
`BATCH_FULL`. `plain` and `batch` are what the engine runs; `odo` the distance
travelled, which only the engine and the properties know. Distances are modulo `W`
as the code's `uint32_t` differences are modulo 2^32; `W` is 16, more than any distance
in the instances, so that a negative difference shows.

A command's handler makes the checks of the code, in their order. While the engine's capabilities
are unknown (`known`; `Init` takes both, as the adapter copies them from the context) the
command goes to `pending`, that is `mPendingMsgs`, and is queued again by the first engine-up
(`Defer`, `ProcEngineUp`). A check that sets `err` and tells nobody is `Refuse`: an unknown
session in update and stop, options of size 0 (mode "empty"), a mode that is none (mode
"undefined", which a start does report and an update does not), a start without callback or
without the engine's support (`Supported`). A client with a batching callback is one that is still there
(`hasBatchingCallback`). `word` is what became of the last command of each session:
waiting, answered or refused.

A trip that joins is not saved in `mBatchingSessions`, so stops and updates of it are of an unknown
session, and it outlives its client. `restartSessions` goes through copies of the
trips (`BatchingAdapter.cpp:217`), so the reset of `accumulatedDistanceOngoingBatch` at line 234
is lost and the model keeps `ongoingBatch` as it is. `reportCompletedTripsEvent` reads a record
after it has erased it (line 688); what it reads there is any value (`ProcCompleted`).
`Noise` likewise is what a record read through an unchecked iterator may be.

`slips` is history: it tells when the books of the trips have gone wrong, "up" when the engine
comes up while a trip's books hold what the batch had travelled before it joined (line 217), "join" when a batch
is restarted for a trip that joins and what it had travelled is lost for another, "leave" when a
batch is left that is shorter than any trip still needs.

### BatchingHal

`fw` is where the framework is in its use of `IGnssBatching`, `todo` the calls a HAL
method has yet to make, so that its thread may be interrupted between them.
`base` has the client base's session dictionary and request queue, `mState` and
`cache` are BatchingAPIClient's. Answers carry the number of their request as
history: the code takes the oldest request of the queue instead, in two steps
(`popped` is the answer between `pop` and `onCollectiveResponse`). `waiting` and `deleted`
are the destruction of a `LocationAPI`, which counts the adapters that have confirmed.
`threads` are the detached threads that report the empty batch of a flush.

Abstracted: the HAL has one batching session at a time and uses one id
(`mDefaultId`), so `updateSessionOptions` of a running session and the geofence side
of the client base cannot be reached from it and are left out; a batch for a client that
has been replaced is dropped. The engine answers its calls in their order; its answer,
a message of its own, is handled as it comes, also before messages that were
queued earlier: an order the code has when the answer comes early. The
framework keeps to the interface: start and stop alternate, and after cleanup it
initialises again before anything else. What it takes for a start is what it is told:
`GnssBatching::start` puts the -1 of a refused start into a `bool` (`GnssBatching.cpp:91-97`), so a
start is always told as a success, `start` always leads to `fw = "started"`, and the stop or flush
that follows a refused start is part of the model. The adapter's first checks, which `Batching`
has, are taken to pass but for the one for the session: the capabilities are known before
the framework starts (else commands are kept and a stop may overtake its start) and the engine
supports batching (else a start is never answered).

## Runs

All bounds are constants and appear as guards only of what the environment does.

| Run | Question | Bounds | Distinct states |
|---|---|---|---|
| `agps_shared` | Do handles that share connections get what they were promised? | 3 handles, 2 nifs, queues of 3 | 111 000 |
| `agps_chaos` | Do the proved invariants hold under PDN queries, bad APNs and restarts? | 1 handle, 2 nifs | 366 000 |
| `track_mux` | Does one fix session serve all time based sessions? | 3 sessions, 2 clients, 2 intervals, 2 answers owed | 380 000 |
| `track_events` | The same with distance based sessions, restarts and NHz | 2 sessions, 3 options, 2 engine ups | 2 400 000 |
| `heap_tree` | Is the tree the abstract set with its soonest on top? | 6 objects, two pairs of equal rank | 4 393 |
| `timer_service` | No dangling delegate, every delegate deleted, every timer ends | 2 timers, 2 starts, times up to 3 | 102 000 |
| `odcpi` | Is the request that is wanted served, and no other kept? | 2 handlers, period 2, 1 restart | 49 000 |
| `ni_sessions` | Does every request end, once? | 2 requests of 4 kinds, 1 restart, 1 change of client | 88 000 |
| `msg_task` | Is a message task a FIFO channel that ends cleanly? | 2 senders and the task itself, 2 messages each | 15 643 |
| `geofences` | Does the engine watch what the clients were told? | 2 clients, 2 geofences, 2 options, 3 commands, 1 restart | 1 176 772 |
| `batching` | Does the engine run the sessions that are wanted, and trips for their distance? | 2 clients, 2 sessions, 3 commands, 6 options, distance 4, 1 start or restart of the engine | 1 320 429 |
| `batching_hal` | Do answers, locations and destruction meet in the HAL? | 2 clients in turn, 6 calls, 2 locations | 1 438 610 |

Why the bounds are enough. Three handles are needed for one to hold a
connection while a second leaves and a third arrives during the release; the
second nif shows that they do not mix. Three sessions are needed
for a next smallest interval different from both the session's own and the
active one. Two starts of two timers include a restart of the same timer and two
timers of equal and different time; a heap of six has every shape in which a removal
descends two levels and meets equals. Two NI requests are a request and its
successor in the same session, or one in each. Queue bounds leave at least two
messages under way, so that a message can be overtaken by a decision made
before it. Two senders with two messages each are enough for one to find the
waiter already woken by the other, and for messages on both sides of the unblock.
Two geofences show that the maps do not mix, in one command and in two; three commands are
an add and two that race, or two and a restart. Two trips of different distances and
intervals are what the books are kept for: the shorter is completed while the longer
goes on, or one joins under way. Two HAL clients let the answers of one meet the
other's creation; six calls are start, flush, stop, start, stop, cleanup. With one engine-up the
batching run has either commands kept before the first one or a restart under running sessions;
one client with three sessions, three options, four commands and distance 5 (3 894 639 states)
keeps `NotEarly` and `RunsWhatIsAsked` as well. The single restart of `geofences` is a restriction, not a
simplification: the second one breaks `WatchesWhatIsTold` (see below).

Where what the environment does is counted (times, starts, requests, commands) the
system stops at the bound and the configuration says `CHECK_DEADLOCK FALSE`;
`agps_shared`, `agps_chaos` and `heap_tree` are checked for deadlock as well.
`geofences` and `batching` take the clients as symmetric: no definition tells them apart.

Each property of a passing run has a mutant: one operator of the model changed
as a plausible bug would, with which TLC finds the property violated.

### Conditions of the properties

- `Quiet` (tracking): no message, command or removal is under way and the engine
  is up. The invariants of tracking compare the maps, the engine and the
  clients' wishes; in between they differ legitimately.
- `NoRestart` (in `FixWhenWanted`, `DistanceServed` and the first part of
  `AnsweredOnce`): see the known counterexamples. `IntervalServed` (NHz included) and
  the disjointness of the two maps in `DistanceServed` hold through restarts.
- `AnsweredOnce` leaves out clients that are being removed: the stops of the
  removal are answered though nobody asked, and the client is going.
- `RequestEnds` (NI) allows a request to stay when the client with the NI callback
  comes or goes: a request nobody can be asked about is dropped by the code.
- `OnlyWhatIsWanted` (ODCPI) speaks of the current handler, and of behaviours without
  restart where it says that a stopped handler is off: a handler that is replaced is
  not told.
- `SendersLeave` (message task): the owner deletes the task when nobody is inside
  `sendMsg`. The code has nothing that enforces it; the stack never deletes a
  task in use. Without it `QueueAlive` is violated, by a sender between its call and the
  queue's mutex; `NoLostWakeUp` and the refinement need no such condition.
- `Calm` (geofences): the engine does not restart while a client is being removed or a
  geofence modified, a client leaves when nothing is under way, and a geofence is not
  modified during a restart. `Counts` is one geofence per command other than add.
  The counterexamples below say what happens otherwise.
- `Calm` (batching): a client has one command of a session under way at a time, though it may name
  sessions the adapter does not know; nothing else is under way when a command is about a trip or a
  client leaves, a trip is not updated to another trip, nothing is travelled while
  the adapter reckons, and the engine neither restarts then nor refuses what it ran
  before. A client does not leave with a trip that joined others or is completed:
  the former runs on for nobody, the latter is stopped twice (`Batch_lost.cfg`). What the code does
  otherwise comes from answers that meet a batch which has been restarted since.
- `RunsWhatIsAsked` (batching): wanted is what the commands that passed the handlers' checks ask for
  (`asked`). A command refused there, the stop of a joined trip for one, changes nothing; that its client
  is not told is the matter of `RefusalsAreTold`, which is violated. That trips have a batch which serves them
  is claimed while `slips` is empty; `NeverStalls` is the same without the condition, and violated.
- `NotEarly` (batching): until the engine comes up over a joined trip; `NeverEarly` is the same
  without the condition, and violated.
- `AllAnswered` (batching): of the clients that are there, and of the commands the handlers' checks do
  not refuse.
- `Calm` (batching HAL): the framework flushes or cleans up a stopped session only when
  everything has been answered, and starts again only when its stop has. The framework gets no
  answer that would let it know, so this is an assumption about its timing, needed because the code
  does not keep the order (`BatHal_flush.cfg`). A start that is refused because the engine has refused
  the stop before it is included: it is told as a success and stopped or flushed like any other.
- `Refusable`: the calls the engine may refuse. A refused start is checked in
  `batching`, a refused stop in `batching_hal`.

### Fairness

Only liveness runs have any. Weak fairness of the message thread: `MsgTask` loops
for ever on its queue. Weak fairness of the poll thread and of time
(`timer_service`, `odcpi`). In `agps_shared` the framework takes its requests and
answers a connection it sets up, and the WDS callback comes: the HAL's contract
(`IAGnss`), without which no open could be answered. For NI the timed wait of
`niThreadProc` ends, and threads that have been started run on. For the message task
the task's thread runs on (a woken thread gets the mutex, a message's handler
returns) and the owner, once it has begun to delete the task, goes on. No fairness is
assumed of clients, users, the modem or the network: nothing makes them release,
answer or return.

## Known counterexamples

These configurations are kept beside the runs; each makes TLC violate a property
by what the code does. They explain why the runs check the property
elsewhere or under a condition. Where a comment of the code says otherwise it is named. A
configuration with several invariants shows each of them violated when it is left alone.

| Configuration | Module | Property | What happens |
|---|---|---|---|
| `Agps_ssr.cfg` | `MCAgps` | `NoOrphanSubscriber` | `Agps.h:198` promises to drop all subscribers on modem SSR; `handleModemSSR` does so, but nothing calls it. The connection stays requested for a handle the modem has forgotten |
| `Track_power.cfg` | `MCGnssTracking` | `PowerServed` | `GnssAdapter.cpp:3020` says that interval and power mode are multiplexed; a session that shortens the interval without the strongest mode makes the engine run with the fastest session's mode |
| `Timer_dead.cfg` | `LocTimer` | `NoDeadClient` | the comment at `LocTimer.cpp:484` relies on `mClient` being cleared, but `expire()` copies it without the lock and calls the deleted client |
| `Ni_answers.cfg` | `MCNi` | `AnswerIsForRequest` | session fields are compared without the lock and written with it: the response comes after the reset that `GnssAdapter.cpp:4604` promises, and answers the next request |
| `BatHal_flush.cfg` | `BatchingHal` | `FlushReports` | `BatchingAPIClient.cpp:224` says that a flush always triggers a report, even of a stopped session. A flush right behind a stop is sent to the adapter, which has erased the session and answers with an error and no batch; the locations of the stop stay in the cache |
| `BatHal_flush.cfg` | `BatchingHal` | `AnswerIsForRequest` | the same: the error is sent at once, overtakes the answer of the stop, and takes its request. So does the error of a stop that follows a start: the start right behind a stop is refused, told as a success (`GnssBatching.cpp:95`), and stopped |
| `BatHal_flush.cfg` | `BatchingHal` | `DictionaryIsTrue` | the answer of the first stop then takes the request of what came after it: the session stays in the dictionary, and no other can ever be started |
| `BatHal_flush.cfg` | `BatchingHal` | `CleanupStops` | the answers that follow run older requests each: that of the stop is run for the next session, which leaves the dictionary before its own stop is asked for, and runs on after the cleanup |
| `BatHal_refused.cfg` | `BatchingHal` | `DictionaryIsTrue` | a start is refused while a flush is under way: the session goes from the dictionary with the refusal, the flush's answer finds no session, and its request stays in the queue for the next session to take |
| `Geo_mixed.cfg` | `Geofences` | `ReportedOnce` | a command about two geofences of which the last is unknown is reported, and its arrays deleted, before the engine answers for the first |
| `Geo_leave.cfg` | `Geofences` | `WatchesWhatIsTold` | a client leaves: its ids go at once, its geofences when the engine agrees; a restart in between adds them again for nobody |
| `Geo_twice.cfg` | `Geofences` | `WatchesWhatIsTold` | the engine goes down while the geofences are being added again: the maps have been emptied, the refused additions are dropped, and the next restart knows of none |
| `Geo_twice.cfg` | `Geofences` | `WatchesWhatIsTold` | without that haste too: a geofence that is added again is saved as not paused (`GeofenceAdapter.cpp:172`, `:657`) though the engine is told to pause it, so it watches after the second restart |
| `Batch_books.cfg` | `MCBatching` | `BooksBalance` | `BatchingAdapter.cpp:838` says that the total distance so far is recorded when a trip joins and the batch is restarted; what the running trips have travelled in the batch that ends is not, and they end late |
| `Batch_books.cfg` | `MCBatching` | `NeverStalls` | so the batch that is restarted for a shorter interval, or the one that is left when the first trip goes after the engine came up, ends before any trip is over: no trip is completed and nothing starts another batch |
| `Batch_books.cfg` | `MCBatching` | `NeverEarly` | the loop at `BatchingAdapter.cpp:217` resets copies of the trips: when the engine comes up over a trip that joined, the new batch's distance less the old one's wraps, and the trip is completed too early |
| `Batch_books.cfg` | `MCBatching` | `RefusalsAreTold` | start, update and stop set `err` when their checks fail (`BatchingAdapter.cpp:344`, `:438`, `:482`) and tell nobody; a trip that joined is never saved, so its stop is refused this way and it cannot be stopped |
| `Batch_full.cfg` | `MCBatching` | `FullOnlyWhenNeeded` | a client with a trip leaves: the trip ends in a callback that counts the sessions while this one is still among them, and `BATCH_FULL` stays registered although no session wants it |
| `Batch_lost.cfg` | `MCBatching` | `NoneLost` | a completed trip stays among the sessions; when its client leaves it is stopped again, and its record read through an iterator that is not checked |
| `Agps_wds.cfg` | `MCAgps` | `ConnectionAgrees` | the answer to a PDN query grants a connection that was lost while the query was out |
| `Agps_badapn.cfg` | `MCAgps` | `OpenIsAnswered` | a bad APN is reported as "closed", which PENDING ignores; the request waits |
| `Track_refused.cfg` | `MCGnssTracking` | `IntervalServed` | the engine refuses an update; the session gets its old options back, others are served by the old ones too |
| `Track_silent.cfg` | `MCGnssTracking` | `AnsweredOnce` | the engine refuses to stop a distance based session for new options; nobody tells the client |
| `Track_mute.cfg` | `MCGnssTracking` | `AnsweredOnce` | a start without callbacks is refused silently |
| `Track_silent.cfg` | `MCGnssTracking` | `SessionsAreWanted` | an update to time based completes after the client has stopped the session, which then runs for ever; with `AwaitEngine` FALSE a stop also overtakes a deferred start |
| `Track_active.cfg` | `MCGnssTracking` | `ActiveIsSmallest` | the fastest session slows down and the engine goes on at the old rate |
| `Timer_early.cfg` | `LocTimer` | `NeverEarly` | two expirations are queued; the second pops a timer that is not due |
| `Odcpi_spam.cfg` | `Odcpi` | `NoSpam` | a stale expiration renews the request right after an emergency restarted the timer |
| `Ni_answers.cfg` | `MCNi` | `EsWins` | the session told to go has answered in the meantime |
| `Ni_answers.cfg` | `MCNi` | `IdIsShown` | the NI thread clears `reqID` of the request that has followed |
| `Ni_restart.cfg` | `MCNi` | `NoAnswerAfterRestart` | nothing clears the session at a modem restart, as the comment at `GnssAdapter.cpp:4606` expects |

`FixWhenWanted`, `DistanceServed` and `AnsweredOnce` fail without `NoRestart`: a
restart takes the session maps as they are, and the late answers of commands sent
before it then erase sessions the engine runs, or the reverse.

`DistanceServed` also fails when a client does not wait for the answer to one command before it sends
the next (`Track_events.cfg` with `AwaitEngine = TRUE`, `MaxUps = 1`, `MaxNHz = 0`,
`MaxQueue = 3` and `MaxOwed = 2`): of two updates of a distance based session in a row the second makes
it time based, and the callback of the first, which restarts the stopped session, saves it
again behind that (`GnssAdapter.cpp:3237`); it is both from then on.

Seen while modelling and not the subject of a configuration: `destroyCompleteCb` is
tested the wrong way round at `LocationAPI.cpp:169` and `:344`, so the client base
of a destroyed client is never told and never deleted; a batching start that is refused
leaves `mState` of the HAL at STARTED and is told to the framework as a success; a geofence resume that is refused is
never reported (which `ReportedOnce` allows), nor is a geofence command with options or infos
that are NULL (`GeofenceAdapter.cpp:242`, `:578`), which no caller in this repository passes and
`Geofences` leaves out; in `LocationAPIClientBase` all
sessions of a client share one request queue although their answers come by session.

## What is proved

TLAPS proves these for every value of the constants, given the named
assumptions in the modules (types of flags and bounds only).

- `AgpsProofs`: `TypeCorrect`, `ReleasedIsEmptyAlways`, `DemandedOnlyAlways`. The
  inductive invariant `IInv` is `TypeOK`, `NoFramework` (without the agnss
  state machine the framework is never asked and holds no connection, so that its
  reports never meet a NULL state machine) and `SmInv`, which holds for each
  state machine: inactive handles are subscribers, RELEASED has no
  subscribers, PENDING and ACQUIRED have an active one. The two safety
  properties need each other: `DemandedOnly` alone is not inductive, as a request in
  RELEASED would find an old list. Lemmas say that each of the five events
  preserves `SmInv` from any state, so that the order of messages does not
  matter; the step of `Next` has one case per action. The number of handles, the
  bounds and the flags are arbitrary, modem restarts and bad APNs included.
- `AgpsProofs`, second part, relates the state machines to their peers, the modem and the framework.
  - `NoUnsolicitedAnswerAlways`, `OpenIsHeldAlways`, `NoOrphanSubscriberAlways`, each under
    `restarts = 0` (`Agps_ssr.cfg` shows why) and with PDN queries and bad APNs. None
    of the three is inductive, because an answer is right or wrong by what is still queued.
    `ModemInv` says of every handle separately how the messages about it in the
    queue (none, an open, a grant, an open before its release, ...), its
    phase in the modem and its subscription fit together (`Away`, `ServedAt`).
    A handler does to one handle what it does whatever the others are, and lemmas
    about what `Append` and `Tail` do to the messages about a handle carry the rest.
  - `ConnectionAgreesAlways`, if there are no PDN queries and no bad APNs (`Agps_wds.cfg`
    and `Agps_badapn.cfg` show what they break), restarts included. `ConnInv` follows the
    connection of the framework through four phases by what is in the two queues: unanswered,
    up, given up, down.
- `OdcpiProofs`: `ActiveIsAlwaysTimed` and `OnlyWhatIsWantedAlways`. `IInv` is the type,
  `ActiveIsTimed`, `HeldIsAsked` (the last wish of the modem in the queue, or else the mode the
  adapter holds, is what the modem wants) and `SentIsActive` (which handlers have been sent a
  start). The queue lemmas `TailKeeps` and
  `AppendKeeps` say which messages survive a step; each handler either starts
  a timer, leaves the one that is there, or clears both flags.
- `NiProofs`: `EndedOnceAlways`, `OnePlaceAlways`. The steps are as fine as the locks, so a
  request may be seen by the queue's thread and by an NI thread at once. `IInv` is the
  type, `ResponseThere` (a session that has received a response holds it), `OnceInEach`
  and `InOnlyOne`: a request in the queue, in a session, or with a thread that has left
  the lock with its answer, has not ended and is nowhere else.
- `LocTimerProofs`: `NoDeletedDelegateAlways`. The message that removes a
  delegate is the last one about it (`RemovedLast`); a delegate linked to its timer is not being
  removed (`LinkedIsKept`), one that is deleted is gone from all places (`DeletedIsGone`),
  and only an expiration has a delegate in its hands (`CurIsExpiring`).
- `BatchingHalProofs`: `DeletedIsUnknownAlways` and `LocationsInOrder`, for any number of
  clients one after another, any calls of the framework and any refusals (neither `Calm` nor
  `Refusable` is restricted). A LocationAPI is deleted when the adapters it waits
  for have confirmed, so `Removals` says what that count rests on: the removal in the
  batching adapter is the last message of its client, comes after the one in the other
  adapter, and is waited for as long as either is in the queue. What is then gone stays gone
  (`Gone`): later messages are of later clients, and a session comes back only when its
  stop is refused. `LocationsInOrder` is the first part of `FlushReports`.
- `BatchingHalProofs`, answers: `AnswerIsForRequestAlways`, `DictionaryIsTrueAlways`,
  `FlushReportsAlways` and `CleanupStopsAlways`, for any number of clients and calls, from two
  hypotheses: the framework flushes or cleans up a stopped session only when all is answered and starts
  again only when its stop is (`Calm`), and the engine refuses no start (for `FlushReports`, nothing
  but stops). `BatHal_flush.cfg` and `BatHal_refused.cfg` show that the code needs both. A start that the
  client base refuses, because the stop before it was refused by the engine, is told as a success and is
  included. The core is
  `AnswerInv`: the queue of requests is what is left of the calls in the queues of engine and
  adapter, in their order (`Matches`, over `eng \o msgs`), as long as the framework uses the
  client. An answer is then for the oldest request (`Right`) if no call is answered out of
  its turn, that is, if the adapter has the session of every call that it handles
  (`Known`); `Open` says that a stop is the last call of a session, `Runs` that the engine runs
  the session from its start to its stop. `Coming` adds for `FlushReports` which batches are
  still to come for a client that stops, and for one that is flushed while it stops.
  `EndInv` is about every session of every client, also those replaced, for
  `CleanupStops`: a session that runs, or is going to, has a stop under way or refused, or the
  adapter has it and its client's removal is queued or the framework is going to stop it
  (`Held`); that needs that a start comes before all other calls of its session
  (`StartsFirst`), and that the dictionary forgets a session only when its stop is asked for
  (`StopsAsked`).
- `GeofencesProofs`: `TypedAlways`, `TypeOKAlways` and `BreachIsKnownAlways`, for any number of
  clients, geofences, commands and restarts, whatever the engine refuses and whether or not it
  uses hardware ids again (neither `Calm` nor `Refusable` nor `ReuseIds` is restricted).
  `TypedAlways` says more than `TypeOK`: an item under way is always one that its command
  has. For `BreachIsKnown` the adapter's map is followed through the messages still to come:
  `Knows` says that after the first `n` of them the adapter has the hardware id for the
  geofence, because it has it now or learns it (`Gain`) and does not lose it again (`Loss`). That
  holds of all that the engine watches at the end of the queue, and of each breach at its place in
  it; so it is the order of answers and breaches that makes the map right, and a restart does
  no harm, as `engineUp` is queued after all that the old engine has sent.
- `GeofencesProofs`: `ReportedOnceAlways`, if no command but an addition is about several geofences
  (`Counts \subseteq {1}`; `Geo_mixed.cfg` shows why). `Flow` follows the items through four
  stages, two queues passed twice in turn: no item is behind the last of its command
  (`LastIsLast`), so that when the last one closes the command none is left
  (`ItemsAreLive`); and the last one is there until it does (`OpenIsUnderWay`). Lemmas say
  what each way of moving an item does to the order of all (`OrderKept`, `FlowKept`); an unknown
  geofence ends early, at the lookup, which is where the hypothesis comes in.
- `LocTimerProofs`, at its end: `TopIsAlwaysSoonest` of `RankedSet`, from `Due \in [Items -> Nat]`: after any
  sequence of calls the object on top is outranked by none. With the
  refinement run `heap_tree` this is what LocTimer assumes of LocHeap.
- `GnssTrackingProofs`: `TypedAlways`, for all constants; besides the types it says that a client is
  registered until the one message that removes it (`RemovedOnce`) and that only starts and
  updates are put off (`DeferredOnes`).
- `GnssTrackingProofs`: `IntervalServedAlways`, if the engine refuses nothing while it is up
  (`Track_refused.cfg` shows why) and distance based sessions are asked for only if the engine
  has them (else their options stay in the maps as they came); any number of restarts
  and NHz changes. Between a request and the engine's answer neither the engine nor
  the maps tell the rate, so the invariant is about the rate that is planned: that of the last
  command under way that starts or stops the fix session, or the engine's own (`Plans`). While the
  engine is up and no engine-up event waits, what is planned is `Good` for the sessions the
  adapter has (`PlanServes`). `OldErrors` (an error found in the queue dates from before the engine came
  up, so a restart of all sessions follows it) and `OptionsKept` (what callbacks have captured)
  make that inductive. Lemmas say what the multiplexing does to a plan when a session comes or
  changes (`Covers`), goes (`Frees`), or all are restarted (`Restarts`).
- `GnssTrackingProofs`: `FixWhenWantedAlways`, if the engine refuses nothing while it is up, clients wait
  for the capabilities and nobody asks for a distance based session (`Orderly`). A refused stop
  leaves the fix running; a session deferred or started before the engine is up leaves commands whose
  effect the restart does not undo; and a late answer about a distance based session drops a time based
  one of the same id without stopping the fix. `EmptyIdles` is the converse of `PlanServes`: with no
  session in the map what is planned is no fix. `Booted` says that until the capabilities are known
  nothing has been asked for.
- `GnssTrackingProofs`: `NeverTwiceAlways`, for all constants, and `AnsweredOnceAlways`, if clients have
  callbacks and pass options and the engine refuses nothing while it is up (`Thorough`; `Track_mute.cfg`
  and `Track_silent.cfg` show why); distance based sessions, deferred commands and updates of any kind
  included. Both are about a balance: of a session, the answers its client waits for, less the messages,
  deferred messages and commands under way whose end is an answer (`N` counts the marked elements of
  a queue). A step moves such an element on, or takes the last of it and reports, and never makes one;
  `Balanced` says so of every action. `NeverTwice` (the balance is not negative) needs no more. That it
  is not positive either (`NoneLost`) needs that no command is dropped: `GoodStarts`, and that the
  answer to a stop for new options is no error (`Restarted`), which holds because before the engine comes
  up no distance based session is restarted (`NotYetUp`).
- `GnssTrackingProofs`: `SessionsAreWantedAlways`, until the engine has gone down (`Steady`), if besides
  `Orderly` every client has callbacks (a start without any is dropped, and its client not told). Between
  a call and its handler the map and the wish differ, so `WantInv` says what the messages under way make
  of the map: the last one that decides about a session (a start, stop or update with options, or the
  removal of its client) says what is wanted (`LastDecides`), and without one the map has it
  (`MapDecides`). A late message does no harm because a session's messages come in the order start,
  updates, stop (`CommandsInOrder`) and before the removal of the client (`ThenRemoved`); the first
  start is the first of them as `NeverTwice` leaves no older command to a session whose client waits for
  nothing. No answer undoes what a handler did, as none is a refusal (`AllGranted`): nothing is sent to the
  engine before the capabilities are known (`AskedLater`), that is, before it is up.
- `GnssTrackingProofs`: `DistanceServedAlways`, if besides the engine's part of `IntervalServedAlways`
  clients wait for the capabilities and for the answer to one command before they send the next for
  the same session (`Patient`; the known counterexamples show why they wait for the answer; without the first TLC
  finds it kept as well, in `track_events`, but a start put off would need an argument of its own). Its
  two parts have an invariant each. `ApartInv`, for the disjointness of the maps, restarts included: a session is time based
  or distance based, and what the callbacks under way will make of it counts (`Apart`); so a session that is
  being started must be new (`StartsAreNew`), and one that is cleaned up in the engine belong to a
  client that has gone (`CleansGone`). `RunInv`, until the engine has gone down or an NHz requirement changes: of each session the engine
  will run after the commands under way (`Running`) what the map has, except while the callback that makes them
  agree is under way, and then it is the last of its session (`Agreed`). Map and engine change at
  different ends of the two queues, an update to other options stops and restarts a session in two
  rounds, and its client may be removed in each place of them; lemmas say how sending,
  serving and answering a command moves it through the queues (`HandlersMove`).
- `MsgTaskProofs`: `NoWakeUpIsLost`, `QueueOutlivesUsers`, `TaskIsChannel`, for any set of
  senders and any number of messages. `IInv` adds to `NoLostWakeUp` the types,
  `Holds` (what each place of thread and owner says about the shared pointers and
  the unblock flag) and `SendsBounded` (a thread inside `msg_q_snd` has a
  message left). `NoLostWakeUp` is needed by the refinement: a message put in while the
  thread waits without having been woken would be one the channel never hands out.
  `QueueOutlivesUsers` assumes `SendersLeave`; the other two do not.

The modules with state have a type invariant `TypeOK`. TLC finds that it holds in the
instances above; it is proved for `Agps`, `Odcpi`, `LocTimer`, `Geofences` and, with more, `GnssTracking` (and inside the proofs of `Ni`,
`MsgTask` and, without the bounds, `BatchingHal`) and is not among the properties of the runs, which are kept for what could
go wrong.

Only model-checked: the liveness properties; the refinement of `RankedSet` by
`LocHeap`, whose operators are RECURSIVE; of the
geofences `WatchesWhatIsTold`; and the properties of `Batching`, whose last handler
goes through the sessions with a fold.

## Not modelled, and why

- APN and type bookkeeping of the AGPS state machines, and the data race of the
  bad-APN report with the message thread.
- Failure of `pthread_create`, `timerfd_create`, `epoll_ctl`, allocation.
- `enableCommand`, `disableCommand`, `suspendSessions`, DGNSS, report fan-out,
  configuration and delete commands of GnssAdapter.
- LocApiBase's array of adapters and its event masks.
- In `LocationAPIClientBase`: queues of geofence requests and their collective
  answers, changes of a session's mode, the control client.
- Everything marked `not_modelled` in `PROJECT.json`, with its reason.

The greater part of the repository is none of this: most lines of the GPS stack
declare data (`LocationDataTypes.h`, `gps_extended_c.h`, `loc_gps.h`), convert it
(`LocationUtil.cpp`, `loc_nmea.cpp`, the HAL's converters), parse configuration
(`loc_cfg.cpp`) or log, and the 1.0, 1.1 and 2.0 HALs repeat the 2.1 one. They keep no
state that a model could tell apart, so the definitions stand for a small share of the
lines.

## Plan

1. Done: `Agps`, `GnssTracking`, `RankedSet`/`LocHeap`, `LocTimer`, `Odcpi`, `Ni`;
   `MsgTask`/`MsgChannel`, `Geofences`, `Batching`, `BatchingHal`; proofs for
   `Agps` and its peers, `Odcpi`, `Ni`, `LocTimer`, `RankedSet`, `MsgTask`, `BatchingHal`,
   `Geofences` and `GnssTracking`.
2. More proofs: `WatchesWhatIsTold` of `Geofences`, under `Calm`;
   `RunsWhatIsAsked` of `Batching`.
3. More code, in place of parts whose point is made: `LocApiBase`'s adapter array;
   the geofence queues and option updates of the client base; enable, disable and suspend in
   `GnssTracking`; `SystemStatusOsObserver`; the battery listener; PopupCameraService.
