# A TLA+ model of opendatacon

opendatacon is a data concentrator for industrial telemetry: *ports* speak
protocols (DNP3, Conitel Baker, MD3, Modbus, JSON, files, Python, Lua...),
*connectors* carry events between ports through *transforms*, and everything
runs as handlers on one pool of threads that call `io_service::run`. This
directory holds TLA+ modules that model its core, TLC configurations that check
them on small instances, and TLAPS proofs of the results that hold for every
instance. Paths below are relative to the repository (`src/`).

Contents: [1 inventory](#1-the-system), [2 modules](#2-the-modules),
[3 runs](#3-what-the-runs-check), [4 fairness](#4-fairness),
[5 proofs](#5-what-is-proved), [6 limits](#6-what-is-not-modelled),
[7 plan](#7-plan).

## 1 The system

Everything a component does happens in a handler of the pool. What serialises
handlers is an `asio` strand, a mutex, an atomic, or nothing; most of the
properties here are about which of the four the code relies on.

| component | state | operations | hard behaviour | what makes it correct |
|---|---|---|---|---|
| Status callbacks (`Libs/ODC/IOHandler.cpp`) | combined status, count of calls, a strand | `SyncMultiCallback`, the callback it returns | answers from many threads, in any order | the publisher's callback runs once, with a verdict all answers justify |
| Publication and routing (`include/opendatacon/IOHandler.h`, `opendatacon/DataConnector.cpp`) | subscribers, connections, transform chains, `enabled` | `PublishEvent`, `DataConnector::Event`, `Enable`, `Disable` | transforms answer asynchronously and may drop an event; nested callbacks | every publication is answered once; a receiver gets the event its connector's transforms make |
| Transforms (`opendatacon/*Transform.h`) | none, a gate, or shared atomic statistics | `Event` | two threads in one rate limiter | gates and limits act as configured |
| Demand tracking (`DemandMap`) | who demands which port, through whom | `InDemand`, `MuxConnectionEvents`, the connector's `ConnectState` loop | two locked sections around one decision | a port is told DISCONNECTED exactly when nobody wants it |
| `asio_service::Get` | an atomic flag, a weak pointer | get, release | creation and destruction race | one live service, never a deleted one in use |
| `TCPSocketManager` | sockets, acceptor, two buffers, flags `pending_read`, `pending_write`, `isConnected`, `manuallyClosed`, retry delay | `Open`, `Close`, `Write` and the handlers of resolve, accept, connect, read, write, throttle, retry | late completions of earlier sockets; partial writes; reopening | it keeps trying; one write at a time; each byte once and in order |
| `DataConcentrator` life cycle | `starting_element_count`, `parking`, `num_parked_threads`, `shutting_down` | `Run`, `EnableIOHandler`, `ParkThreads`, `ParkThread`, `Shutdown` | stopping the world inside the pool that is to be stopped | the reload's section is exclusive; reload and shutdown finish |
| `ReloadConfig` | the registry of ports and connectors, raw addresses of ports in connectors, subscriptions, demands | `FindChangedConfs`, `ReloadConfig` | objects replaced under others that hold their address | nothing dangles; subscriptions are the connections; the running system is the configuration |
| DNP3 port (`Ports/DNP3Port`) | `link_deadness`, `stack_enabled`, integrity-scan flags, ride-through and stability timers, the watchdog's sets, IIN flags | `Enable`, `Disable`, `Event`, link and channel callbacks, timers, `Bark` | three strands, opendnp3's threads and tasks posted to the pool; on-demand links; shared channels | comms point and published connection settle on the truth; failures reported once; silent channels restarted; data fetched; flags never lost |
| CB and MD3 ports (`Ports/CBPort`, `Ports/MD3Port`) | master command queue and its timeout, outstation point tables, framing state, shared connections by station address | `QueueCBCommand`, `SendNextMasterCommand`, block processing, handlers per function code | timeouts racing late answers; retries; several stations on one connection | one command in flight; each answered or failed once; blocks reassembled |
| `FileTransferPort` | file queue, sequence number, CRC chain, buffered events, the action that waits for a confirmation, four timers, modification times on disk | triggers, name, chunk and end events, confirmations, timers, `Enable`, `Disable` | events overtaken and lost; late confirmations; resets in the middle of a transfer; restart | a file arrives whole or not at all; what is confirmed was received; the sender never hangs |
| Python event queue (`Ports/PyPort/SpecialEventQueue.h`) | linked list with head and tail, size, enabled flag | `async_push`, `pop`, `Enable` | producers on a strand, one consumer under no lock, emptied in between | events come out in order; the size is right |
| `SimPort`, `JSONPort`, `ModbusPort`, Lua ports | point values and forcing; text buffer; poll groups | events, timers, commands | timer against forcing | |
| HTTP library, `ASIOScheduler`, `EventDB`, `ConfigParser`, utilities | server tokens, task queue, last events, file cache | | | |
| Console, web and Lua user interfaces, `main`, daemons | input and output | | | |

How they interact: a port publishes an event to the connectors subscribed to
it; `SyncMultiCallback` makes one callback for all of them; each connector makes
another for its connections, runs the transforms and calls the receiving port.
`ConnectState` events go the same way but synchronously, so that every port's
`DemandMap` follows the demand above it. The concentrator owns the ports and
connectors, enables and disables them from the pool, and on reload parks every
other thread of the pool to rebuild part of the graph. JSON, LuaWeb and CB/MD3
ports sit on `TCPSocketManager`.

`PROJECT.json` lists every component with its status, and under `hazards` the
lines where the code is exposed to something a test would hardly reach.

## 2 The modules

An action is a handler (or the part of one between two points where another
thread can act); a guard is the code's condition; names are the code's where
TLA+ allows. Data is abstract: an event is a small record, a socket or an object
a number, a configuration a record of what the element's JSON says.

* **SyncMultiCallback** - `IOHandler::SyncMultiCallback`. `reply` is what each
  receiver passed to the shared callback, `strand` the calls posted and not yet
  run, `pCombinedStatus`/`pExecCount` the shared state. `Invoke` is the call,
  `MultiCb` the posted body with its early return. With one caller the original
  callback is handed out directly, as the code does. **StatusVerdict** is the
  abstract promise (one verdict, UNDEFINED only after a disagreement or an
  UNDEFINED answer, any other status only when everyone gave it), which
  SyncMultiCallback implements (`GivesOneSoundVerdict`).
* **Transforms** - each transform as a function from an event to the set of
  outcomes it may answer with; **EventRouting** - a publication through the
  subscribers' strands, connectors (`ConnectorEvent`, one action for the whole
  of the synchronous part), their wrapped transform handlers (`TransformStep`),
  the drop (`Dropped`), delivery, the receivers' answers, and the two levels of
  multi-callbacks.
  The gate of the threshold transform is an unconstrained choice here.
* **RateLimitTransform** - the transform whose state threads share, with one step
  per atomic operation of the C++ code and an unsigned counter modulo `Modulus`.
* **DemandMux** - `MuxConnectionEvents` split where it unlocks (`Mux`,
  `Recheck`), inside the connector's loop over its receivers (`Forward`,
  `Continue`); `Workers` are pool threads, which start the posted events in order and then
  overlap. Two history variables record at which receivers events that say the opposite of each
  other have overlapped (`raced`), and at which one sender's own have (`overtaken`).
* **IINFlags** - `SetIINFlags`/`ClearIINFlags`, one step per `exchange`.
* **AsioServiceGet** - `asio_service::Get` and the deleter: test-and-set,
  construct, publish, lock, release, clear the flag, delete.
* **CommsRideThroughTimer** - `Trigger`, `FastForward`, `Cancel` queued on the
  timer's strand, and the wait handler queued there when the timer expires *or is
  cancelled*, which is what makes it race. The heartbeat callback is left out.
  **DNP3MasterPort** extends it to the whole link of a master port. The calls the
  port makes are posted to the timer's strand, its callback `SetCommsGood` posts back to
  the channel's; `chanStrand` holds the reports of opendnp3 (`Reports`) and the port's
  own handlers, `dogStrand` those of `ChannelLinksWatchdog`, `tasks` the
  `EnableStack`/`DisableStack` that run under no strand, one step per statement: the
  posted handler, the stack and `stack_enabled` change one after the other. `stability`
  is the wait of the stability timer, `expired` counts the waits that ran out and whose handlers
  have not been run, which nothing can cancel; `overrun` records that the link has gone down
  with such a handler due. opendnp3 and the
  outstation are external: a channel is open while its only stack is enabled and the
  peer is there, frames are heard only then. The port has its channel for itself.
* **SpecialEventQueue** - the Python port's queue, node by node: `LinkIn` on the
  strand, `PopChecks` and `PopTakes` under no lock, and the handler of `Enable(false)`
  that runs the tail to the end and leaves the head. **EventFIFO** is the abstract
  queue, which it implements (`ImplementsFIFO`, with the chain from tail to head as the
  items) until it is enabled a second time.
* **TCPSocketManager** - the whole manager as seen from its strand. `strand` is
  the queue of posted calls; `Socks` are socket objects, `pSock`, the candidates
  and the sockets of pending operations name them; a write is a sequence of
  `Parts` parts so that partial transfers exist; `sent` records what reached the
  peer. Operation completions are separate actions that happen at any time.
* **ConcentratorThreads** - start-up, the pool, parking, reload and shutdown.
  A thread that runs `ParkThread` may run further handlers nested (`poll_one`),
  so each thread has a stack (`Nested`, `Return`). The reload's exclusive section
  is the step between `ParkThreadsReturns` and `Unpark`.
* **ReloadConfig** - the object graph. `reg` gives each name the object
  registered under it, `links` the connections of each connector with the raw
  address of the far port, `subs` each port's subscribers with their addresses,
  `demand` who demands each port, `built` the configuration each object was made
  from. `Apply` is the exclusive section as one step (it *is* exclusive as long
  as `Exclusive` of ConcentratorThreads holds), `RefuseEmpty`, `NothingChanged`
  and `RefuseDangling` the early returns, and `failed` the terminal exception.
* **MD3Master** - `MD3MasterPort`'s `MasterCommandProtectedData` as the record
  `data`; each function that runs on `MasterCommandStrand` is an operator from the
  record to the record it leaves (`UnprotectedSendNextMasterCommand`,
  `QueueMD3Command`, `Succeeded`...), each handler an action. `due` is an expired
  timeout whose handler waits for the strand, where nothing can cancel it. Scans
  are Fn 12 until the point has a value, then Fn 11, with the code's sequence
  numbers; a scan that reports changes queues the next one. **MD3Outstation** -
  the point table with its `Changed` flag, the queue of tagged changes with its
  overflow marker, and the reply kept for a repeated sequence number; pulsed controls
  through `Perform`. **MD3Link** composes the two over a connection that loses, delays,
  goes down and comes up. `setup`, chosen in `Init`, is the configuration and what the
  environment may do. One module with one point: the sequence numbers, not the layout
  of blocks, are the subject.

* **FileTransferTx** - the sending direction of `FileTransferPort`. Everything runs
  on the port's strand, so a handler is an operator from a record of the port's state
  to the one it leaves (`SendChunk`, `SendEOF`, `ConfirmEvent`, `ResetTransfer`...),
  with what it has posted to be published. `ConfirmHandler`, a `std::function` in the code,
  is a record that says which action waits (`RunHandler` runs it). A CRC is the list
  of items it was taken over, so chains never collide. **FileTransferRx** - the receiving
  direction: buffered events per sequence number, and the loop in which
  `ProcessRxBuffer` and `ProcessQdFilenames` call each other, as turns of one
  recursive function (`Turn`, `Turns`). **FileTransferLink** composes them: the bag `net`
  holds events, confirmations and callbacks under way, which overtake each other
  freely and may be lost; each port is disabled and enabled by calls of their own,
  with anything in between; which waiting file `tx_filename_q.begin()` is, is left open
  until the handler that sends it runs. `Restart` is the death of the sending process, which keeps
  only its persistence file. Timers expire when nothing is under way that they wait for, or
  early (`MaxEarly`).

Three MC modules put parts that share no state side by side (**MCLibrary**,
**MCTransport**, **MCConcentrator**): `active`, chosen in the initial state, says which part a behaviour
exercises, and the others stay as they were.

Modules with a prefix `MC` give constants their values for TLC; modules with a
suffix `_proofs` hold theorems. `PROJECT.json` maps every definition to its lines.

## 3 What the runs check

Runs that pass (constants and bounds are in the `.cfg` and its `MC` module):

| run | shows | bounds, and why they suffice |
|---|---|---|
| `library`, callback | `CalledAtMostOnce`, `EventuallyCalledBack`, implements StatusVerdict (`GivesOneSoundVerdict`) | 3 receivers, 3 statuses: two can agree and the third differ, before, between or after |
| `library`, service | `OneService`, `NoDanglingService` | 3 threads, 3 lifetimes: a destruction, a creation and a waiter at once |
| `library`, demand | `DemandExact`, `NoDemandLeft` | 2 senders sharing a receiver, one with another receiver of its own, 4 events on two pool threads, so that events of one sender and of both overlap |
| `library`, rate | `BurstBounded` | 2 threads, 4 ticks, counter modulo 16 (the code's is 2^32 or 2^64; only wrapping matters) |
| `library`, queue | implements EventFIFO (`ImplementsFIFO`) | a queue of 3, 5 events so that it is full and drained, one disable |
| `transport`, events | `PublisherCalledAtMostOnce`, `VerdictReachesAllReceivers`, `ReceivedIsComposed`, `EventuallyAnswered` | 2 connectors, 2 receivers, chains of two to four transforms with the dropping one last; connectors enabled and disabled at any time |
| `transport`, bytes | `EventuallyTries`, `StaysListening`, `OneWriteAtATime`, `EachByteOnce`, `NoWriteOnceClosed` | five setups chosen in `Init` (client, server, server that may fail to resolve or bind, throttled writer connected twice, throttled writer closed), 1-3 user calls, 2 writes of 2 parts, 3 sockets so that an old one can still complete |
| `concentrator`, threads | `Exclusive`, `ReloadCompletes` (with every element enabled), `ParkingEnds`, `ShutdownActs` | the main thread and 2 pool threads, one delayed and one immediate element, one reload, one long handler, shutdown at any time |
| `concentrator`, graph | `NoDangling`, `SubscribedAsConnected`, `RunsTheConfig` | 3 ports, 2 connectors, every pair of reloads over configurations that create, change, delete and rewire, in which an element's own file, one it inherits and one inherited by that change separately |
| `dnp3_link` | `FailureReportedOnce`, `CommsPointExact`, `SilentChannelRestarted`, `EventuallyScanned`, `PublishedExact` | five configurations (`conf`): a channel without a watchdog disabled and enabled again, one with a watchdog whose outstation changes twice, one with a watchdog while the port is being disabled, one with a stability time, one on demand; frames are heard while fewer than `MaxHeard` handlers wait |
| `md3_link` | `StaysWatched`, `SendsBounded`, `NoEventLost`, `Agreement`, `SuccessIsReal`, `EventuallyAnswered` | one retry, a command queue of 2 and sequence numbers up to 3, so that a full queue and reused numbers happen; six setups: losses with scans, with scans and controls, late messages, late with a disconnection (scans; a control), a stand-alone outstation |
| `file_transfer` | `FileIntact`, `UnsolicitedConfirmIsSound`, `EventuallyDelivered`, `NeverHangs` | two files, sequence numbers 1 to 3 so that they wrap inside a file of three chunks and between short ones; sixteen setups with, one or two at a time: a loss, an early timer, a receiver or a sender disabled, a restart, an unreadable file, an existing file, each overwrite mode and persistence, with and without confirms and CRCs |

Runs whose property TLC refutes; each is a statement of the repository that the
code does not keep, quoted under `findings` in `PROJECT.json`:

| run | what happens |
|---|---|
| `iin_lost` | `SetIINFlags` loops over `exchange`, which stores flags read earlier before the loop compares them: a flag that another call has set and returned from is gone again (`SetFlagsStay`) |
| `dnp3_demand` | `Event` decides on `stack_enabled`, which changes last: the upstream port disconnects while the `EnableStack` inside `Enable` is under way, nothing is posted, and the stack stays enabled without demand for good (`FollowsDemand`) |
| `drop_midchain` | a transform that drops an event hands a null pointer to the transform after it, and the publisher is not answered (`DropIsAnswered`) |
| `md3_timeout` | a timeout's handler that waits for the strand while the answer arrives acts on the next command: `endtime` and `TimerExpireTime` are the same configured duration, so comparing them tells nothing (`CancelledTimeoutInert`) |
| `file_mixed` | the sender is disabled and enabled while a name is being published; the callback of that name then sends its file under the next file's name (`FileIntact`) |
| `queue_limbo` | after a disable and enable everything pushed hangs off the head that was left behind, and `pop` never returns anything (`OneInLimbo`) |

### Limits of the properties

The passing runs say under which conditions a property holds. Outside them it
does not, which TLC shows when the named constants are changed or the named
definition is checked:

| where | what happens |
|---|---|
| IINFlags | `ClearClears` fails when `Arguments <- AnyFlags`: clearing flags that are not set sets them (`^`); `CallReturns` fails with two threads, whose exchanges can go on finding each other's values |
| AsioServiceGet | `GetReturns` fails: a waiter spins for ever when the last owner releases the service before the waiter locks it |
| TCPSocketManager | `EventuallyTries` without its `AutoReopen`: `Open()` resolves, and the `AutoOpen` that should follow returns; `StaysListening` with two endpoints: they share one acceptor; `SendIsShut`: closing during a throttle delay leaves the sending side open; `InOrder`: a failed direct write is queued behind later ones; `BufferedIsWritten`: the FIXME of `TCPSocketManager.cpp:415`; `BackoffGrows`: the 16-bit delay wraps to zero after ten failures |
| DemandMux | `DemandKept`: a withdrawal found due for one sender is sent on after the demand of another, and the port is left without demand although that sender wants it; `DemandExact` therefore speaks of receivers at which no opposite events have overlapped, `NoDemandLeft` of the direction that survives overlapping |
| ConcentratorThreads | `Exclusive` with `MaxParkings = 2`: a thread released by the first reload has not yet left `num_parked_threads` when the second counts it, and runs inside the second's exclusive section; `Exclusive` without its `~shutting_down`: shutdown lets parked threads go inside a reload; `NoEnableAfterShutdown`: shutdown finds no starting elements before they are counted, and they are enabled after it; `DeletedAreDisabled`: a delayed enable acts on a port that the reload has disabled |
| ReloadConfig | `RunsAllInherited` with `Configs <- AncestorConfigs`: a change in a file inherited at second hand is not seen; `ConnectedAsConfigured` with `Configs <- NewPortConfigs`, `FirstConfig <- NewPortFirst`: a connection skipped for want of a port is not made when the port comes; `RefusedChangesNothing` with `LogConfigs`: a refused reload has already changed the log sinks; `DemandFromSubscribed`: a deleted connector is unsubscribed (`DataConcentrator.cpp:1593`) but its demand stays in the ports' maps |
| RateLimitTransform | not a property: after an idle period the unsigned rate wraps below zero, the test `outputRate < 0` (`RateLimitTransform.h:111`) is never true, and the limiter blocks everything; `BurstBounded` allows that |
| DNP3MasterPort | `ConnectedWhileUp` with `Confs <- Stability`: the stability timer runs out, the link goes down, and the handler that nobody can cancel any more publishes CONNECTED; `PublishedExact` without its `~overrun`: that stays the last state published of a link that is down; `RidesThrough` with `Confs <- Bouncing`: the handler of a cancelled ride-through does not look at its error code, and run after the next `Trigger` it ends that one at once. A watchdog restart while the port is being disabled: `Bark` reads `stack_enabled` before `DisableStack` clears it and enables the stack after it, so that the channel stays open although the port is disabled |

And for the MD3 link:

| property | what happens |
|---|---|
| `SendsBounded` with `Retries = 0` | `RetriesLeft` wraps when it is decremented at zero (`MD3MasterPort.cpp:227`); a late handler gives up a command that has just been started, whose own timer, still armed, then finds retries without end: the command is sent for ever |
| `CallbackOnce`, and `SuccessIsReal` with a late connection or after a disconnection | a reply is matched by its function code only, so one that comes late completes a command it does not answer, or a command already completed |
| `NoEventLost` and `Agreement` without `Bearable`: late messages and a loss, or late messages and controls | the same: a late duplicate passes for the answer of the next scan, and the answer itself is then ignored; the TODO in `ProcessDigitalScan` about the sequence number |
| `SuccessIsReal` with `StandAlone` | `Perform` without `waitforresult` publishes twice and answers twice (`MD3OutstationPort.cpp:230`); the second answer can complete the next control |
| `Agreement` without `Tagged` | `SetBinary` sets `Changed = (Binary != b)` (`MD3.h:307`): a value set a second time before the scan clears the mark, and the change is not reported |
| `QualityRecovers` | after a disconnection a point whose value has not changed is not published again, and keeps the quality COMM_LOST |
| `EventuallyAnswered` without `drops > 0` | `ClearMD3CommandQueue` drops queued controls without calling their callbacks |

And for file transfers, seen while modelling; the first three are behaviours of
the model outside what the properties promise, the others are read from the code:

* a confirmation of a whole sequence carries no identity (`FileTransferPort.cpp:729`): a
  late one also clears files sent after it, so only unsolicited ones, which
  carry sequence and CRC, are claimed to be sound;
* an idle reset of the sender re-queues unconfirmed files (`:705`), but nothing sends
  them before the next trigger or confirmation; a reset of one end only leaves the ends
  out of step until the other is reset too, and two losses can strand a file that way
  (`EventuallyDelivered` is for a network without losses);
* a name whose file cannot be opened is out already, and nothing ends it (`:1082`);
* a leftover `ConfirmHandler` can send a file again when its end lands on the last
  sequence number; a name whose callback never comes keeps `tx_in_progress` set;
* in mode FAIL an abort removes the file that was there before (`:697`);
  `SaveModTimes` records files that are not yet confirmed (`:904`).

`CHECK_DEADLOCK FALSE` is used where the system may come to rest: a publication
that has been answered, a bounded number of calls made, a process shut down.

## 4 Fairness

Weak fairness for what the code or its libraries guarantee, and strong fairness in
two places, given below:
* a handler posted to the pool or a strand is run (asio drops none while the
  service lives), a thread that holds the processor takes its next step
  (`AsioServiceGet`, `IINFlags`, `ConcentratorThreads`), a timer that is set
  expires, a resolve, connect or accept completes or is aborted;
* receivers answer (`Answer` in EventRouting, `Invoke` in SyncMultiCallback):
  the contract of `Event(event, SenderName, pStatusCallback)`;
* on the MD3 link what has been sent arrives or is lost, a control published by the
  outstation is answered, timers expire, and a connection that is down is opened
  again (`TCPSocketManager`'s reopening). Losses are bounded per setup, polls,
  controls and disconnections are never forced;
* of the DNP3 link: the pool runs `tasks`, each strand its handlers, timers run out,
  the channel is retried by opendnp3, and a missed keep-alive is reported (weak). An
  answer to a poll is heard again and again while the outstation answers, but other
  frames may be heard first and fill `MaxHeard`: strong fairness of `ReceiveIIN("iin")`;
* of file transfers: the strand runs, what is under way arrives unless it is lost, timers
  expire, a disabled port is enabled again (weak). The idle timers are armed at all
  times, but every event of the other side pushes their moment away: strong
  fairness of `SenderIdle` and `ReceiverIdle`. Triggers, losses, disables and the
  restart are never forced;
* nothing is assumed of users, peers or senders: calls of `Open`, `Close` and
  `Write`, reloads, shutdowns, disconnections and published events are never
  forced to happen. DemandMux, RateLimitTransform, SpecialEventQueue and
  ReloadConfig have no liveness property and no fairness.

## 5 What is proved

TLAPS checks these for every value of the constants (any number of threads,
receivers, ports, sockets...), under the assumptions named in the modules. All twenty-two
invariants of the passing runs are proved, both of their action properties
(`NoWriteOnceClosed`, `UnsolicitedConfirmIsSound`), and both refinements; the premises a
theorem has beyond those of its property are named below.

* **SyncMultiCallback_proofs**, for a finite non-empty set of receivers and any
  set of statuses with SUCCESS and UNDEFINED: `TypeCorrect`, `AtMostOnce`,
  `Unanimity`, `Refinement`. `CalledAtMostOnce` is not inductive: that the count
  reaches its total once needs `AgreedInv` (while no disagreement was seen the
  count is the number of calls run, all of them with the combined status) and
  `DisagreedInv` (once it is UNDEFINED the verdict has been given and justified).
* **EventRouting_proofs**: `CalledAtMostOnce`, `VerdictIsEveryReceivers` and
  `ReceivedInOrder`, for finitely many connectors and receivers, any statuses and any chains of the in-built
  transforms. A callback knows only how many calls it has counted, not whose they were, so
  the invariant gives each of them a caller: `Heard` says that the counted calls and those
  on the strand are those of as many *different* members that have called, the counted ones
  all with the combined status. `Node` says it of a connector and its receivers, `Pub` of
  the publisher and its connectors, where the status a connector has called with (`Up`) is
  computed from what it has left behind: an event ended by the connector itself, its only
  receiver's answer, or its own callback's verdict. `Local` is why the first of these never
  meets the others: an event is refused or dropped only while no receiver has been given it.
  `ReceivedInOrder` says that a receiver is given what the transforms of the connection make
  of the event in their configured order. The loop wraps each handler around the one
  before, from the last transform to the first; by induction over its rounds the handlers
  wrapped after `n` of them are the last `n` of the configuration, in order
  (`WrapIsInOrder`), and an event on its way is what the transforms already run have made
  of the one published, with the others still to come (`OnTheWay`).
  One hypothesis about data remains, `EventsAreRecords`: events are records, `None` and
  `NULL` are not; that every transform maps events to events or drops them is then proved
  (`TransformsKeepEvents`).
* **Library_proofs**, four classes that share no state:
  * `asio_service`: `SingleService`, `NeverDangling`. The invariant says
    that the flag is set exactly while some thread is between its test-and-set and
    its clear or somebody holds a service (`FlagIsBusy`), that such a thread is alone
    (`BusyAlone`), and that whoever holds a service holds the current one (`Current`).
  * `RateLimitTransform`: `Rate_BurstBounded`, for finitely many threads and a counter that
    does not wrap inside one burst. `BurstInv` has three cases, by whether the counter is
    under the limit and, if not, by how it got there; in each the threads admitted and not yet
    counted (`Admitted`) are part of the bound, which is why it has twice the threads.
  * the demand maps: `OverlapDemandExact` and `OverlapNoDemandLeft`, for any number of pool
    threads, senders, receivers and connections, their events overlapping in any way.
    `DemandInv` relates each map to the last event handled for its sender (`Applied`), and that to
    the last one queued (`LastQueued`, `LastHandled`); at receivers that are not in `raced` no two events
    under way are opposite (`Apart`), so that `Told` can say what a receiver not yet reached by
    some loop knows; at those not in `overtaken`, a receiver that has demand and is wanted by nobody
    has a withdrawal still on its way to it (`Withdrawn`), because the last of the events that
    withdrew asks the map again. The converse fails (`DemandKept`, section 3).
  * `SpecialEventQueue`: `QueueIsFIFO`, under `~MayReenable`, which is needed too (`queue_limbo`).
    `QueueInv`: the nodes are linked in the order they came (`Links`), the size counts them
    (`Listed`). That the chain followed through the links is a sequence with the nodes from
    tail to head is an induction over its length.
* **TCPSocketManager_proofs**: `SingleWriter`, `ClosedIsQuiet`, `Spec_EachByteOnce`.
  `pending_write` is true exactly while a write or a throttle delay is outstanding, and
  there is at most one; one lemma per function that starts or ends a write, one step per
  action. `BytesInv` adds that the wire, the dropped bytes, the two buffers, the buffer of the
  direct write and the posted writes share out the bytes accepted so far, without overlap.
* **Concentrator_proofs**, about ConcentratorThreads and ReloadConfig:
  * the threads: `FirstReloadExclusive` (`MaxParkings <= 1`, the run's case) and
    `ExclusiveWhenReloadsApart`, for any number of reloads of which none starts to park while a
    thread released by the one before is still leaving: that condition separates the
    behaviours for which the section is exclusive from the one in section 3. The invariant: the
    counter counts exactly the threads parked or leaving (`CountInv`), there is one marker
    at most (`MarkerInv`), and nobody leaves while `parking` is set.
  * the object graph: `ReloadNeverDangles` and `SubscriptionsExact`, for any
    ports and connectors (distinct names) and any configurations. The two need each
    other: that a rebuilt port finds every connector that holds its address uses that
    subscriptions are exactly the connections, and conversely the subscriptions restored
    from the old port are right because connections come in both directions
    (`LinksInv`) between registered objects (`RegisteredInv`). All of it is under
    `~failed`: the code itself throws when it has left an address dangling.
    `ReloadRunsTheConfig` is about the element's entry, its own file and the files
    that one names under `Inherits`, which are what `FindChangedConfs` compares, for any
    inheritance; of the files further up it says nothing: the code does not look at
    them (`RunsAllInherited`, section 3).
* **DNP3MasterPort_proofs**: `Spec_FailureReportedOnce`, for any configuration. The
  property is inductive with the types of the timer's variables; the work is that
  none of the port's other handlers touches them.
* **MD3Link_proofs**: `AlwaysWatched` and `BoundedSends`, for any number of retries,
  controls, losses and disconnections and any order of late messages and handlers.
  `SendsBounded` needs that retries left and transmissions made add up
  (`Counted`), and two facts about the wrapped counter: once a command is given
  up no timeout is armed or due, and a timer armed while another timeout is due
  belongs to a command that has all its retries. `Spec_NoEventLost` and
  `Spec_SuccessIsReal` rest on `LinkInv`, about a connection that has not gone down: on
  one that delivers in order at most one message is under way, and it belongs to the
  command in flight (`OneScan`, `OneMessage`), so that the outstation's kept reply is the answer to a
  repeat (`Kept`) and a success was executed (`Real`); on a late one without losses and controls
  every reply sent is still to be handled, each once (`Moving`).
  `Spec_Agreement` is about the last word said of the point. As long as no change
  overflowed the queue, the newest event queued, or else the last word of the reply kept, is
  the point's value (`OutInv`). When nothing is left to say, on a connection in order the
  master has that value or the scan in flight asks for the reply that ends with it
  (`TightInv`); on a late one without losses and controls the last reply under way that says anything
  brings it, or the first scan after a connect is still to be answered (`LooseInv`).
  The attempt to prove `NoEventLost` and `SuccessIsReal` without the premises they now have (`Bearable`,
  and `drops = 0` in `SuccessIsReal`) showed executions in which they fail, which the six
  setups of the run do not reach: a late connection that also loses a reply or has
  a control in flight, and a control still being performed when the connection goes down,
  whose answer then completes another one.

* **FileTransfer_proofs**, for any files, chunks, sequence numbers and setups, any
  number of losses, timeouts, disables and restarts:
  * `Spec_FileIntact`: a file in the receiver's directory that is not being received is whole.
    Premise: `[][~Abandons]_vars`, that no step of the sender takes a transfer for ended
    while one of its handlers still goes on. It cannot be left out: `file_mixed` is a behaviour with such
    a step (a disable and enable), and the proof led to a second one without any disable.
    With two files, confirms and no losses (`[Base EXCEPT !.MaxEarly = 1, !.Chunks = Chunks(2, 1)]`)
    an idle reset that comes early runs the `ConfirmHandler` left by the end of the
    first file (`FileTransferPort.cpp:954`) while the name of the second is being answered,
    and the receiver stores the second file's data in the first;
  * `Spec_SteadyFileIntact`: without confirms and with a sender that is not disabled such
    a step does not exist, and `FileIntact` holds with no further premise;
  * `Spec_UnsolicitedConfirmIsSound`, with CRCs: the sender forgets only files that the
    receiver has stored, however late the confirmation is.

  `IInv` has three parts. The sender (`Chained`): nothing goes on, or exactly one
  handler does (the callback of a name, an action that waits for a confirmation, a chunk
  still to be read), and the CRC chain is where that handler expects it (`Linked`). The receiver
  (`Filed`): files at rest are whole, and the one being written has exactly the chunks that
  the chain has brought so far. The network (`Carries`): an event's CRC follows from what
  was sent before it, reports are only of files received, a name is answered once. The receiver's loop is
  proved turn by turn, and for any number of turns by induction (`LoopKeeps`).

The proofs use induction over natural numbers where they need it (lengths of
buffers, lists and chains of transforms, turns of a loop), in the form of a lemma about
sets (`NatSetInduction`).

With TLC only: the fourteen liveness properties, which need fairness and ENABLED; and
`FileIntact` and `UnsolicitedConfirmIsSound` on those of the sixteen setups of
`file_transfer` where a step that `Abandons` is possible and does no harm.

## 6 What is not modelled

* Memory order: atomics and shared pointers are single steps in a total order. The
  assignment of `weak_service` in `asio.cpp:61` races with `lock()` at `:67`
  without synchronisation and is taken as atomic.
* Arithmetic of time: a timer expires at any moment after it is set. RateLimitTransform
  is the exception, its subject being a clock.
* `TCPSocketManager`'s destructor, and the bit-rate arithmetic of its throttle.
* In `DataConcentrator`: log sinks (beyond their being changed or not), interface
  plugins, the deletion of replaced objects on a detached thread. `Shutdown` waits until the
  loggers have let go of the user's sinks (`DataConcentrator.cpp:1864`); that depends on spdlog only, and
  is part of the step `ShutdownDone`. An exception of an element's `Disable`, after which `ios_working` is
  not reset and the pool goes on, is left out.
* In the MD3 port: analog and counter scans, the old digital scans, DOM, DIM and AOM
  controls, date, sign-on and flag commands, several modules and stations, the
  framing of blocks, and disabling a port with commands under way. `DoPoll` takes
  its sequence number and looks at the points before it is on the strand
  (`MD3MasterPort.cpp:1184`); the model does both in the step that queues the scan. Scheduled
  polls cannot overtake each other (`ASIOScheduler::DoScheduledTask` runs them one by one), but the
  scan that a reply asks for, which is queued on the strand, can go first with the higher number. Two things
  seen while reading, not modelled: `DoDOMControl` counts a success of its own for
  each of the 16 outputs besides the answers of the ports, so that it answers before
  they do; and `ProcessAnalogDeltaScanReturn` computes the number of blocks as
  `Channels / 4 + Channels % 4`, which for 2 or 3 channels over is not what the
  outstation sends.
* In the DNP3 port: channels shared by several ports (a port that lets go of a shared
  channel gets no report that its link is down, although `DNP3MasterPort.cpp:97`
  counts on it), point tables and their quality, commands and their answers, the
  outstation's link. `SetCommsFailed` publishes point by point, and a recovery that
  overlaps its loop can be overwritten with COMM_LOST; not modelled.
* In the file transfer port: the throttle's arithmetic, `SequenceIndexEOF`, file name
  patterns and templates, files that change while they are sent, collisions of the CRC
  (the code's is 16 bits).
* The Conitel Baker port: its master's queue, timeouts and retries follow
  `MD3MasterPort`'s code; framing and point tables are conversions of data.
* `EventDB` (each operation one atomic access to one entry), `ASIOScheduler` (filled
  before it is started), `ConfigParser` (its effect on change detection is in ReloadConfig), `SimPort`
  (independent points), `JSONPort` (parsing and formatting over a TCPSocketManager),
  `ModbusPort` (blocking calls of a library), the HTTP library: little interaction
  between actors, or conversions of data.
* Text: logging, JSON syntax, command line and console.
* Third-party code: asio, opendnp3, jsoncpp, spdlog, Lua, Python and sqlite are
  modelled only by how this code uses them. `PROJECT.json` marks such definitions
  external.
* Platform service wrappers (`WinDaemon`, `POSIXDaemon`) and test code. Most of the
  lines under `src/` are vendored (sqlite3, catch, trompeloeil, jsoncpp, spdlog) or
  tests, so the share of all lines that the map covers says little.

## 7 Plan

Modelled: routing and its callbacks, demand, the service singleton, the Python queue,
sockets, the concentrator's threads, reload, the rate limiter, the DNP3 master's link and
IIN flags, the MD3 command queue and digital scans, file transfers. Next:

1. Proofs: which setups with confirms have no step that `Abandons`, from a relation between the
   handler left in `ConfirmHandler` and the transfer it was left by; lemmas of progress
   (that some action is possible while something waits) under the liveness properties.
2. Models: a DNP3 channel shared by two ports; the DNP3 outstation's wait for a command;
   CB select-before-operate; MD3 analog and counter scans.

Runs that would repeat a question for a second value of a constant are left to the
table of limits above: a run is kept for each question, not for each setup.
