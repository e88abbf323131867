# Specifications of the flight software

TLA+ models of the rocket flight software in `src/fsw/`: modules that TLC
checks on small instances, and proofs that TLAPS checks for every value of the
constants. Paths below are relative to `src/fsw/`.

## 1. The system

Four computers exchange messages over UDP: a *Control Node* (CN) with the state
machine of the rocket, three *Device Nodes* (DN) with sensors and actuators, and
a *ground* computer. Every node keeps its data in a *Data Vector* (DV), a table
of typed elements grouped in regions; a message between two nodes is a region
copied byte by byte. Once per period the CN sends a region to each DN and its
whole DV to ground, receives one message of ground and one of each DN, reads the
clock, runs the Command Handler, steps the State Machine and runs its
controllers. A DN's loop is driven by the message of the CN.

| component | state | operations | interacts with |
|---|---|---|---|
| Data Vector (`src/DataVector.cpp`) | elements, regions, lock | read, write, increment, read/writeRegion, snapshot | everything on its node; a lock serialises threads |
| Command Handler (`src/CommandHandler.cpp`) | in the DV: active command, number of the last request | run | reads ground's region, writes the command the State Machine compares, and any element (WRITE) |
| State Machine (`src/StateMachine.cpp`, `State`, `Transitions`, `Actions`) | state, its start time, action iterator | createNew, step | compares and writes DV elements |
| Controllers (`src/Controller.cpp`, `RecoveryIgniterController`, `LEDController`) | in the DV: mode, time of deployment, control value | run | DV only; devices copy control values to the hardware |
| Control Node loop (`src/ControlNode.cpp`) | buffers | loop, communications, error counters | all of the above, Network Manager, Time, Thread Manager |
| Device Node loop (`src/DeviceNode.cpp`) | buffers | receive, reply, drain, run | Network Manager, devices |
| Network Manager (`src/NetworkManager.cpp`) | sockets, counters | send (plus a noop message), recvBlock, recvNoBlock, recvMult | UDP |
| Clock synchronization (`src/ClockSync.cpp`) | none | syncServer, syncClient | Network Manager, ntpd |
| Thread Manager (`src/ThreadManager.cpp`) | list of threads | create, periodic wrapper, wait | kernel scheduling |
| Logger (`src/DataVectorLogger.cpp`) | snapshot DV, file | log | DV |
| Time, Errors | - | getTimeNs; incrementOnError, exitOnError | - |
| Devices, FPGA session | sessions | run | vendor driver |

Hard behaviour and what makes each part correct:

* **Commands.** Datagrams are lost, repeated and reordered, and ground restarts
  its numbering. A command must take effect at most once, in order, for one loop.
* **State Machine.** Loops are late, states are re-entered, several transitions
  hold at once, time may not advance. Timed actions must run exactly once per
  entry, moves must follow the first transition that holds.
* **Recovery.** Inputs change at any time and the clock is a wall clock. The
  igniter must burn once, only when allowed and justified, and must fire at the
  end of the window without a command.
* **Control Node loop.** Its parts fail one by one and the loop goes on. No
  request may be lost or overwritten between the socket and the handler, safing
  must act in the loop that enters the state, and failures must not spread.
* **Exchange of regions.** Messages are lost, get stuck in the receive queue of
  the Ethernet controller and pile up when a node is late; sends and receives
  fail in the middle. Regions must only move forward on both sides, a DN must not
  confirm what its devices have not done, a backlog must not last, and a silent
  node must not hold back the others.
* **Start.** Messages of the handshake are lost, calls fail, processes crash and
  are started alone or again. Nobody may fly alone or unsynchronized, the NTP
  daemon may not run in flight, and without a fault the start must decide. A
  configuration that comes up must be one with which the node can fly.
* **Threads of a node.** Deadlines are missed, timers and waits fail, identifiers
  are used again. A miss must be counted once, the node must not stay up without
  its loop, arguments must outlive their thread.
* **Data Vector between threads.** Threads are preempted between any two bytes.
  Each call must be atomic; what the logger writes must be one state.
* **Devices.** Any access to the FPGA may fail, and its registers outlive the
  program. A pin must not rise unless allowed, nor disagree in silence.

`PROJECT.json` lists each hazard at its line with the properties that cover it.

## 2. Modules

```
DataVector ─┬─ CommandHandler ──┬─ GroundCommands ── GroundCommandsProofs
            │                   │        └ implements CommandService
            ├─ RecoveryIgniter ─┼─ Recovery ── DeviceLoop ── RecoveryProofs
            │                   │        └ implements OneShotIgniter
            └─ StateMachine ────┼─ RocketStates ── RocketStatesProofs
                                └─ ControlLoop ── ControlLoopProofs
                                             (composes the three)

NodeComms ── NodeCommsProofs
   └ implements MirroredRegions, once for each direction

ClockSync                              PeriodicThread
     │                                      │
  Startup ── ClockSyncProofs           NodeThreads ── PeriodicThreadProofs
   (with DvLayout, Channels)             └ implements PeriodicThread, ThreadManager

DvCalls ─┬─ AtomicDataVector
         └─ SharedDataVector ── SnapshotLogger ── SharedDataVectorProofs
                  └ implements AtomicDataVector
```

`CommandHandler`, `RecoveryIgniter` and `StateMachine` are components: their
parameters, state and actions. `GroundCommands`, `Recovery` and `RocketStates`
close each with the most general environment its code may meet and state its
properties; `ControlLoop` composes them the way `loop ()` does. `MC*` modules
hold constants for TLC. Definitions named `Bug...` are mistakes that the
properties are known to notice; no specification uses them.

* **DataVector.** `dv` is a function from the elements of the configuration to
  numbers below the modulus of their type; `ret` is the `Error_t` of the last
  call. One thread owns the DV here, so that each call is one step. Types are
  the unsigned ones and bool that the modelled components use; the signed and
  floating ones only differ in their casts. `CastTo` is the C++ cast: a bool is
  0 or 1, an unsigned type wraps.
* **CommandHandler** (`run`, `executeWriteCmd`). One action per outcome:
  `RejectInvalidCommand` (early return), `HandleFlightCommand`, `HandleWrite`,
  `HandleWriteToMissingElem`, `ClearCommand`.
* **GroundCommands.** Ground numbers a request and sends it once; `sent` is the
  set of all messages, any of which may arrive at any time, again or never. The
  CN takes at most one message and runs its handler. `GroundRestart` forgets the
  number, which only exists in memory. Ground is assumed to spare the elements
  that count requests (`RequestAssumption`): WRITE could reach them.
* **RecoveryIgniter** (`Controller::run`, `runEnabled`, `runSafed`). One action
  per branch. `SinceDepNs` is the `uint64_t` difference with its wrap-around.
* **DeviceLoop** (`DeviceNode::entry` and `loop`, `FPGASession`,
  `DigitalOutDevice`) is the Device Node of an igniter around `Recovery`: open the
  session, set the register of the output, make the pin an output, synchronize,
  then exchange, controllers and actuators in turn. Every access to the FPGA may
  fail; a status that is not success may be a warning of a write that was done, so
  that the register may have changed. A failure of the start ends the program,
  which closes the session and resets the FPGA, or fails to. The registers are
  arbitrary at first: the start after a crash is such a start. `feedback` may show
  the pin as it was before the write.
* **Recovery.** Between runs the mode, arming, command and mission time take any
  value; mission time comes from CLOCK_REALTIME and may move back.
* **StateMachine** (`createNew`, `step`, `switchState`, `checkTransitions`,
  `checkActions`). `StepInvalidTime`, `StepStay`, `StepSwitch`. The map from
  times to actions is flattened to a sequence sorted by time, and the iterator
  is an index in it. Reads and writes of elements that `createNew` has checked
  cannot fail and have no error branch.
* **RocketStates.** Elements that transitions compare take any value between
  steps, and the time of a step is any time.
* **ControlLoop** (`loop`, `sendAndRecvDataVectorData`, `periodicErrorHandler`,
  `incrementOnError`). `pc` names the part of the loop that comes next. A failed
  call leaves its error in `ret`, and the loop only goes on after
  `IncrementOnError`. `RecvFromDevices` copies the regions of the nodes that
  answered, counts a miss of the others in the order of the nodes, and stops at a
  counter that cannot be incremented, as the code does. `ReadTimeFails` leaves
  the uninitialized time of the code: any value. `DV_ELEM_CN_TIME_NS`, the only
  time element of the enumeration that the loop updates, is the igniter's mission
  time. One igniter stands for the list of controllers. Data that are sent are
  not modelled: a message is a copy of the DV at the beginning of the loop.

* **NodeComms** (`sendAndRecvDataVectorData`, `recvMult`,
  `recvAndSendDataVectorData`, and the calls of the Network Manager they make).
  What a region contains is a version of the CN's commands; what a DN answers is
  the version its devices have acted upon, so that one number goes all the way
  round. `SendToNodes`, `Select`, `ReadReady`, `EndExchange` and `CnRun` are the
  CN: time passes in `select`, which either leaves time or ends the exchange
  after the sockets it found are read. `RecvAndReply` and `Drain` are a DN, whose
  devices and controllers run at the end of `Drain`. `SendFails`, `RecvFails` and
  `DnFails` are the early returns, between the nodes of a loop too. Sockets and
  links are queues in order (one switch, one path); a message that waits in a
  link for any time stands for the stuck one, and `Lose` may take any. Message
  and miss counters are below their maximum here; `ControlLoop` has them at it.
* **MirroredRegions** is what the exchange promises in one direction: copies are
  old, but never older than before and never a value the owner has not had.
  `CommandsAreMirrored` and `ReportsAreMirrored` are the two refinements.
* **ClockSync** (`syncServer`, `syncClient`, `setNtpDaemonStatus`,
  `verifyClientSynced`). A process goes through its handshake call by call, exits
  on an error, crashes, and is started again by somebody; only the daemon
  survives. A message is one byte, and so may be a region (`OneByte`), which is
  why data of a CN in its loop can be taken for SERVER_READY.
* **DvLayout** (`DataVector::verifyConfig`, constructor, `getRegionSizeBytes`):
  what a configuration must satisfy and which bytes its elements and regions get. An
  index is the number of the bytes before it (`SizeOf` counts them).
  **Channels** (`NetworkManager::verifyConfig`, constructor, `send`): addresses,
  ports, sockets, and where a datagram goes, noop messages included. An IP text is
  its parts and whether it has leading zeros.
* **Startup** adds to `ClockSync` the checks that a process makes of its
  configuration before it synchronizes. It only restricts who comes up.
* **DvCalls** says what each call of a Data Vector does to its bytes and answers.
  **AtomicDataVector** lets a call happen at one instant between its beginning and
  its end. **SharedDataVector** executes it byte by byte under the mutex.
* **SnapshotLogger** (`DataVectorLogger`) is a thread among them that makes its
  snapshot with the copy constructor, which copies the mutex as it is, and logs.
* **PeriodicThread** (`createPeriodicThread`, `periodicWrapperFunc`,
  `loopDeadlineMissHandler` of the CN): a timer that counts expirations, a read
  that does not block and one that does, and the wait of the main thread.
  **ThreadManager** (`getInstance`, `createThread`, `waitForThread`): the kernel's
  priorities and the list of threads. **NodeThreads** composes them as the main
  thread uses them.

## 3. Runs

| run | question | bounds |
|---|---|---|
| `ground_commands` | do commands take effect once, in order, for a loop; do writes stay in effect; is the abstract service implemented | 3 requests per start, 1 restart, 4 kinds of request, DV types of 6, 10, 20 values |
| `ground_unknown_command` | is a command always cleared after one loop (finding) | as above, requests with an unknown command |
| `recovery` | is the igniter fired once, while justified, and without a command at last; does its pin rise only when allowed and follow, or report that it does not | mission time up to 9, window 2..5, burn 3, error count up to 2 |
| `rocket_states` | do actions run exactly once and in effect; are moves the first transitions that hold | times 0..5, states with several actions, a self-loop and competing transitions |
| `control_loop` | does the composition keep requests and safing; are requests handled, does an armed flight deploy | 2 requests, 2 Device Nodes, time 0..4, one failed clock reading |
| `control_loop_clock` | is the igniter never raised before the window (finding) | 1 request, one failed clock reading |
| `node_comms` | do regions only move forward, is feedback true, do both sides get over a backlog | 1 DN, versions 0..2, 3 messages per queue, 1 failed call |
| `node_comms_liveness` | is every change confirmed although another node is silent | 2 DNs, one of which is never reached, versions 0..1, no failed call |
| `clock_sync` | which configurations come up, what do they guarantee, does nobody fly alone, where does the start block, does it decide | 24 configurations, 2 DNs, 2 starts of each process, 2 faults, 1 message per channel, messages of up to 44 bytes |
| `snapshot_logger` | are calls between threads atomic; is a row one state; does logging end | 2 threads, a DV of 2 bytes of 2 values |
| `snapshot_logger_lock` | does only one thread at a time use the DV (finding) | as above |
| `node_threads` | are misses counted, does the loop end only for a good reason and never alone, do threads and arguments stay right | 2 unread expirations, counters up to 1, 2 identifiers, 1 fault of the loop, 2 of the manager |

Two requests are enough for one to overtake, repeat or overwrite another, and a
third for an old one to arrive after a newer one was handled; one restart gives
two requests with the same number. The times of `recovery` leave room before,
in and after the window and for a burn that a clock set back interrupts. Types
are scaled down to the smallest moduli with room for the values that occur; a
write of 12 to a bool tells a cast from a truncation. The counters of
`control_loop` start at or just below their maximum, so that both outcomes of
an increment occur with few states. Three messages in a
queue are one more than a DN takes in a loop, so that a backlog lasts longer than
one. 24 configurations are that of `PlatformLEDSystemTest_Config.cpp` and changes
of it in one place, some of which a check refuses and some of which none does; 44
bytes stand for the 1024 of `MAX_RECV_BYTES`, just above the largest region there.
Two starts let the messages of one process meet the next, and with two faults a
loss can follow a crash. A byte of two values still has a carry and a sign; two
bytes are enough to be torn. Every bound is a constant (`Max...`,
`QueueSize`) that appears in a guard.

Fairness. `Recovery!FairSpec` lets the node's loop go on (`WF`). In
`ControlLoop!FairSpec` the loop goes on because its thread is periodic and has a
core and a real-time priority of its own, and `RecvFromGround` is strongly fair:
sending and receiving do not fail in every loop. Nothing is assumed of ground,
of the network or of the clock; the deployment property asks for the clock to
have passed the window. `NodeComms!FairSpec` lets both loops go on (`WF`, real-time
threads) and asks that not all messages to and from a reachable DN are lost
(`SF` of their delivery); of the other DNs nothing is assumed. In `ClockSync` and
`Startup` a process that is not blocked goes on without a fault (`WF`); nothing
makes anybody start it, nor the network deliver. In `DeviceLoop` only the loop goes
on; nothing is assumed of the start or of the FPGA. In `SnapshotLogger` a thread
goes on with what it has begun, and gets the mutex at last (`SF`): waiting threads
are served in the order of priority and arrival, and those of a higher priority
sleep between their calls. In `NodeThreads` the timer and the loop's thread go on,
and so does the main thread once it waits.

Type invariants, `LastProcessedIsLastHandled`, `DeploymentIsFinal`,
`FiresOnlyWhenAllowed` and the agreement of the state with its copy in the DV
are proved (section 4) and not checked again by a run.

What the runs show beyond that:

* After a **restart of ground** its requests are ignored until their numbers
  pass the last one handled. The properties hold: nothing is done twice or out
  of order. But ground is not told.
* A request with an **unknown command** (finding) returns before the active
  command is cleared, so that a LAUNCH of an earlier request stays active.
* After a **failed clock reading** (finding) the time of the loop is the content
  of an uninitialized variable. The igniter can fire before its window, and a
  state can start in the future, after which every step is refused until the
  clock catches up (`FreezesOnlyAfterClockFailure` shows nothing else causes it).
* A **backlog** of more than one message in a DN's socket is worked off at one
  message per loop beyond the one it blocked for; `DrainAppliesNewest` therefore
  asks for at most one behind it. The drained message gets no answer, which the CN
  may count as a miss although nothing was lost. The CN has no such limit:
  `recvMult` reads until its time is over (`CopiesAreNewest`).
* A **mode that is no mode**, which a WRITE can store, keeps the igniter as it
  is: the exception in `HighIsJustified` and `PinRisesOnlyWhenAllowed`.
* An **igniter whose device fails** for the time of a burn is spent without having
  burnt, and one whose device fails at the end burns on. The count of errors is all
  that tells (`PinFollowsOrIsReported`). A DN that crashes in a burn leaves its pin
  high until it is started again, and has then forgotten that it fired.
* **Start.** Where it blocks, a message was lost or sent before its receiver was
  started (`WaitsInVainOnlyForMissed`): a CN that restarts alone waits for clients
  that are in their loops, and the exit of a client leaves the others waiting or
  flying alone. The daemon survives a crash of the CN. A region of one byte can be
  taken for SERVER_READY, and after crashes of both sides a late reply can be
  taken for the next one's (the exceptions in `SyncsOnlyWhenServerIsReady`).
  `std::stof` throws for an offset of the daemon that it cannot read.
* **Configurations.** The check for duplicate addresses compares texts, so that
  `10.0.0.1` and `10.0.0.01` pass (`SpelledOnce` excepts them); an empty part of an
  address throws. Noop messages go to the port with the bytes of 2200 swapped,
  which is no node's. The telemetry of the whole DV is not bound by the size of a
  message. Message counters at their maximum make every send or receive fail.
* **Threads.** `waitForThread` answers success for a thread that is not in the
  list, if the list is not empty. A period of 0 ms arms no timer, and the function
  runs once.
* The **snapshot** (finding) is made without the lock. A thread that holds it then
  leaves the copy locked and every `log` waiting for ever; `LogReturns` asks for a
  snapshot that was made while nobody held the lock.

## 4. Proofs

`RecoveryProofs` proves, for every configuration, window, burn time and course
of the inputs: `TypeOK`, `HighIsJustified`, `FiresOnlyWhenAllowed`,
`DeploymentIsFinal`, and that the controller implements `OneShotIgniter`. The
inductive invariant `IInv` adds two facts to the type and to `HighIsJustified`:
an igniter that is high was fired, and the times that occur are at most
`MaxTime`. The second is needed because the difference of two times wraps
around: with `MaxTime + IGNITION_DURATION_NS` below the modulus, a negative
difference becomes larger than the burn time, so that a clock set back ends a
burn instead of prolonging it (lemma `WrappedDifference`). The Device Node around
it implements `Recovery` (`LoopImplementsRecovery`), so that all of this holds in
it. `PinFollowsOrIsReported` and `PinRisesOnlyWhenAllowed` are proved from
`LoopIInv`, which adds what holds in each part of the start, and that a deployment
is not before the window: a device may raise the pin loops after the controller
fired, and is then still allowed to.

`GroundCommandsProofs` proves, for every configuration, set of requests, number
of requests and of restarts: `TypeOK`, `HandledInOrder`,
`LastProcessedIsLastHandled`, and that the handler implements `CommandService`.
`HandledInOrder` is not inductive without `LastProcessedIsLastHandled`, and this
not without `WritesSpareCounting`: a request that is about to be handled does not
write the elements by which requests are counted. That is the assumption about
ground, carried through its messages and the region.

`WritesInEffect` compares numbers; what is inductive is an order of the list of
handled requests (`AllInEffect`: an element holds what the last WRITE to it in the
list stored), from which it follows because the list is in the order of the numbers.
`CommandClearedAfterOneLoop` is proved under the hypothesis that ground asks only
for known commands; without it the run `ground_unknown_command` refutes it. The
invariant is that no unknown command is sent, stored or taken (`CommandsKnown`).

`NodeCommsProofs` proves, for every number of DNs, versions, messages and
failures: `TypeOK`, `FeedbackIsTrue`, and both refinements of `MirroredRegions`.
The inductive invariant follows a version around its whole way (`RoundTrip`): from
the CN through link, socket and receive buffer to the devices of a DN, and back
through link, socket and buffer to the CN's copy, versions do not rise from one
place to the next, and queues are sorted. `Pipe` states this for one direction
between a sender and the receive buffer; its lemmas are the ways a pipe changes
(send, lose, deliver, take, a sender that moves on).

`CopiesAreNewest` and `DrainAppliesNewest` need one invariant more: the newest
message that arrived is the last in the CN's socket, or the last it read, if the
socket is empty (`NewestIsKept`). `recvMult` ends with time left only when the
sockets are empty.

`RocketStatesProofs` proves, for all states, transitions, actions and courses of
the clock: `TypeOK`, `StateElemAgrees`, `ActionsExactlyOnce`, `ActionsInEffect`
and `ObservedMovesAreTransitions`. The inductive invariant says that the actions
before the iterator have run once and are those whose time has been reached
(`Progress`); a step runs an interval of them, whose writes `ExecutedWrites` sums
up by the largest index that writes an element.

`ControlLoopProofs` proves, for any number of Device Nodes, requests and failures:
`NoCommandOverwritten` and `FreezesOnlyAfterClockFailure`. For the first, what
waits in the socket is newer than what was taken (`SocketInOrder`), and either all
that was taken is handled (`Quiet`) or all but the request in the region, before
the Command Handler (`Pending`). It needs `WriterAssumption`: nothing else in the
loop writes those elements. No code checks that; it is so in every configuration
of the repository.

`SafeStateHoldsIgniterLow` is proved for configurations in which only actions and
the controller write the mode and the control value (`IgniterIsSpared`, which TLC
evaluates on the instance): no request, and no region that is received. The
invariant (`SafeStateInv`) is that in such a state the mode is safed as soon as the
actions at time 0 have run, which they have in the step that enters the state, or
will in the first step of a rocket that starts in it; before the controllers the
igniter may still be high. That no request in the socket or the region writes the
two elements (`RequestsLeaveIgniter`) is carried along.

`ClockSyncProofs` proves, for any number of clients, starts and faults: `TypeOK`,
`DaemonIsStopped`, `FlyTogether`, `WaitsInVainOnlyForMissed`,
`EntersLoopSynchronized` and `SyncsOnlyWhenServerIsReady`. The last two say what is
left of the handshake after losses and crashes. Their invariant `FirstInv` has three
parts. A client in its first start has replied only if it is synchronized
(`FirstStart`). The first server tells each client once, so that a reply to it
stands for a synchronization whatever the starts of the client (`FirstServer`,
`FirstSync`): before it was told the client has not replied, between it waits or
goes on. And a server in its first loop has left no SERVER_READY behind
(`FirstLoop`), except that data of one byte may look like it.

`StartupImplementsClockSync` carries these over to nodes with configurations, as
`Startup` only restricts which processes come up, and never changes a
configuration. `SocketsHaveOneSender` and `RegionsTravelWhole` then follow from
what a process that is up has checked (`UpIsAccepted`). For sockets: ports converted
twice are the ports (`PortsOnTheWire`), two sockets of a node with one port are one
(`Bound`), and each pair of nodes has one channel; it takes that the texts of two
addresses do not mean the same (`SpelledOnce`, in the property). For regions:
`CreatedIsExact` shows of every configuration that `createNew` accepts that its
layout is exact. Sizes are numbers of bytes, which makes sums of sizes cardinalities
of unions (`SizeOfBoth`, `SizeOfMore`); an element ends before the next one starts
(`NoOverlap`), and the element of a byte is the one that ends first of those that
end after it (`PlaceOfByte`), a least number instead of an induction.

`SharedDataVectorProofs` proves, for any threads, elements, regions and sizes:
`TypeOK`, and that the calls implement `AtomicDataVector`. A call takes effect when
it gets the mutex: `Memory` is what others will find once its owner has done what
it began, and nobody else touches the bytes meanwhile (`Exclusive`, `Progress`).

The logger is one of those threads: every step of `SnapshotLogger` is one of
`SharedDataVector` or leaves it alone (`LoggerStep`), so that the calls stay atomic
with it (`LoggerKeepsAtomicity`). `RowsAreSnapshots` is proved from that, not from
the bytes: the logger's call is answered once, with the bytes of the moment it
happens (`AnswersInAStep`), which the history has; and what was answered is in the
buffer and then in the snapshot (`RowInv`).

`PeriodicThreadProofs` proves, for any period, counters and number of faults:
`TypeOK`, `MissesAreCounted`, `EndsForGoodReason` and `StartsOnItsExpiration`.
They need that nothing is read from the timer between the check and the wait
(`Unread`), and that what the check read was counted before it can end the thread
(`Counted`).

The process around it, `NodeThreads`, implements both `PeriodicThread` and
`ThreadManager` (`NodeImplementsPeriodicThread`, `NodeImplementsThreadManager`), so
that the loop of a node keeps its time as the thread alone does. What it does with
its threads satisfies `ThreadsRunBelowTheKernel` and `ArgumentsFollowThreads`, for
any numbers of threads and failures. `ManagerInv` adds to the second that a
thread whose creator was told of it is in the list while it has arguments
(`ToldThreadsAreListed`): without that, `waitForThread` might find nothing to free.

Assumed are only the named assumptions on the constants, which TLC evaluates in the
passing runs, and where a theorem says so its hypothesis: known commands in
`KnownCommandsAreCleared`, `IgniterIsSpared` in `SafeMeansLow`.

Only model-checked are the liveness properties (`DeploysAfterWindow`,
`RequestsAreHandled`, `ArmedStateDeploys`, `ChangesAreConfirmed`, `ServerDecides`,
`LogReturns`, `KeepsRunning`), since fairness and ENABLED are out of the provers'
reach here. The other properties of the passing runs are proved, and the three
findings are counterexamples of TLC.

## 5. Plan

Next: a refinement of the exchange by `ControlLoop`, which so far receives any
regions; an abstract specification of the loop's requests, handled once and in
order, that `ControlLoop` and `GroundCommands` both implement; and the step of the
liveness properties that is no liveness: what a waiting node waits for cannot be
taken away.

## 6. Not modelled

* **GNC utilities**: floating-point geometry, which neither TLC nor the provers
  can compute.
* **Analog inputs**: a voltage and its engineering unit are copied from the FPGA to
  the Data Vector, two numbers that nothing else in the code reads. If the transfer
  function fails, the second stays that of an earlier loop, and an error is
  counted.
* **LED controller**: one write per run without a state of its own.
* **Time**: only `getTimeNs` and its failure (`ControlLoop`). The overflow that the
  singleton checks for is centuries away.
* **Logger**: formats of rows and of the watch file.
* **Ground test software**: only how it numbers, sends and restarts.
* **Enumerations and their names**: model values.
* **Tests, profiling programs, `RecoveryIgniterTest`, `AnalogInDeviceTest` and other
  programs for manual use; vendored code** (CppUTest, the driver `NiFpga.c`, the
  headers generated for a bitfile): not flight software of this repository. The
  driver is what `DeviceLoop` assumes of it: an access is done or fails.
