# rimokun in TLA+

rimokun is the server of a remotely operated robot: three arms (left, right,
gantry) whose motors are moved with joysticks. The server reads the joysticks
from a serial control panel, drives six AR-KD2 motor drivers over Modbus, reads
and writes signals of a Contec I/O module, answers commands of a Qt client over
ZeroMQ and publishes a status to it. This directory holds TLA+ models of its
core, the TLC configurations that check them, and TLAPS proofs about them.

All paths below are relative to the root of the repository.

## 1. The system

### Threads

| Thread | Code | What it does |
|---|---|---|
| process thread | `Machine::processThread` | one control cycle after the other: control tasks, at most one command, status update if due |
| command server | `MachineCommandServer::runLoop` | receives a request, validates it, queues it, waits for its promise up to 2 s, answers |
| panel reader | `ControlPanel::readerLoop` | reads lines from the serial port, filters and publishes joystick values |
| lifecycle callers | `Machine::initialize`, `Machine::shutdown` | start and stop the threads, under `_lifecycleMutex` |
| GUI main thread and transport worker | `Updater`, `RimoTransportWorker` | in the client process: send commands, receive status |

Shared between threads are `_isRunning`, the `CommandQueue` and the promises of
its entries, `_readerRunning`, the state of `ControlPanel` and its atomics.
`MotorControl`, `Contec`, the policy and the status belong to the process thread
alone, once it is started; what makes them hard is not concurrency in memory but
the drivers and the bus behind them.

### Components

| Component | State | Operations | Talks to | What makes it correct |
|---|---|---|---|---|
| Command queue and dispatch (`CommandInterface.hpp`, `Machine.cpp`) | deque, bound, shutdown flag, promises | push, try_pop, shutdown, dispatchCommandAndWait | server thread, process thread, shutdown | no command lost or run twice, order kept, every promise set in the end |
| Command server thread (`MachineCommandServer.cpp`, `MachineCommandProcessor.cpp`) | none between requests | runLoop, processCommand | REP socket, dispatch | each request answered once, and truly |
| Machine lifecycle (`Machine.cpp`) | `_isRunning`, two threads | initialize, shutdown | all components | shutdown returns and leaves nothing behind |
| Control panel (`ControlPanel.cpp`, `SerialControlPanelComm.cpp`) | state, flag, thread, port, nine atomics | initialize, reset, getSnapshot, reader loop | serial port, status builder | the port has one user, no values of an earlier session, failures are visible, joins return |
| Joystick signal processing (`JoystickAxisProcessor.cpp`) | baseline, window and its sum, debounce counter | process, reset | control panel | what it puts out follows from the lines of this session alone |
| Robot control policy (`RobotControlPolicy.cpp`) | arm states, previous buttons, movement times, runtime of each motor | decide | machine controller | a locked arm stands, intents are paired, memory agrees with what was sent |
| Machine controller (`MachineController.cpp`) | alarm flags of the last cycle | runControlLoopTasks, handleToolChangerCommand | policy, MotorControl, Contec | alarm edges are acted upon before the decision |
| Motor control (`MotorControl.cpp`, `Motor.cpp`) | bus, motors, `MotorRuntimeState` of each, cached input register and operation | initialize, reset, the intents, setEnabled, onAlarmCleared, resetAlarm, diagnostics | Modbus client | the drivers do what was asked, also when a call breaks off; the operation that runs is not rewritten |
| Motor driver AR-KD2 (external) | input register, what its bits mean, operation data, parameters, alarm | | Modbus | |
| Status builder (`MachineStatusBuilder.cpp`) | the robot status | updateAndPublish | all components, PUB socket | the decisions that use it are not misled |
| Control loop timing (`ControlLoopRunner.cpp`) | two deadlines | runOneCycle | clock | periods are kept, no spinning |
| Contec and tool changers (`Contec.cpp`, `Machine.cpp`) | bus, signals cached for one cycle | readInputs, setOutputs, tool changer commands | Modbus | the interlock sees current values |
| Modbus client (`ModbusClient.hpp`) | connection | read and write registers and coils | devices | an answer belongs to its request |
| Transport (`RimoClient.hpp`, `RimoServer.hpp`) | sockets | sendCommand, receiveCommand, sendResponse, publish | GUI, server | REQ/REP alternate; an answer belongs to its request, also after a time-out |
| GUI transport and state (`RimoTransportWorker.cpp`, `Updater.cpp`, `GuiStateStore.cpp`) | queue of requests, pending requests, connected flag, events between two threads | sendCommand, handleResponse, start, stop | transport, widgets | each command gets one result, loss of the server is noticed, stop returns |
| GUI widgets and presenters (`MotorPanelWindow.cpp`, `ToolChanger.cpp`, `ResetControls.cpp`, ...) | selected motor, kind of the last request, what is displayed | buttons, timers, setRobotStatus, processResponse | GUI transport | the display is of the selected motor and not out of date |
| Configuration, logging, demos | | | | start-up code and bench programs, not modelled |

### What is hard here

- a command outlives the two seconds its client waits, and takes effect later;
- shutdown takes commands from the queue while the process thread still does;
- the reader thread may fail while the thread that started it has not finished;
- the policy sends differences: a stop that got lost is not sent again;
- a bus operation consists of several exchanges, each of which may fail with
  or without effect, and a time-out closes the bus for the rest of the cycle;
- decisions are taken on a status that is older than the devices it describes
  and that a reconnection replaces by a dummy;
- drivers keep their registers while the server is reset, reconnected, or
  restarted;
- a driver runs one of several stored operations, a new speed goes to the spare
  one, and caches and flags decide which that is and whether it is complete;
- the client throws its socket away after a time-out, while the server still
  works on the request;
- widgets have one slot for any number of requests under way.

`PROJECT.json` lists each of these hazards at its line of code, with the
properties that cover it or the reason why none does.

## 2. Modules

| Module | What it is |
|---|---|
| `CommandService` | abstract specification: what a client of the command socket may rely on |
| `CommandPath` | socket, server thread, queue, process thread, lifecycle; implements `CommandService` |
| `CommandPathProofs` | theorems about `CommandPath`, the refinement included |
| `ControlPanel` | reader thread against initialize, reset and getSnapshot |
| `JoystickPanel` | extends `ControlPanel`: the lines go through the filter of a joystick |
| `ControlPanelProofs` | theorems about `ControlPanel` and `JoystickPanel`, and that the second implements the first |
| `ArmPolicy` | `RimoKunControlPolicy::decide` |
| `MotionControl` | extends `ArmPolicy`: controller, MotorControl, drivers, bus failures, operator commands, status |
| `MotionControlProofs` | theorems about `ArmPolicy` and `MotionControl` |
| `OperationData` | one motor of MotorControl, exchange by exchange: operations, caches, runtime state |
| `OperationDataProofs` | theorems about `OperationData` |
| `DigitalIo` | Contec, the signals Machine caches, lights, tool changer commands, their part of the status |
| `DigitalIoProofs` | theorems about `DigitalIo` |
| `ModbusRtu` | the Modbus client in its RTU-over-TCP form, and when its callers close the connection |
| `ModbusRtuProofs` | theorems about `ModbusRtu` |
| `LoopTiming` | the deadlines of the control loop |
| `LoopTimingProofs` | theorems about `LoopTiming` |
| `RequestLedger` | abstract specification: what becomes of the commands an operator gives |
| `GuiLink` | client and server side of the sockets, transport worker, Updater |
| `GuiPanels` | extends `GuiLink`: the motor panel and the other controls; implements `RequestLedger` |
| `GuiPanelsProofs` | theorems about `GuiPanels` and `GuiLink`, the refinement included |
| `MC*` | constants for TLC |

### CommandPath and CommandService

One action is one step that another thread can observe: a lock region
(`Push`, `TryPop`, `CloseQueue`, one iteration of `Drain`), an access to
`_isRunning` (`ServerLoop`, `ProcessLoop`, `ExplainRefusal`, `BeginShutdown`), a
promise (`SetReply`, `ReplyReady`, `ReplyTimeout`), a join or the start of a
thread. `srvPc`, `procPc` and `lifecycle` are the program counters. Callers of
`initialize` and `shutdown` hold `_lifecycleMutex` from beginning to end, so one
program counter stands for all of them; the body of a call of `initialize` while
the machine runs throws at once and is not a step.

Requests are single-use identities; a client that retries sends another one.
Whether a request passes `processCommand`'s validation is a constant
(`Malformed`), whether its handler throws is left open (`Handle(ok)`). Handlers
are atomic here; the effects of motor commands are in `MotionControl`.

`mustSend` is the state of the REP socket, which has to send before it receives
again. A request that is no MessagePack (`Undecodable`) makes `receiveCommand`
return without an answer; if the thread comes back to `recv`, in this session or
the next, `recv` throws where nothing catches (`ReceiveThrows`), and the process
ends: `lifecycle = "terminated"`, after which no thread takes a step (`Alive`).

`SpawnFails` is a `std::thread` constructor that throws. `SpawnServer` on a thread
that is still joinable is `std::terminate`, which ends the process likewise.

`CommandService` has no queue, threads or time: a request is performed at most
once, and answered once with a truth about its performance. Only `timedOut`
leaves the client in doubt; `Perform` remains possible after it, and impossible
after a refusal. `answer`, `runs` and `done` are the variables of that
specification and history variables of the implementation, so the refinement
mapping is the identity on them.

### ControlPanel

Every access to an atomic, to the state and to the port is an action of its own,
as all of them are acquire loads and release stores between two threads and each
variable that both sides look at has one access per step. `getSnapshot` is 9
loads (`LoadField`), `processLine` 9 stores (`PublishField`). The value of a field
is the session (call of `initialize`) and number of the line it comes from: the
properties are about which line one sees, not about positions.

The status builder takes a snapshot whatever the component's state is, so
`BeginSnapshot` has no guard on it. Who calls `initialize` and `reset` is not
modelled: any sequence of calls, each of which may fail at `open` or at the
start of the thread.

### JoystickPanel

What `ControlPanel` leaves out of a line: each accepted line is a sample of the
first joystick, which `JoystickAxisProcessor` filters (`Calibrate`, `Average`,
`DebounceButton`, in the order of the code) before the results are published.
`Owner` and `Reader` are the steps of `ControlPanel` joined with what they do to the
processor: `resetSignalProcessingState` is a step of the thread that reconnects,
`AcceptSample` and `StoreSignal` are steps of the reader. The processors of the
joysticks are independent and y is treated like x, so x and the button of one
joystick are followed. Values are fractions, so that they can be compared
exactly; the rounding of doubles is left out.

`SignalsFollowLines` compares the published values with a definition that has no
state: `AxisAfter` and `ButtonAfter` say what the lines of the session amount to,
from the list `samples` of all of them.

### ArmPolicy

`Decide` is `decide` from its first to its last line in the order of the code:
buttons, auto-lock, time stamps, then per motor the intent and the new runtime;
`ReturnEarly` is one of the four early returns, which leave everything but the
clock alone. `told` is a history variable: what the intents sent so far amount to
when each one arrives. Axes are integers, so that the comparison with the two
thresholds is kept; speeds are represented by what they are computed from (axis
and arm state), as two speeds differ only if these do. Time is the age of the
last movement, cut off at the auto-lock time.

### MotionControl

The sequential process thread is `phase`: edges, decide, command, status. It
extends `ArmPolicy` and takes its `Decide` and `ReturnEarly` as they are; what it
adds is where the inputs of the policy come from (the status of an earlier
cycle) and what becomes of its intents.

| Action | Code |
|---|---|
| `AlarmsCleared`, `AlarmsClearedFails` | the loop over the motors in `runControlLoopTasks`, `MotorControl::onAlarmCleared` |
| `DecideEarly`, `IntentsApplied`, `IntentFails` | `decide`, the intents, and the exception handler of `controlLoopTasks`, which resets `MotorControl` |
| `SetEnabled`, `SetEnabledFails`, `ResetAlarm`, `Diagnose`, `ReconnectMotors`, `ReconnectOther` and the variants that time out | the operator's commands |
| `UpdateStatus`, `UpdateTimesOut`, `PublishFails`, `NoUpdate` | `updateAndPublish`, its failures, and a cycle in which no update is due |
| `AlarmOccurs` | a driver raises an alarm, between any two steps |
| `Restart` | the server dies or is stopped, and is started again |

The driver (external) is the input register with FWD, RVS and C-ON and the alarm
bit. `cache` is `_driverInputCommandRawCache`, with the register's value for an
absent optional, since the next operation would read it. An operation on a
motor is one to three exchanges; the actions for failures choose the one that
fails and whether it took effect, the registers being left as they are after
any prefix of the writes. A time-out (`CommunicationFailure`) closes the bus,
keeps the motors and puts the component into `Error`; other exceptions in the
control tasks reset the component, exceptions in a command are only reported.

`intact` and `recovering` are history variables, for `DriversFollowPolicy` (no
write has failed so far) and for `RecoveryIsSafe` (disabled by
`onAlarmCleared`, not enabled since).

### OperationData

`MotionControl` has the input registers of all motors but not what a motor does
with an order. `OperationData` takes one motor and makes every exchange a step. A
call (`SetSpeed`, `StartMovement`, ...) changes `runtime`, as the code does before
it writes, and puts what is left to do into `todo`; the exchanges then happen one
by one, and each may fail, with or without effect. What follows an exchange
without being one (`speedPairPrepared = true`, `enabled = ...`) is an item of
`todo` as well (`Prepared`, `Enabled`, `Started`), since it does not happen when
something before it fails. `Failed` is what the caller makes of the exception: the
control loop resets MotorControl, a failed `initialize` takes itself back, a
time-out in a guarded operation closes the bus, `setEnabled` only reports.

The driver (external) is its input register, its operation data, its parameters
and the assignment of functions to bits, which is one of a set and read once by
`initialize`. `Line` is `inputBitMaskForFunction` with its fallback, and `HasLine`
says that C-ON has none. `OperationBits` is `operationIdMask`: the bits of M0, M1,
M2 and MS0 to MS2, assigned or by fallback, which every choice of an operation
clears before it sets those of the new number, and which `Selected` decodes.
Operations 0 and 1 are the pair used for constant speed,
2 is the one for positions.

`astray` is a history variable: since the last `initialize` a write took effect
whose answer was lost, so that the cached register may be behind. How far behind
is `OnlyEnableIsStale`: in C-ON at most.

Left out: the operations of the motor library without a caller in the server
(pulses, jogs, forward and reverse by pulse, raw access, run and stop current),
operations 3 to 63 and homing; "form" stands for mode and function of an operation,
which are written together; a time-out that closes the bus counts as forgetting,
because nothing but the next `initialize` gets at what is left; a driver that
loses its power while the bus stays up. Calls without a bus throw before they
write anything.

### DigitalIo

The process thread again, one action per part of a cycle: `BeginCycle` makes the
copies of the signals invalid, the control tasks read the signals and set the
lights (`ControlReads`, `ControlSetsLights`) or do not get that far
(`ControlFails`), a command runs, the status is updated. `inCache` and `outCache`
are the two copies with their three cases: not valid in this cycle, valid and
empty (the reading failed), valid with values. What can be read at a moment is a
set (`InputsRead`, `OutputsRead`): the copy, nothing in the state `Error`, or the
outcome of an exchange, which may fail. `decide` is called with two readings as
arguments, which C++ evaluates in any order; `StateAfter` covers both.

`SetOutputs` is the read-modify-write of `Machine::setOutputs` with its exception
handler, which empties the copy and reports nothing. The outcomes of its
exchanges are `ok`, `lost` (nothing written) and `late` (written, but the answer
failed). A restart of the I/O module closes the valves, kills the connection, and
leaves Contec `Normal` until the next exchange. The client that
`ensureModbusClient` has made once is kept, dead or not; only `reset` removes it.

`asked`, `reply` and `current` are history variables: the command of the cycle,
its answer, and whether the module has run through since the cycle began.

### ModbusRtu

One exchange at a time over one TCP stream. A step is one `recv` loop
(`ReadHeader`, `ReadException`, `ReadData`, `ReadFixed`), enabled when the bytes it
waits for have arrived; `Send` and `SendFails` are the two ends of `write_all`; `ReceiveTimeout` is the same loop giving up, which loses
the bytes it already had, as in `read_exact_rtu_over_tcp`. A byte is the answer
it belongs to and its place in it. Which device, function and length the first
three bytes of an answer show is known only when they are read as the first
three; anything else may look like anything, up to the bound `ByteCounts` on a
length. The check sum is perfect: it holds for the bytes of one undamaged answer
from beginning to end.

Devices (external) answer one after the other, arbitrarily late, not at all,
with an exception, damaged, or a byte short. `Callers` and `Closes` are the
callers' side: the control tasks reset MotorControl after any failure,
`handleCommunicationFailure` closes the bus after a time-out, `setEnabled`
never does. `suspect` is a history variable: some exchange on this connection
ended without having read exactly its answer.

Left out: several connections at once (there is one bus), the connection's own
failure to open (no connection, no exchange), the pause between requests, and
what happens when a write goes to a connection the device server has closed: the
process may be killed by SIGPIPE, since `send` is called without `MSG_NOSIGNAL`
(`src/Server/include/ModbusClient.hpp:619`) and no handler is set.

### LoopTiming

`ControlLoopRunner::runOneCycle` as four steps at which it reads the clock or
changes a deadline: `BeginCycle` (awake, or late), then `BeginUpdate` and
`EndUpdate`, or `EndCycle` if no update is due; `UpdateFails` is an exception in the
update step, which leaves by the handler in `Machine::runOneCycle` and finds both
deadlines as they were. Any time may pass between two steps. `workEnd` is the
local `now`, which the code reads once, before the update, and uses for both
deadlines. The loops that advance a deadline are `Advanced`: the point of the grid
that is the first after `workEnd`.

### GuiLink, GuiPanels and RequestLedger

`GuiLink` has four parties: the main thread of the client (`Updater`, whose
`pending` is `_pendingById`), the worker thread with its queue, the sockets, and the
server process. Signals between the two threads of the client are queued calls:
`Post` appends to `events`, and the main thread takes them one by one. After a
time-out the client closes its REQ socket with linger 0 and makes a new one;
requests the server already has (`AtServer`) are still carried out, and their
answers are dropped (`open = FALSE`). `ServerEnds` is the end of the server
process for whatever reason; a request of another client that cannot be decoded
is one, step by step in `CommandPath`. Identities of requests are
counted up in the code; here they are reused when nothing refers to them any more.

`GuiPanels` adds the widgets. The motor panel is modelled whole as to its
requests: `selected`, the slot `_pendingRequest`, its timer, the buttons, the
selection of another motor (which asks twice if it comes from the main window) and
`processResponse`, which interprets a response by what is in the slot. Reset
controls, tool changers and the Contec panel send commands that nothing on the
client depends on (`OtherCommand`); what they show is reduced to as built, live or
dark. The question of a tool changer is a modal dialog with an event loop of its
own, so its answer may come at any time, also after the connection was lost.

`RequestLedger` is what an operator may rely on: commands are carried out at most
once, results come once and in order, and "failed" leaves open whether the command
is still carried out. The refinement mapping takes the open commands from the
worker and its queue, the results from the event queue, and what may still be
carried out from everything between the queue and the server's socket.

Left out: the content of a status, which buttons a status enables, drawing,
hiding a panel without closing the window. "change" stands for resetMotorAlarm and
setMotorEnabled, which the panel treats alike.

## 3. Runs

Times are for two workers.

| Run | Model | Bounds | States | What it shows |
|---|---|---|---|---|
| `command` | `CommandPath` with `FairSpec` | 4 requests (one for diagnostics, one that cannot be decoded), queue of 2, 2 initializes | 729 259, 141 s | nothing lost, answers true, order, clean shutdown, refinement of `CommandService`; received requests are answered, queued ones get a reply, shutdown returns, unless the process ends |
| `command_reopen` | `CommandPath` | 4 requests, one malformed, queue of 1, 1 initialize | violation | a shutdown before the initialize leaves the queue shut down: the machine runs, and the first command is refused as "queue is full" |
| `panel` | `JoystickPanel` with `FairJoystickSpec` | 1 joystick, 2 sessions, 4 lines, readings 0 and 3, windows, baseline and debounce of 2 lines | 606 161, 40 s | single use of the port, no stale session, bounded skew of snapshots, filtered values follow from the lines, operations return |
| `panel_race` | `ControlPanel` | 1, 1, 1 | violation | a reader that fails early leaves the component Normal without a reader |
| `arm_policy_unlock` | `ArmPolicy` | 2 arms, a motor each on one shared axis in -2..2, thresholds 1 and 2, auto-lock 3 | violation | an unlock after the idle time is undone in the same decision |
| `motion` | `MotionControl` | 1 motor, axis in -1..1, auto-lock 2, restarts | 2 515 192, 70 s | never both directions, drivers follow the policy, recovery is safe, silence in Error; locked arms stand, memory agrees with intents, idle arms lock, starts and stops are paired |
| `motion_alarm` | `MotionControl` | 2 motors, no restarts | violation | a motor turns on while another is in alarm |
| `operations` | `OperationData` | two assignments of functions, speeds 1 and -2, two rates, one ramp, one position | 4 599 736, 119 s | the operation that runs has what was commanded, is not rewritten under way; the caches are true, and after a lost answer wrong in C-ON at most |
| `digital_io` | `DigitalIo` | 2 arms | 220 610, 3 s | answers to tool changer commands and the status are true, valves move by commands only, errors are left by command only |
| `modbus_rtu` | `ModbusRtu` with `FairSpec` | 2 drivers, 3 requests, reads of 1 or 2 registers or a write, lengths 0 and 4 | 721 768, 60 s | exchanges stay in step until one breaks off, what is accepted fits, in order, and every exchange ends |
| `loop_timing` | `LoopTiming` | intervals 2 and 5, time up to 16 | 26 830, 1 s | no catching up, nothing skipped without need, deadlines on their grids |
| `gui` | `GuiPanels` with `FairSpec` | 2 motors, 2 requests under way, 1 queued event | 503 922, 131 s | refinement of `RequestLedger`, the display is current, requests end, stop returns, the loss of the server is noticed |

Why these bounds are enough:

- `command`: one command with the server thread, one with the process thread and
  one in the queue or refused are the places there are; a command that timed out
  may be in the queue at the same time. Two initializes cover the restart after a
  shutdown, and that after a failed start. One request that cannot be decoded is
  enough, as the second is not received. Malformed requests end in the server
  thread and are in `command_reopen` and in the proofs, which remove the bounds.
- `panel`: four lines are two of calibration and two more, so that the window
  slides and the button is taken, bounces and is taken again; a snapshot spans
  more than one publication; with two sessions the second can meet everything the
  first left. More than one joystick, which only makes snapshots longer, is in
  the proofs.
- `motion`: the properties are about each motor by itself, and motors are coupled
  only through the bus and the order of the intents, where the failing motor is
  chosen freely. An axis in -1..1 is below or above the thresholds; an auto-lock
  of 2 is met after one idle cycle and after two. Larger axes, arms that share
  an axis and several motors are in the proofs of `MotionControlProofs`, which
  remove the bounds.
- `operations`: two speeds and two rates tell the value that is commanded from the
  one that is not; one of them is what a new operation holds, the other is not.
  In the first assignment C-ON has no bit; in the second it has the one that M2
  would fall back to, M2 has another, M0 and M1 are exchanged, and RVS is left to
  the fallback. The position is written but
  never compared. The second ramp is treated like the first; the proofs have
  both.
- `gui`: two names let a request of the panel be under way together with one of
  another widget, or with one of its own that timed out and is still at the
  server; the panel with three requests of its own adds only more of the same
  answers, which the slot cannot tell apart either. The event queue of one makes
  the worker wait for the main thread, and nothing else depends on its length,
  as its order is that of the results. The proofs have any number of motors, names
  and events.
- `digital_io`: nothing in the module is counted, so its states are all there
  are for two arms; two arms are what the robot has, and the proofs remove
  even this bound.
- `modbus_rtu`: an answer can be late by one or two requests, so that it meets a
  request of the same or of another shape; a third request meets what is left
  of two. Of the writes one function is enough, as both have answers of eight
  bytes. A byte that claims 0 bytes makes an exchange end too early, one that
  claims 4 makes a read of one register end too late.

- `loop_timing`: intervals of 2 and 5 have no common points but every tenth, so
  that the two grids meet in every phase; a time of 16 lets a cycle and an
  update be late by several of their intervals. The proofs remove the bounds.

### Violations

Each of these runs checks one statement of a comment or a test that the code
does not satisfy; `findings` in `PROJECT.json` has the quotations.

1. `command_reopen` (`FullMeansFull`): nothing clears `CommandQueue::_shutdown`,
   and `dispatchCommandAndWait` infers "full" from `_isRunning`. The trace is a
   shutdown before any initialize, the initialize, and one request: the order of
   calls of `MachineRuntimeTests`, which sends no command after it.
2. `panel_race` (`ReadFailureIsError`): `initialize` sets `Normal` after it has
   started the reader, and overwrites the `Error` of a reader that failed at once.
3. `arm_policy_unlock` (`UnlockTakesEffect`): locking by hand keeps the time
   stamp of the last movement.
4. `motion_alarm` (`AlarmStopsMotion`): the policy falls silent instead of
   stopping the motors when one of them is in alarm.

Behaviour that the models also show, and that nothing in the repository
contradicts: a change from Slow to Fast while the stick is held reaches the motor
with the next change of the axis; a request that cannot be decoded ends the
server; after a failed write the stop of a motor may be lost for good, and
after a reconnection the motor turns on although its arm is locked; disabling a
motor is a no-op answered OK if the answer to the write that enabled it was lost;
a restart leaves turning motors turning; while Contec is in `Error` the safety
signal in the status keeps its last value (`MachineStatusBuilder.cpp:283`), where
all tool changer flags turn to `Error`; the diagnostics command takes Contec from
`Error` to `Normal` without a reconnection; once an exchange over raw TCP has
broken off without the connection being closed, the answer to an earlier request
of the same shape is accepted for a later one; commands given faster than they
time out, as by the 500 ms timers of the panels, keep the client from asking for the
status, and so from noticing that the server is gone; a motor that is put from
position mode into speed mode keeps operation 2 selected, with the old speed, until
its speed is set; `setSpeed` in position mode is never written once operation 2 is
prepared; a start or stop pulse whose second write fails leaves the bit set; a driver
without a C-ON bit keeps a motor disabled in the memory of MotorControl after an
alarm until the next reconnection; `EmergencyStop` is a log line answered
OK (`src/Server/src/Machine.cpp:676`).

### Fairness

Safety needs none. `CommandPath!FairSpec` has weak fairness of each thread and
of a call of `initialize` or `shutdown` that has begun: the operating system
schedules all of them, no thread waits for a lock that is held forever, and
each blocking call has a time-out (receive 1 s, dispatch 2 s) or is a join, whose
action is enabled only when the joined thread has ended. The wait for the
promise needs `ReplyTimeout`, which is part of `ServerStep`. Handlers are assumed
to return: their bus operations have time-outs. Clients and callers owe nothing.
`ControlPanel!FairSpec` is the same for the reader thread, whose `readLine`
returns after its time-out, and for an operation that has begun; `BeginSnapshot`
and the other beginnings are not fair. `ModbusRtu!FairSpec` is fair to the
exchange under way only: `recv` has a time-out (`SO_RCVTIMEO`), devices owe nothing.
`JoystickPanel!FairJoystickSpec` is that of `ControlPanel`. `GuiPanels!FairSpec` is
fair to the Qt event loop, to the worker thread (each of its calls has a time-out)
and to the join; the server may be gone, the transport may deliver nothing, and the
operator does as he likes. That is why `LossIsNoticed` has an antecedent.

### Refinement

`CommandPath` implements `CommandService` (`ServiceSpec`, checked and proved: the
identity on the three variables of the service). `GuiPanels` implements
`RequestLedger` (`LedgerSpec`, checked and proved: an `INSTANCE ... WITH` that
computes the ledger from queue, worker, sockets and events). `JoystickPanel` implements
`ControlPanel` (proved as `PanelRefined`, so that what is proved of the threads holds
with the filters).

## 4. Proofs

TLC checks small instances; TLAPS proves the theorems below for every value
of the constants that satisfies the assumptions `RequestsAssumption`,
`BoundsAssumption` (`CommandPath`), `PolicyAssumption` (`ArmPolicy`),
`MotionAssumption` (`MotionControl`), `PanelAssumption` (`ControlPanel`),
`JoystickAssumption` (`JoystickPanel`), `RtuAssumption` (`ModbusRtu`),
`OperationAssumption` and `NoSharedBits` (`OperationData`), `IoAssumption`
(`DigitalIo`), `TimingAssumption` (`LoopTiming`) and `LinkAssumption` (`GuiLink`).
They say that subsets are subsets, bounds and depths are natural numbers (a
queue bound of 0 being no bound), and placeholders are not values; TLC evaluates
them in every run. `NoSharedBits` is more than that: no two functions of a driver
share a bit of its input register, the six of the operation number and those that
have their bit by fallback included. The code does not check it. A driver without
MS2, say, that has C-ON on the bit MS2 falls back to breaks it: every choice of an
operation would switch it off. Such drivers are outside the runs and the proofs.

`CommandPathProofs`:

| Theorem | Statement |
|---|---|
| `TypeCorrect` | `Spec => []TypeOK` |
| `NothingLost` | `Spec => []NoCommandLost` |
| `Truthful` | `Spec => []AnswersAreTrue` |
| `ShutdownIsClean` | `Spec => []ShutdownLeavesNothing` |
| `FirstComeFirstServed` | `Spec => []ServedInOrder` |
| `Refinement` | `Spec => ServiceSpec` |

None of these properties is inductive. `AnswersAreTrue`, for example, says
nothing of a command that still waits, so a step that runs its handler could
make two runs of it. The inductive invariant `IInv` locates every request: it is
unsent, in the socket, with the server thread before the push, in the queue,
with the process thread, or its promise is set, and these places exclude each
other as far as the code makes them (`InboxInv`, `QueueInv`, `ProcessInv`,
`ReplyInv`), a request in the server thread's hands has the history its program
counter implies (`ServerInv`), an answer has the history its text implies
(`AnswerInv`), and threads run only in the phases of the lifecycle that allow it
(`LifecycleInv`). The order of the commands has an invariant of its own,
`OrderInv`: the queue is a suffix of what was accepted and the commands started so
far are a subsequence of the rest. The refinement follows from `IInv` step by
step: `Handle` is `Perform`, `Respond` is `Reply`, and every other step stutters.

`MotionControlProofs`, its part about `ArmPolicy`:

| Theorem | Statement |
|---|---|
| `TypeCorrect` | `Spec => []TypeOK` |
| `LockStops` | `Spec => []LockedMeansStopped` |
| `Memory` | `Spec => []MemoryIsWhatWasTold` |
| `AutoLocks` | `Spec => []IdleArmLocks` |
| `Pairing` | `Spec => IntentsArePaired` |

The inductive invariant is `TypeOK`, `Remembered` (the memory of each motor agrees
with what it was told) and `LockedMeansStopped`; the lemma that carries the proof,
`MotorStep`, says of one motor what an intent and the new runtime do to that
agreement.

`MotionControlProofs`, its part about `MotionControl` (any motors, any order of the
intents, any failing one):

| Theorem | Statement |
|---|---|
| `MotionTypes` | `MotionSpec => []MotionTypeOK` |
| `NeverBothWays` | `MotionSpec => []OneDirection` |
| `DriversObey` | `MotionSpec => []DriversFollowPolicy` |
| `SafeRecovery` | `MotionSpec => []RecoveryIsSafe` |
| `Quiet` | `MotionSpec => QuietInError` |

An operation writes the cached copy of a register back with some bits changed, so
that what the copy says today is what the driver does tomorrow: a property of the
registers alone is not inductive. The invariant is about the pair of a register
and its copy. `Exclusive`: neither asks for both directions. `Safe`: neither has
C-ON for a motor that waits to be enabled after an alarm. `Follows`: as long as
no write has failed the component is Normal, the two agree, and with them what
the policy told the motor. The lemmas `WriteFacts`, `WrittenMatches` and
`EnableKeeps` say what each prefix of the writes of an operation does to such a
pair, `DecisionFacts` takes over what the first part has shown of `Decide`.

`ControlPanelProofs` (any number of joysticks, sessions and lines, any readings and
depths of the filters):

| Theorem | Statement |
|---|---|
| `PanelTypes` | `Spec => []TypeOK` |
| `OneUser` | `Spec => []ExclusiveUse` |
| `ThisSession` | `Spec => []NoStaleSession` |
| `BoundedSkew` | `Spec => []SnapshotSkew` |
| `PanelRefined` | `JoystickSpec => Spec` |
| `JoystickTypes` | `JoystickSpec => []JoystickTypeOK` |
| `TrueSignals` | `JoystickSpec => []SignalsFollowLines` |

No lock protects the port and the values; what does is the order in which the
owner clears the flag, joins, and touches them. `PortInv` says in which of its steps
the owner is alone, that is, the reader has ended or was not started; the rest
follows. `TornInv` says which fields are a line behind while one is published, and
`SnapshotInv` that nothing already loaded is newer than the last line; with the two
of them `SnapshotSkew` is inductive.

`SignalsFollowLines` is about the whole list of lines, of which the processor keeps
a window, a sum and two counters. `SignalInv` says what these are in terms of the
list. `Averaged`: the window has the last readings, its sum is a difference of two
totals of the list, the baseline is made of the first ones. `Debounced`: the stable
state is what the list says, and the counter is the number of lines in a row at its
end that say otherwise. `AverageKeeps` and `DebounceKeeps` take a line through the
two filters, `AxisOfLines` turns the sums into the fraction that the definition
without a state computes; the rest is where the results lie between the line and
its publication. The totals and `ButtonAfter` are defined by recursion on the number
of lines. As no induction theorem can be cited, what is true of all of their values
(`TotalFacts`, `TotalAppend`, `ButtonAppend`) is shown for the smallest number for
which it fails (`Least`, from the well-foundedness of the natural numbers).

`OperationDataProofs` (any bits and assignments, any speeds, rates and positions):

| Theorem | Statement |
|---|---|
| `OperationTypes` | `Spec => []OperationTypeOK` |
| `MemoryTrue` | `Spec => []MemoryIsTrue` |
| `SparesActive` | `Spec => UpdateSparesActive` |
| `OnlyEnableStale` | `Spec => []OnlyEnableIsStale` |
| `RunsCommanded` | `Spec => []RunsAsCommanded` |

A call changes its memory first and writes afterwards, so the invariant has to
speak of what is left to do. `Shape`: the pair counts as prepared right after
operation 0 is selected, its speeds are not written after that, and the memory of
C-ON changes right after its bit. `PairInv`: once the pair counts as prepared the
cached operation is the one that is selected, lost answers or not, and only the
first item left may write a speed of the pair, to the other operation. `CacheInv`:
an absent cached register is read before it is written. `SettingsInv` and
`EnabledInv` say the same of the parameters and of C-ON. That a lost answer does
no harm to `PairInv` is because the control loop, which alone selects operations,
gives up the whole memory when an exchange fails (`ExchangeFailsKeeps`). The lemmas
about calls (`HarmlessShape`, `PairShape`, `QuietShape`) say once what the sequences
look like that the calls put together, `ProceedFacts` and the lemmas `...Later` what
remains true when one item is done.

`OnlyEnableIsStale` needs one fact more (`StaleInv`): the calls whose failure
MotorControl survives are the operator's, and they write no input but C-ON
(`StaleFailure`). Since C-ON shares no bit with the operation number, the cached
operation stays right with it (`AlikeSelects`).

`RunsAsCommanded` needs the contents of both operations at every point of every
call. `CommandedInv` states them by what is left to do, as a set (`Parts`): whatever
is still written to the pair is what the motor was told (`WritesTrue`), and of each
field either the operation has it or it is still to come (`Due`); the operation that
is selected now, or will be, has the speed (`Aim`). Changing the order of the writes
in a call would not disturb it, leaving one out would. It is claimed while the third
operation is neither in use nor being prepared (`PairOnly`), and a motor in position
mode is not in that case: that is what makes it harmless that `setSpeed` then writes
nothing. The pieces of a call that touch an operation belong to the control loop, so
a failure of one of them forgets the motor, and of anything else leaves the pair as
it was (`FailureCommanded`).

`ModbusRtuProofs` (any drivers, functions, counts and number of requests):

| Theorem | Statement |
|---|---|
| `RtuTypes` | `RtuSpec => []RtuTypeOK` |
| `NothingLeftBehind` | `RtuSpec => []InStep` |
| `OnlyFittingAnswers` | `RtuSpec => []AcceptedFits` |
| `AnswersInOrder` | `RtuSpec => AcceptedInOrder` |

An RTU answer has no number, so nothing in one exchange says that its answer is not
an old one. `StreamInv` and `QueueInv` carry the order of the whole connection: bytes
lie in the order of requests and places, answers to come are newer still, and all of
them are newer than what was accepted. Bytes whose check sum holds are one whole
answer (`WholeAnswer`), so what stays in the stream after they are taken is of later
requests (`Taken`): that is `AnswersInOrder`, out of step too. `FrameInv` keeps what
the header showed until the check sum is known, and `StepInv` says that in step
everything that has arrived is of the present answer, complete unless it is damaged.
The proof rests on the assumption about check sums that the model makes.

`DigitalIoProofs` (any number of arms):

| Theorem | Statement |
|---|---|
| `IoTypes` | `IoSpec => []IoTypeOK` |
| `AnswersAreHonest` | `IoSpec => []AnsweredMeansMoved` |
| `StatusIsHonest` | `IoSpec => []StatusIsTrue` |
| `OnlyCommandsMove` | `IoSpec => ValvesObeyCommands` |
| `OnlyOperatorsClear` | `IoSpec => ErrorNeedsOperator` |

Answers and the status are made from the copy of the outputs, so the invariant
has to speak of the copy in the middle of a cycle: `CacheIsTrue`, a copy with
values shows the valves as they are unless the module has restarted in this
cycle. It is what the empty copy after a failed write is for: that write may
have taken effect, so neither the old values nor the new ones are safe to keep.

`LoopTimingProofs` (any intervals, all time):

| Theorem | Statement |
|---|---|
| `TimingTypes` | `TimingSpec => []TimingTypeOK` |
| `Punctual` | `TimingSpec => []NothingSkipped` |
| `OneCycleEach` | `TimingSpec => NoCatchUp` |
| `OneUpdateEach` | `TimingSpec => NoCatchUpUpdates` |
| `AdvancesOnce` | `deadline <= t` gives `\E d : Advanced(deadline, interval, t) = {d}` |

Two times are apart if a point of the grid lies between them, and the point that
the proof exhibits is the deadline itself: `Ahead` says that a deadline is on its
grid and later than whatever was last done for it. `AdvancesOnce`
says that the loop of a deadline ends, and in one way. An empty `Advanced` would
stop the system in `EndCycle`, and `NoCatchUp` would hold for the wrong reason. The
proof takes the first point of the grid after `t` (the numbers of the points after
`t` are not empty, since the number of a point is at most the point), shows that it
is at most one interval away because the point before it is not after `t`, and that
two points so close to `t` would be less than one interval apart.

`GuiPanelsProofs` (any motors, any number of names of requests and of queued events):

| Theorem | Statement |
|---|---|
| `GuiTypes` | `Spec => []GuiTypeOK` |
| `NamesApart` | `Spec => [](TypeInv /\ LinkInv)` |
| `PanelShowsSelected` | `Spec => []DisplayIsCurrent` |
| `Implements` | `Spec => LedgerSpec` |

The worker, the two sockets, the server and the event queue hold parts of the same
request, so the invariant first says how they fit. `NamesInv`: a name is in one place
only, except that the server may have what the worker awaits the answer to.
`SocketInv`: on the open socket there is one thing at a time, and it is of the request
in the worker's hands; whatever else the server has is of a socket that was closed.
`UpdaterInv`: `Updater` knows every request whose result it has not handled, and a
result other than "failed" is the last trace of its request. `NamesApart` is these
three with the types (`TypeInv`, `LinkInv`).

`DisplayIsCurrent` speaks of a panel that has no request under way and has not seen a
failure, and says nothing of how it got there. `PanelInv` follows the last request of
the panel from the queue (`QueuedInv`) through the worker and the server (`TakenInv`)
to the event queue (`AnsweredInv`) and the display (`ShownInv`), and says at each place
that it is about the motor that is selected and fits the slot. All of this holds
unless a request of the panel has failed, which the panel knows or will learn from an
event (`Sick`); the commands that a closed socket has left at the server
(`ClosedInv`) exist in that case only. That a failure on its way is not the same as
one that is known is the reason why the property alone is not inductive.

The refinement has one lemma for each kind of step of the ledger: new commands
(`GiveStep`, and `HandOverStep` if a response was taken at the same time), a result
(`FinishStep` is `Settle`), the execution at the server (`ServeStep` is `CarryOut`), the
end of the client (`Close`); all other steps drop commands or stutter (`LoseStep`,
`QuietStep`, `ClosedStep`). The mapping computes the list of results from the event
queue, in which responses lie between other events, by counting the responses
ahead of each. `ResultsAppend` and `ResultsTail` say that adding or taking an event is
adding or taking a result, or nothing; they rest on `PlaceExists`, again by the
smallest counterexample.

Out of the prover's reach, and checked by TLC only: everything under fairness
(`ReceivedIsAnswered`, `QueuedIsReplied`, `ShutdownReturns`, `OperationsReturn`,
`ExchangeEnds`, `RequestsEnd`, `StopReturns`, `LossIsNoticed`) and `ENABLED`. Every other
property of a run that passes is a theorem.

## 5. Not modelled, and the plan

What could be added, in the order of its use: a composition of `MotionControl`,
`CommandPath` and `DigitalIo` in one cycle of the process thread, each of which takes
the others as free choices now; several clients of the server at once.

Not modelled: drawing and layout of the GUI (display only), configuration, logging
and time measurement (read once or write only), the demos and the script that
generates the register tables, the tables themselves (data), the values of
speeds, positions and units.
