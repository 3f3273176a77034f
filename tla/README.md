# A verification project for ITA-BPM-software

The repository holds the data acquisition of a beam-position monitor: a server
that runs on an Eclypse-Z7 board and a client that configures it, starts and
stops runs and records their events. This directory models the program in TLA+,
checks the models with TLC and proves theorems about them with TLAPS.

## 1. The system

| part | source | state | operations |
|---|---|---|---|
| Command server: `Ctrl_Thread`, `main` | `server/src/server.cpp` 176-410 | settings of the next run, REP socket on port 5555 | `start`, `stop`, `config`, `temp`, `bias` handlers, `parse_config` |
| Acquisition thread: `DAQ_Thread` | `server/src/server.cpp` 17-174 | settings of the present run, `stop_` flag and its mutex, the `std::thread`, PUSH socket on port 5556 | `configure`, `start_daq_thread`, `join_daq_thread`, `stop_daq_thread`, the loops `daq_thread_all` and `daq_thread_sum` |
| ADC driver: `LTC2333` | `server/src/LTC2333.cpp`, `.h` | number of reads, chip mask, registers of the read, write and interrupt blocks of the FPGA | `configure`, `trigger`, `wait`, `waitIRQ`, `IRQReset`, `read`, ... |
| DMA control: `DMACtrl` | `server/include/DMACtrl.h` | scatter-gather descriptor ring, CDMA registers | `configureSGBuf`, `startSG`, `IRQWait`, `sgBufReset` |
| `UDMABuf`, `UIO` | `server/include/UDMABuf.h`, `UIO.h`, `server/src/UIO.cpp` | mapped memory, cache ownership of the DMA buffer, interrupt count | `syncCpu`, `syncDevice`, `IRQWait`, `IRQReset` |
| I2C devices: `I2C` | `server/include/i2c.h` | two bus files | `read`, `write` |
| Client: `DAQCtrl`, `client.cpp` | `client/include/DAQCtrl.h`, `client/src/client.cpp` | configuration, data file and its number, the signal flag `g_stop` | `sendConfig`, `setBias`, `readTemp`, `startRun`, `stopRun` |
| Process supervision | `server/scripts/ita-bpm-daq.service` | - | restart of a failed server after 5 s, start at boot without waiting for the firmware |
| cppzmq | `server/include/zmq.hpp`, `client/include/zmq.hpp` (one file, twice) | ownership of messages, sockets, monitors and contexts | constructors, moves, `send`, `recv`, `close`, options, `check_event` |

How they interact. A client speaks to the control thread over a REQ/REP pair:
one request, one reply, and `config` and `temp` take a second request. Nothing
ties the second one to the client of the first. The control thread calls the
methods of `DAQ_Thread`; it shares with the acquisition thread the flag
`stop_` (written under a mutex, tested without it) and waits for it in `join`.
The acquisition thread drives the board through `LTC2333` and pushes every
event to whatever PULL sockets are connected, without waiting (`dontwait`).

What is hard here:

* the control thread is the only one that receives commands, and it blocks in
  `join`; whether a run can be stopped depends on what it waits for;
* `stop_` belongs to no run: it is set by a command and reset by a loop test;
* the settings exist in four copies (`Ctrl_Thread`, `DAQ_Thread`, `LTC2333`,
  `DMACtrl`) set by different calls, and a copy of unchecked size depends on
  two of them;
* REP sockets throw when the alternation of request and reply is broken, and
  an exception ends the process, with the run and the settings;
* the board works one burst ahead of the thread; events are complete only
  because triggers, FIFO levels, interrupts and the DMA keep their order;
* events, requests and replies are lost when a process dies or nobody listens;
* the client counts events to know when its run is over, while signals, failing
  receives and lost events all interfere with the count;
* devices that are missing and transactions that fail are printed and then
  ignored, so that a handler goes on with zeroes or with wild memory.

## 2. Modules

| module | models |
|---|---|
| `DAQThread` | class `DAQ_Thread`: its methods and the acquisition thread, one action per shared-memory access or blocking call |
| `Server` | `Ctrl_Thread` and `main`, composed with `DAQThread`, the clients' REQ connections and the data peer; crashes and restarts |
| `RunControl` | abstract specification of one run: what a start, a stop request and the end of the events promise |
| `Readout` | the acquisition thread's steps as the calls of `LTC2333`, `DMACtrl`, `UDMABuf` and `UIO` they consist of, with the blocks of the FPGA |
| `SGRing` | `DMACtrl::configureSGBuf` iteration by iteration, and the engine that follows the ring |
| `DAQClient` | one run of the client program: `client.cpp`, the members of `DAQCtrl` it calls, its signal handler and its files |
| `BpmSystem` | client programs one after another (`DAQClient`) against the server (`Server`), over both sockets, with signals and a server that is killed |
| `Startup` | the life of the server's process up to its loop: constructors that open devices while the firmware brings them |
| `I2CDevices` | the bus wrapper and the commands `temp` and `bias` over it, on a server that came up by `Startup` |
| `CppZmq` | who owns what in `message_t`, `socket_t`, `monitor_t` and `context_t` |
| `ZmqBuffers`, `ZmqCalls`, `ZmqOptions` | the functions of cppzmq without a state: byte ranges; return codes to values, optionals and exceptions, and monitor events; socket options |
| `MCServer`, `MCReadout`, `MCSGRing`, `MCDAQClient`, `MCBpmSystem`, `MCI2CDevices`, `MCCppZmq` | constants for TLC; `MCCppZmq` also holds the ASSUMEs that check the functions without a state |
| `DAQThread_proofs` | lemmas about the acquisition thread that `Server_proofs` and `Readout_proofs` share |
| `Server_proofs`, `Readout_proofs`, `SGRing_proofs`, `DAQClient_proofs`, `BpmSystem_proofs`, `I2CDevices_proofs`, `CppZmq_proofs` | theorems about the module they are named for; that `Server` implements `RunControl` is in the first |

`Server` and `Readout` both extend `DAQThread`: the first adds the callers of
the thread, the second what happens below it. `SGRing` opens up one step of
`Readout`, the configuration of the ring. `BpmSystem` extends `Server` and
takes the steps of a program from an instance of `DAQClient`, whose queue of
events it maps to the server's data socket and whose replies to the server's.
`I2CDevices` extends `Startup` and opens up two handlers of `Server`.

### DAQThread

`thr` is the program point of the acquisition thread: `none` when there is no
joinable thread, `enter` (wait for the sequencer, reset, pre-trigger), `loop`
(the loop condition and `if(self->stop_)`), `clear` (the critical section that
resets the flag), `acquire` (`wait` or `waitIRQ`), `read` (DMA and copy),
`send` (the dontwait send and `++iTrig`), `post` (what follows the loop) and
`done` (returned, not joined). `daq` holds the members that `configure` sets,
`ltc` what the driver and its descriptor ring keep of them. The two event
loops have the same control flow and are one set of actions. Sample values are
not represented; a message is known by the words it has room for (`msg`) and
an event by its index and the settings it was taken with. `pipe` is the data
socket's queue, bounded by its high-water mark `HWM`; a full pipe or no peer
loses the event, as `send_flags::dontwait` with an ignored result does.
`asked` and `late` are history variables: no guard reads them. When the process
dies (`DAQReset`) the events that have reached the client's end of the pipe stay
there: some beginning of `pipe` is left.

`MessageWords` and `CopyWords` are products of 32-bit numbers in the code and
are not bounded in the model: both wrap alike, and `CopyFitsMessage` compares
them with each other only.

`iTrig` is a C++ `int`: `NextInt` wraps at `IntMax`, which only an endless run
reaches (overflow of a signed int is undefined in C++; the wrap is what the
compiled code does, and no property depends on the value in endless runs).

### Server

`ctl` is the program point of the control thread: `recv` (blocked in
`recieveCommand`), the name of a handler, or a point inside one. `rep` is the
peer a reply is owed to, the state of the REP socket. Each blocking call of a
handler starts an action of its own. `inbox[p]` and `outbox[p]` are the two
directions of a client's connection; a REQ socket allows one request at a time
so that one slot each suffices. `dial[p]` is the call of `DAQCtrl` the client
is in. Clients call the member functions in any order, may die anywhere
(`MortalPeers`), and with `RawMessages` a peer sends what `DAQCtrl` never does:
an empty message, an unknown command, a bad channel.

`Terminate` is an exception that leaves `main`: the process and its thread are
gone, the connections break, messages under way may be lost or be delivered to
the next process (libzmq reconnects). `Restart` is systemd's. What happens on
the I2C buses is in `I2CDevices`: here `TempConvert` stands for both
conversions, `CmdBias` for both writes.

`num_sum_` is not initialised by the constructor: it is any value of `Junk`.

### RunControl

A run is begun with a number of events or `Endless`; it commits to an event
(`Commit`) and delivers it; a request that is pending between two events cuts
it; it is never cut otherwise, never commits while a request is pending, and
consumes at most one request. `Server` implements it under the mapping
`RunPhase`, `EventsLeft`, `thr \in {"acquire", "read", "send"}`, `stop_`.
`ImplementsRunControl` is the safety part, `ImplementsRunControlLive` adds that
a run under way keeps moving.

### Readout

`sub` is the driver call the thread, or `configure`, is at; every step of
`DAQThread` is taken together with the calls it stands for. `depth`, `free`,
`burst`, `id`, `pend` are the sequencer's registers (`write_`), `accept` and
`fifo` the read block's (`read_`), `intr` the interrupt controller as UIO shows
it, `ring`, `dma`, `dmaIrq` the descriptors and the CDMA, `owner` the side the
DMA buffer is synced for, `buf` its regions. A word in a FIFO is the number of
the burst it belongs to; samples are not represented. `ResetFifos` is one step
because the board is idle when `writeInProgress()` is false.

The FPGA is not in the repository. Assumed of it, from how the driver uses it:
a trigger during a burst is kept and a second one kept is the first; a burst
puts one word per read in the FIFO of every selected chip and in the timestamp
FIFO, together; the FIFO interrupt is a level (while a full burst is there)
that is seen again at once after it is acknowledged; the CDMA moves the
descriptors in order up to the tail, interrupts after the last, and does not
process a descriptor that is marked completed. In free-running mode a word
stands for a sum of `num_sum_` samples, and the FIFOs do not overflow. `Bit`
gives each chip its position in the mask, in whose order the ring is built.

A mask without a chip is legal. In a triggered run `wait()` then has no FIFO to
wait for and returns at once (`LTC2333.cpp:103-121`), and the events are not tied
to the bursts: the properties about bursts suppose `ChipSelected`, those about
the engine, the buffer and the ring do not. In a summing run `configure` masks the
interrupt (`LTC2333.cpp:28`), so that `waitIRQ` (`server.cpp:156`) never returns:
`EventsArrive` excepts that run, which is among those of `board`, and a stop does
not end it (section 3).

### SGRing

The loop of `configureSGBuf` with its state (`i`, `nSGBuf_`, the descriptors),
the engine one descriptor per step, `sgBufReset`, reconfiguration, and a new
process at any point (the descriptors lie in a kernel buffer and survive it).
Addresses are slot numbers, lengths are in words. `Depths` are one or more and
fit the DMA buffer; the code checks neither.

### DAQClient

`at` is where the program is: about to `send` a request or waiting in `recv`
for its answer, or in the event loop of `startRun` (`loop`, the loop condition;
`data`, in `recv` of the data socket; `test`, `if(g_stop)`; `write`, the rest of
the iteration). `Script` and `step` are the requests of `main`, in order; the
stop is the one that `startRun` adds when `g_stop` is set. `recv` fails with
the program's own signal (`Interrupted` sets `g_stop` with it) or for another
reason, at most `MaxSpurious` times; on the control socket nobody catches the
exception (`Abort`). A file is the list of entries of `log` with its number, each
with the bytes of events that the file has by then (`end`), so that the count
the code keeps (`file_size`, an `int` that wraps) can be compared with what is in
the file; the newlines, which the code does not count, are not in `end`.
`flushed` says how much of `log` is on the disk, where stdio's own flushing is a
choice (`Buffered`). An event is a member of `Event`; the size of its message is
chosen when it is written, from `Sizes`. `DiskFails` is a full disk: it lets
`fopen` fail, which `fwrite` finds as a null pointer, and lets the disk refuse
what stdio hands it in `fwrite`, `fputc` or `fclose`, whose results nobody looks
at (`Flush` sets the history variable `lost`). `log` is therefore what `fwrite`
was given; `ExitMeansRecorded` is what a reader
would conclude of it, and does not hold (section 3).

The first part of the module is the program alone; the second adds a server
that answers every request and an environment that delivers up to
`MaxArrivals` events. `BpmSystem` uses the first part only, and its theorems use
what is proved of that part (`ProgramInv`).

### BpmSystem

`me` is the peer that the present program is, `conf` its configuration. A
program that has ended takes its connections with it (`Depart`), and the next
one starts on whatever server it finds (`Launch`); both were left open by the
module of the server. `Kill` ends the server's process up to `MaxCrashes`
times. The program connects its data socket in the constructor of `DAQCtrl` and
libzmq completes this some time later (`Attach`); `EarlyJoin` says that it is
complete before the run starts. A signal may come at any time; when it interrupts
a program that waits for a reply, the program aborts, and may leave a request with
the server, or a run, to the next. `AbortAt` bounds for TLC at which requests this
happens; no theorem supposes anything of it. Two history variables say when what
relates a program to its run is off: `aborted` when a program was aborted, and
`forgot` when a server was killed between a program's first request and the
answer to its start (`Asking`), so that what the program configured is gone.

### Startup

`Steps` are the constructors in the order in which `main` runs them; devices
appear in groups at any time, before, between and after them. A missing UIO
device is printed and its pointer stays wild, or the lookup throws when there
is no `/sys/class/uio` yet; a missing DMA buffer exits; a missing bus is
printed. An access through a wild pointer faults or hits other memory
(`Access`), and polling other memory need not end.

### I2CDevices

`pc` is the point in `cmd_readTemp`: `start` (the write that starts conversion
`k`), `poll` (the loop over the ready bit), `reply`. `addr` is the device each
bus descriptor is set to, `sensor` the converter of each bus with its result
and ready bit, `dac` what each bias DAC puts out. Every transfer may fail, and
always does on a bus that was not opened. `setAddress` may be refused, and is
only printed (`i2c.h:68-75`): the transfer is then made with the device set
before (`SetAddress` is a set of outcomes). So a command for the sensor may come
to the DAC, whose answer to it is not in the sources (`Unknown`), a bias to the
sensor (`Disturbed`), and the loop may read the DAC (`Results`). The keys of a
configuration are optional, and what it leaves out keeps its value. The four bytes
of a result and their decoding are modelled as the code computes them; volts are
left out. `SetBias` makes both writes, as no other step can tell them apart.
`made`, `failed` and `given` are history.

### CppZmq

`msg` maps each `message_t` to nothing, a closed or empty message, or the block
of data it refers to, and `refs` is what libzmq counts for the block. `sock`
maps each `socket_t`, and the one in `monitor_t`, to its handle, and `home` the
handle to its context. `cobj` maps each `context_t` to a libzmq context (`Ptrs`),
of which there may be several, `ctx` says whether that one lives or was shut
down, and `closing` what a `context_t` in `close()` goes on to: nothing, its end,
or the swap with the other operand of a move assignment. `wire` and `route` are
the messages between sockets of a context. Moves, swaps, assignments, `rebuild`,
sends and receives are the actions; a call that throws without changing anything
is none. Whether a closing context ever returns depends on what the threads that
hold its sockets do, and nothing is said of it.

`CheckEvent` of `ZmqCalls` models `monitor_t::check_event`, where the event and
its address are two messages sent as one, so that the second is there when the
first is. `Written` of `ZmqOptions` is what libzmq puts into an option's
buffer, as its documentation and the wrappers agree on it.

## 3. What the runs show

| run | result |
|---|---|
| `two` | two clients that may die and send anything, a finite and an endless run, crashes: the inductive invariant `IInv`; the driver's copy fits the message; at most one event after a stop; settings fixed in a run; no receive while a reply is owed; `RunControl` implemented |
| `stop` | endless runs: a stop ends the run, and the run keeps moving although the data peer may never receive |
| `board` | triggered and free-running runs follow each other on one board: every event is one whole burst, in order, from all FIFOs; no trigger is merged with a kept one, although the test for it is commented out; two bursts in the FIFOs at most; the buffer is copied only when it is complete, synced and at rest; the ring is not rewritten under the engine; every wait without a timeout ends, but for that of a summing run without a chip |
| `ring` | all masks of four chips, two depths, death of the process anywhere: each FIFO once, abutting regions inside the synced part, no completed descriptor met |
| `files` | finite, endless and empty runs of the client program, signals and failing receives at any point, full files, a disk that refuses files and data: what `fwrite` is given is what was received; files change when they are full; a program that returns from `main` is through its triggers or has stopped the run; it ends when its events have come, and a signalled one with the next event |
| `system` | two programs on one server, signals that may abort them, one death of the server at any point. As long as none was aborted and no killed server forgot what it was told, each runs, and takes every event it records, with its own settings, records its own run from the first event without a gap, to the last if no signal comes, records no other run and leaves none behind. While the server lives and no program was aborted, programs do not make it throw, and each ends that stops its run or has a finite one |
| `peripherals` | devices in two groups that appear at any time, starts and restarts, transfers that fail or go to the wrong device, configurations that leave keys out: what serves has its DMA buffers, and everything if it started with everything; such a process comes up; a voltage is a conversion made for its command or the zero of a failed read; a DAC has ten bits of a bias meant for it, unless a command for the sensor came to it; `temp` ends unless a conversion was not started or the DAC was read |
| `zmq` | two objects of each class and two contexts, in any order of operations: reference counts are right, each handle and each context has one owner, and a context outlives its sockets |
| `stale` | violation: a run cut by a stop that was not meant for it |
| `wedge` | violation: a start during an endless run blocks the server for ever |
| `lost` | violation: a program whose data connection comes about after the start of its run waits for ever for the events it missed |
| `aborted` | violation: a program aborted by a signal while it waits for the answer to its start leaves its run behind |

Four more promises do not hold, and need no instance of their own: they are stated
in the modules, and fail when they are added to the `.cfg` of a run.

* `TempReplyIsOwed` (invariant, run `two`): an invalid temperature channel is
  answered, and then converted and answered again (`server.cpp:333-380`), which
  the REP socket refuses: the process dies. `DAQCtrl` asks for valid channels only.
* `ConfigFromItsClient` (property, `two`): with two clients one's next command is
  taken for the other's configuration (`server.cpp:294`).
* `ExitMeansRecorded` (invariant, `files`): a full disk loses events of a program
  that returns 0 (`DAQCtrl.h:19, 160-161`).
* `RecordsOwnSettings` (invariant, `system`): a server restarted between a program's
  configuration and its start runs with the constructor's settings
  (`server.cpp:188`), 1000 triggers where `client/config.yaml:10` has 100.

`StopEndsRun`, which `stop` checks of a server whose events arrive, fails in the
same way on `board`: a summing run without a chip waits for ever for its interrupt.

Bounds.

* Server (`two`, `stop`, `stale`, `wedge`): two chips (selections of
  none, one or both differ); `IntMax = 2`, so that runs of 0, 1 and 2 events,
  endless runs and the wrap of `iTrig` all happen; `HWM = 1`, so that full,
  empty and absent pipes all occur; two clients where interference is the
  question (a third adds no new partner: handlers wait for at most one further
  message) and one where it is not. Payloads are chosen so that a partial
  configuration keeps a previous value. Run `two` uses symmetry over the
  clients and checks safety only; besides the calls of `DAQCtrl` its peers send
  a bad channel and an empty message, and leave a `config` without its second part
  by dying.
* `board`: bursts are counted modulo `BurstIds = 4` and `iTrig` wraps in step
  with it (`IntMax = 3`: eight values): a burst skipped or read twice is seen,
  since at most two are in the board. Depths 1, 2 and 3 with masks of one and
  two chips give bursts of different length in sequence, so that a burst of one
  run is still in progress when the next is configured. `FifoCap = 5` lets a
  free-running board be two bursts ahead.
* `ring`: four chips, so that masks have gaps at either end and in the middle;
  its theorems hold for any number.
* `files`: runs of 0, 4 and endless triggers, `MaxArrivals = 4`, messages of 1
  and 2 bytes against a `MaxFileSize` of 3, so that files fill exactly, by one
  too many, and twice in a run; one failing receive that is no signal.
* `system`: two programs, of which the second finds whatever the first has left,
  aborted, stopped or complete. Runs of 2 and 1 triggers, triggered and summing,
  the second without a mask, so that the first one's stays; `HWM = 2` holds a whole
  run, so that a program is never too slow (with less it loses events and waits,
  which is what `lost` shows for another cause); one death of the server;
  `BootTriggers = 3` is more than any program's, as the constructor's are. Signals
  abort programs at `config`, which leaves the server waiting for a second
  message, and at `start`, which leaves it a run.
* `aborted`, `lost`: the same programs, with signals or without, and with a server
  that lives.
* `peripherals`: two groups, one with a single bus, so that the buses differ in
  what is opened; one result, negative and with bit 16 clear, which a sign taken
  from the wrong bit gets wrong: histories tell conversions apart, and the decoding
  is proved for every value; a mask that
  selects one bus, beside the constructor's that selects both; a bias for one bus
  that ten bits and one byte cut differently.
* `zmq`: one block, since blocks do not interact and `copy` makes two messages
  share it; two sockets, two handles, two `context_t` and two libzmq contexts, so
  that every move and assignment has a partner that owns something; one place
  for a message on its way; objects of a kind are symmetric. The functions
  without a state are checked for every small argument by the ASSUMEs of
  `MCCppZmq`.

Fairness.

* `FairSpec` of `Server`: weak for the acquisition thread and for the control
  thread's own steps: both are runnable OS threads, and the board and the sensor
  answer. Weak for `Restart`: systemd. Strong for receiving a given peer's
  message: a REP socket takes requests from its peers in turn. Nothing is
  assumed of clients or of the data peer.
* `RFairSpec` of `Readout`: weak for the acquisition thread, for the sequencer
  (its bursts are clocked) and for the CDMA.
* `FairSpec` of `DAQClient`: weak for the program, which is scheduled, and for
  the server's answers, which `RequestsAnswered` is about. `ServedSpec` adds
  that events come; both liveness properties say when they are needed.
* `SysFair` of `BpmSystem`: that of `Server`, weak for the program, and for
  `Attach`, as libzmq retries a connection for ever. None for signals, deaths
  or the launch of another program.
* `Spec` of `I2CDevices`: weak for systemd's start, for the process (not when it
  polls memory that is no engine), and for a conversion that was started. A
  read may fail any number of times.
* `CppZmq` has none.

What the properties of `system` suppose, and why the code does not
guarantee it:

* `~aborted`: a program that a signal aborts in its recv for the answer to its
  start leaves a run (`aborted`), and the next program records what comes of it;
  one aborted at `config` leaves the server waiting for a second message, and
  it takes the next program's command for it; one aborted at `bias`, or any other
  request, leaves that request, which the server may take between the next
  program's "config" and what follows. In the last two cases it parses a command
  as a configuration and dies of the exception, which is why
  `ServerOutlivesPrograms` needs this too;
* `~forgot`: a server killed and restarted between a program's configuration and
  its start runs with the constructor's settings (`RecordsOwnSettings`); that run is
  longer than the program, which leaves the rest of it, and the next program
  records that before its own run;
* `EarlyJoin`, in `RecordsOwnRun` by name, and for `EveryProgramEnds` in the
  `.cfg`: without it the first events are lost and the program waits for them
  (`lost`);
* `conf.ntrig \in 0 .. HWM` in `RecordsOwnRun`: a longer run may lose events to a
  slow program;
* `~stop` in `EveryProgramEnds`: a stop that a signalled program sends after its
  run has ended stays in `stop_`, cuts the run of the next program and makes that
  wait for ever;
* one program at a time: with two, one's second message can be the other's
  command (`ConfigFromItsClient`), which the YAML parser reads, and the handler
  throws when a number is asked of it.

## 4. What is proved

About the server, for every set of chips, peers and payloads, every int width
and high-water mark (assumptions: the ASSUMEs of `DAQThread` and `Server`, all
about types):

* `Inductive`: `Spec => []IInv`. `IInv` is `TypeOK` (`TypeCorrect`) with seven
  facts: the message being filled was allocated for the present settings
  (`RoomAllocated`); a late event exists only until `stop_` is tested again
  (`LateOnlyBeforeTest`); the loop variable's range (`LoopInBounds`); nobody
  resets the flag between the test and the reset (`ClearSeesStop`); between
  `cmd_start`'s calls there is no thread (`JoinedForStart`); therefore the
  driver's and the thread's settings agree during a run (`DriverAgrees`); no
  reply is owed at a receive (`NothingOwed`). `CopyFitsMessage` alone is not
  inductive: it needs the agreement of settings made by another thread several
  steps earlier, and that rests on the join;
* `CopyFits`, `StopsInTime`, `Alternation` follow from `IInv`; `ConfigFixed` is
  an action property;
* `RunRefinement`: `Spec => ImplementsRunControl`. `LoopInBounds` makes
  `EventsLeft` count down by one and never from zero, `ClearSeesStop` makes the
  cut consume a pending request.

Each proof splits a step of the server into what it does to the `DAQ_Thread`
object (`DAQStep`) and to the control thread and peers, so that the former is
argued once for all handlers (`DAQThread_proofs`).

About `Readout`, for every set of chips and their positions, any masks (the
empty one too), depths of one or more, finite, endless and summing runs, any
room in the FIFOs, and bursts counted over the wrap of `iTrig`:
`BoardInductive` (`RSpec => []RInv`), and from it `OneBurstPerEvent`,
`AtMostTwoAhead`, `HandedOver`, and the action properties `TriggersKept` and
`RingAtRest`. The parts of `RInv`, besides types and `DAQInv`:

* `SubAgrees`: which driver call goes with which point of the thread;
* `Configured`: ring, registers and buffer are those of the run's settings;
* `EngineAgrees`: where the engine is in the ring, whose the buffer is, and when
  the engine's interrupt is there;
* `BoardAgrees`: what is kept, in progress and let into the FIFOs at each point;
* `Accounted`: the words in the FIFOs are those of consecutive bursts that begin
  with the present event's, the last perhaps incomplete, and with the kept
  trigger they are those that were triggered and not yet read.

`EventIsOneBurst` alone says nothing about the FIFOs an event later; that no
trigger is lost rests on the count of `Accounted`, as the driver does not look.
By `ThreadOnBoard` every step of driver and board is a step of the thread as
`DAQThread` has it or none, and so the copy fits its message, a stop is followed
by one event at most and the settings stay fixed in a run on the board as in the
server, by the same lemmas about the thread.

About `SGRing`, for any number of chips, any mask and any depth: `RingCorrect`
(`Spec => []RingInv`), and from it `NoRefusal`, `FifosOnce` and `Regions`.
`RingInv` says what the loop has written after each iteration (`SlotsFilled`:
the FIFOs below `i` that are selected, increasing, each with its region and
link), which descriptors are marked (`Marks`) and where the engine is
(`EngineAt`); the order of the FIFOs shows that the last descriptor is the
timestamps', with its double length, and so that the regions abut. `RingBuilt`
ties the two modules of the ring together: what the loop has made when it is done
is a ring of `Readout`'s `Rings` (`RingsOf`, for FIFOs that are numbers), with
`nSGBuf_` the number of selected chips and one, which is what the thread's
`nchan_` and the size of its messages count on, and the engine reads a prefix of
it. The number of descriptors is a cardinality: the loop's descriptors but the
last are a bijection to the mask.

About `DAQClient`, for any run lengths, event sizes, file size and int width,
and any number of signals and failures: `ClientInductive`
(`Spec => []ClientInv`), and from it `RecordsReceived`, `CountsRight`,
`FilesRotate` and `RunStopped`. `ClientInv` is `TypeOK` and `ProgramInv`, which
speaks of the program only and is kept by its steps whoever answers and delivers
(`ProgramMoves`). `FilesRotate` rests on `CountsBytes`: `file_size` is what the
present file has (`Filled`), which the two can only be as long as the sum of an
event and a full file fits an `int` (`CountFits`). That what is written is what was received is not inductive by
itself: it needs what `request` holds at each point of the loop (`HeldInLoop`)
and which points are possible at which request (`Phases`), as the stop is
reached from inside the loop and the start's answer enters it.

About `I2CDevices`, for any results of the sensors, masks, biases and groups of
devices, with transfers that fail and addresses that are refused at any time:

* `DacHolds` from an invariant on the histories of biases and the arithmetic of
  `LowBits`, which is the remainder by 1024;
* `RepliesConverted`, and `FailuresZero` for failed reads: the decoding of the
  four bytes is the value that was converted for all 2^18 results, and between
  the start of a conversion and its reply the sensor has either that conversion
  or its result, so that a ready bit means what the handler takes it for, also
  when a bias came to the sensor before;
* `ServerIsWhole`: what each constructor has opened so far, by the position in
  `Steps`.

About `BpmSystem`, for any number of programs and deaths of the server, any
payloads that name `num_triggers` and `reads_per_trigger` (a program's
configuration does), any sizes and widths, with signals or without, and whichever
requests they abort, there are two groups of theorems.

Those of the first group are about what each part promises by itself, whatever a
program that aborted has left. `AnyInductive` (`SysSpec => []AnyInv`)
has the server's `IInv` and the program's `ProgramInv`. A step of the system is,
for the server, a step of `Server` or one that only the data connection sees, and
for the program a step of `ProgramMoves` or a new beginning; the proofs of
`Server_proofs` are used by EXTENDS and those of `DAQClient_proofs` through an
instance of that module (`Client`), with the server in the place of the
environment. From it: `ServerInSystem`, `SystemRefinesRun` (the composed system
implements `RunControl`) and `ProgramInSystem`.

`ProgramInSystem` says of a program that returns from `main` that it has stopped
what it did not complete; an aborted one does not return.

Those of the second relate the two, which is off once a program was aborted
while it waited for a reply; what happens then is in section 3.
`SystemInductive` is `SysSpec => [](~aborted => SysInv)`, and the properties name
that condition themselves, so that each theorem is `SysSpec => []P` for the
property that the run `system` checks.
`SysInv` is, besides `TypeOK`, `DAQInv` and
`BetweenEvents`:

* `Dialogue`: the present program's request is on its way, with the server,
  answered, or lost with a server that was killed, and where the server is in
  each case; no other program has anything under way. Program, server and the
  REP socket agree on who speaks, which is what `ServerOutlivesPrograms` needs;
* `Written`: what the program has written is the beginning of what it took;
* `StopAnswered`: "Stopped" is answered when there is no thread;
* `Settled`: from the configuration's answer on (`Told`) the server, and from
  the start on (`Own`) thread and driver, have the program's settings in every key
  it names, unless a killed server forgot them;
* `OfOneRun`: before its start (`Begun`) a program has nothing to receive and
  no event is owed; then what it took and what is under way (`Events`) is of
  this run, in order and below the thread's count; when it returns no event is
  owed. That the program is through its triggers only when the thread is, is the
  one arithmetic argument: the last of `n` events with increasing numbers is
  numbered `n - 1` or more and below `iTrig`, hence `iTrig >= n`;
* `OwnEvents`: lost or not, every event of the run was taken with the program's
  settings;
* `Connected` and `Complete`: with an early connection and room for the run,
  `Events` is every event up to `iTrig`.

From it: `StoppedIsQuiet`, `ServerSurvives`, `NoneLeftBehind`; `OwnSettings`, for
finite and endless runs, whatever room the pipe has and whenever the connection
comes about; `OneRunRecorded` for finite runs (an endless run's numbers wrap),
and `OwnRunRecorded` under `EarlyJoin`, for runs of up to `HWM` events. The last
one takes both groups: that the events recorded are the first of the run follows
from `SysInv`, that a program without a signal has all of them from its own count
in `ProgramInv`. With the repository's 100 triggers and libzmq's room for 1000
messages the condition on `HWM` holds; the code guarantees none of the others, and
section 3 shows what happens without them.

The first form of `SysInv` held in every reachable state and was not inductive:
`Dialogue` had to say which call a program is in when it sends, and `Told` from
where in the answer to "config" it counts.

About `CppZmq`, for any objects, handles, contexts and room in the pipes:
`HandlesAreOwned` (each open handle and each context has exactly one owner, a
context outlives the sockets made in it, a watched socket is one a monitor refers
to); and for any finite set of messages
(`ObjectsAssumption`) `BlocksAreOwned`: libzmq's count of references to a block
is the number of `message_t` objects and of messages on the wire that refer to
it, by the library's theorems about cardinality: each operation adds one to the
set of holders or takes one from it. About the functions without a state:
`AdvanceKeepsEnd`, `TwoParts` and `ViewsBounded` for any addresses and sizes.

`RInv`, `SysInv`, `AnyInv` and `RingInOneStep` are stated in the modules of their
proofs. TLC checked each, before it was proved, on the instance of the run of its
module (`board`, `system`, `ring`), with a module that extends the one of the
proofs.

## 5. Only model-checked, and not modelled

Liveness (`StopEndsRun`, `ImplementsRunControlLive`, `EventsArrive`,
`EndsWhenServed`, `SignalEndsAtNextEvent`, `EveryProgramEnds`, `ComesUp`,
`TempEnds`) is checked by TLC only: fairness and ENABLED are out
of the prover's reach. Every invariant and action property of the passing runs is
a theorem, under the conditions that section 4 names. Of the functions of cppzmq
without a state, `check_event` called again and again and the options are checked
by the ASSUMEs of `MCCppZmq` only, and so are results and optionals: the first is
an induction over the events, the second read and write bytes of strings, the
third are what their definitions say. `OwnRunRecorded` does not extend beyond
`HWM`: a program that is too slow loses events there, and what is left,
that the events are of its run, in order and with its settings, is
`OneRunRecorded` and `OwnSettings`.

Not modelled, and why:

* sample values, ranges and channel masks of the converters, and the analysis
  notebook: data that nothing branches on;
* `test.cpp`: a benchmark of the driver that is not part of the acquisition and
  has no state;
* of `UIO`, the constructor by address, `read` and `write`, and of `DMACtrl`
  `transfer`, `keyholeWrite` and `sgBufError`: nothing calls them; the
  destructors of the mappings run when the process ends;
* of cppzmq, the poller (a draft interface that is not compiled in), proxies,
  comparison, hashing and printing, and the move of a monitor; the semantics of
  sockets is libzmq's and is in `Server`, `DAQThread` and `BpmSystem` as the
  programs use it;
* the overflow of FIFOs in free-running mode and a request beyond the DMA
  buffer: the sizes are known to the hardware design only. A depth of zero or
  one that does not fit is therefore outside `SGRing`'s assumptions;
* build files.

## 6. What could come next

1. What holds of the programs after one that was aborted: an invariant that admits
   a server with a dead program's request or run. `AnyInductive` has what holds
   without it.
2. `Rings` of `Readout` as an instance: `RingBuilt` restates it for FIFOs that
   are numbers, as `SGRing` has no names for chips.
