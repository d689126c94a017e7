# TLA+ models of the Glasgow and C232HD UART tools

This directory specifies the concurrent and the failing parts of the Rust code
in `src/uart` and of the commands in `src/bin`: the session that pumps bytes between a
caller's streams and a UART, the three backends (a Glasgow over its management
pipe, a C232HD over direct USB or the operating system's serial driver), the command
around a session, and the build of the resources it embeds. TLC checks every model on
small instances. TLAPS proves the central results for every instance.

    tlc -workers 2 -config session_stream.cfg MCSession      # one run
    tlapm SessionProofs.tla                                  # about 3 minutes
    tlapm GlasgowProofs.tla                                  # about 2 minutes
    tlapm UsbProofs.tla                                      # about 2 minutes
    tlapm TransmitProofs.tla                                 # about 80 seconds
    tlapm VcpProofs.tla                                      # under a minute, as are
                                                             # CommandProofs, ResourceProofs
                                                             # and SequenceLemmas

## The system

| Component | State it keeps | Operations | What makes it correct |
|---|---|---|---|
| `session.rs` | a coordinator's locals, two worker threads, an unbounded `mpsc` channel, a shared output mutex, a cancellation flag, atomic counters | `run_session_observed`, `CancellationToken::cancel` | no byte lost or repeated, no error swallowed, success only when drained and delivered, the call returns |
| `telemetry.rs` | the observer's sink | one call per phase, one line per call | Running, at most one Draining, then Final; counters that never go back and agree with the value returned; a record of the exit status |
| `transport.rs` | the `Transport` trait, a cancelled flag in a `Port` | `read write submit_tx drain cancel counters`, the `io::Read` and `io::Write` of a clone | partial completions are counted once; only what may be retried is reported as such; `cancel` unblocks, `drain` is bounded |
| `glasgow/management.rs` | a serial number, a command/response pipe, the FX2 upload | `command` and about a dozen commands, `load_firmware`, `load_bitstream` | an answer belongs to its command; a device is used only with our firmware and bitstream |
| `glasgow/transport.rs` | the cleanup guard, baselines, the time of the last poll | `open`, `baud_divisor`, `refresh_counters`, `drain`, `Drop` | the supply goes off on every way out; counters count from open; drained means idle |
| `c232/usb.rs` | a queue of bulk-IN transfers, kept payload, last line status, the kernel driver's binding | `open`, `read`, `write`, `drain`, `cancel`, `Drop` | bytes in order, queue always full, the driver given back |
| `c232/vcp.rs` | two handles of an OS serial port, each under a lock, a flag | `list_devices`, `select_device`, `open`, `ftdi_high_speed_baud`, the trait | the cable opened is the one selected; the rate reported is the one the chip makes; a drain covers what was written |
| `c232/mod.rs` | none | dispatch between the two backends, error categories | one error, one category |
| `src/bin` | the terminal's mode, the event log, the signal handler, the exit status | `console`, `stream`, `list` | the terminal is restored, log and exit status agree, a signal is not lost |
| `gateware/build_uart.py`, `build.rs` | one output directory with a cache file, a staged and a backup directory per process | `cache_valid`, `build_all`, `replace_directory`, `main`; reading of manifests and bitstreams | the directory is one whole build or absent; what is reused or embedded belongs together |
| `gateware/` | a UART with two FIFOs and three registers | registers read over the management pipe | the idle bit and level tell when the line is idle |
| `glasgow/device.rs` | none at run time | listing, resource table | pure |

How they meet: a command validates its options, installs its signal handler, creates
the event log, opens a port, puts the terminal into raw mode and calls
`run_session_observed` once, with a reader and a writer of its own and a transport; the
handler holds a clone of the session's cancellation token, and the log is the session's
observer, a callback of the coordinator. The coordinator starts an RX and a TX
thread that share the transport (calls), the output (a mutex), the flag and the
counters (atomics), and report to it through the channel (messages). A Glasgow
transport talks to its device with
commands over one USB pipe that three threads share under a mutex; a C232HD
transport over direct USB shares its read queue between the RX thread and the
coordinator's `cancel`, and its writer between all clones of a `Port` (a mutex); over the
serial driver it has a locked handle in each direction, and a drain competes with writes
for one of them. Builders of the
resources and the cargo builds that read them meet in a directory, with no lock.

What is hard: a shutdown that any of three threads, two timers and the caller can
begin; threads that panic or never start; a signal before anyone listens; transfers that
complete in part and
fail; answers that arrive after their command gave up; a device that goes away to
come back with another firmware; cables that change ports between being listed and
being opened; guards that undo what was done on every error
path; errors of one caller's bytes that another caller is told; builders that swap a
directory under each other and are killed between two renames. `PROJECT.json` lists each
at its line under `hazards`, with the properties that would catch it.

## Modules

    SessionState --+-- SessionCoordinator --+
                   +-- SessionTx -----------+-- Session --+-- SessionClaims ----+-- MCSession
                   +-- SessionRx -----------+             +-- SessionInvariant -+-- Command
                           SessionContract (INSTANCE) ----+          |                |
                                                               SessionProofs          |
    Command --+-- MCCommand                                          |                |
              +-- CommandProofs (also EXTENDS SessionProofs) --------+----------------+
    UsbState -- UsbPort --+-- MCUsbPort
                          +-- UsbProofs (EXTENDS SequenceLemmas)
    Transmit --+-- MCTransmit
               +-- TransmitProofs (EXTENDS SequenceLemmas)
    Baud -- Vcp --+-- MCVcp
                  +-- VcpProofs
    ResourceBuild --+-- MCResourceBuild
                    +-- ResourceProofs
    Management -- GlasgowState -- Glasgow --+-- MCGlasgow
                                            +-- GlasgowProofs

Every module is `EXTENDS`, except that Session instantiates SessionContract as its
abstract specification. The definitions marked *Mutant* are plausible bugs: each is
what one operation of the code would be with a guard dropped, an order swapped or a
reset missing, and a run of TLC with the mutant in place of the operation violates
the property named with it in `PROJECT.json`. No specification uses them.

### Session: `src/uart/session.rs`

One module per thread, and one action per step that another thread can observe. `co`,
`tx` and `rx` are program counters.

* The coordinator (`SessionCoordinator`): `co` goes from `start` (Running observed) over
  `spawn_rx` and
  `spawn_tx` (with `abort` when the second thread cannot start) to the loop of
  `poll` (the flag, the RX-idle timer, the join deadline) and `recv`
  (`recv_timeout`), with `observe` for the Draining callback, and out of it over
  `join` and `join_rx` to `final` and `done`.
* The TX worker (`SessionTx`): `check` (flag, escape, end of input), `read` (the caller's
  reader), `echo` and `echoing` (console only, under the output mutex), `write`
  and `writing` (`write_transport`, one call per iteration), `drain`, then `send`
  and `stop` for its two events.
* The RX worker (`SessionRx`): `check`, `reading`, `output` and `outputting` (the mutex,
  then the caller's writer), `error` and `stop` for its events.
* Data are counts. A chunk of input is the number of bytes before its first Ctrl-]
  and from it on, which is all that `process_input` looks at. A failed transfer
  is `retry` (Interrupted, WouldBlock, TimedOut) or `fatal`, which is all
  that `map_transfer_failure` leaves. Formatting of events and errors is left out.
* Time is in ticks: `deadline` is what is left until `join_deadline`, `quiet` the time
  since the last activity, both saturating.
* `submitted`, `consumed`, `taken`, `byCaller` and `log` are history.

`SessionContract` is what the call promises its caller and observer, with no
threads: which events are observed, in which order, with which counters, and how the
value returned follows. `ContractSpec` says that Session implements it (the
refinement mapping is the identity on `log` and `result`, `closed` is `co = "done"`).

### Command: `src/bin`, `src/uart/telemetry.rs`

The process around a session. `cmd` is the step of `main` and `run`: `Validate` (the
selection of a device and the options), `InstallCtrlC`, `OpenLog` (`CliObserver::open`),
`OpenPort`, `EnterRaw` (`RawTerminalGuard`, console only), `RunSession`, and then the
locals of `run` in reverse order, `DropTerminal` and `DropObserver`, and `Main` for the
exit status. `RunSession` is one step of Session with what the log does in it: a line
that was written and flushed is in the file (`disk`), a line that failed stays in the
`BufWriter` and is tried again when that is dropped. `Signal` is SIGINT after the handler
is installed, `SignalKills` before. The Final record holds the code of `error_exit_code`,
the process ends with that of `exit_code`: two tables in two files.

### UsbPort: `src/uart/c232/usb.rs`

`open` takes the interface from the kernel driver (`Detach`, `Reattach`, `Setup`, and
`Abort` for the error path), the RX worker reads (`ReadCheck`, `ReadLock`,
`ReadPending`, `ReadTimeout`, `ReadCompletion`), the coordinator cancels (`CancelFlag`,
`CancelAll`), `Drop` releases and restores (`Release`, `Restore` with its tries). A
byte is its number in the order the device sent it. A packet is the bits set in its
status header and its bytes, so `strip_ftdi_status_from` is modelled by what it does.
The packets of one transfer are numbered from one another (`Offset`), so that the split of
the stream into packets and transfers is free.

### Transmit: `src/uart/c232/usb.rs`, the write side, and the clones of `transport.rs`

Each clone of a `Port` belongs to one thread and makes one call at a time: `WriteCall`,
`Lock`, then `WriteReaps`, `WriteTimeout` or `WriteAccepts` are `write`; `SubmitCall`
and `Submit` are `flush` of the port; `DrainCall`, `FlushSubmits`, `FlushReaps`,
`FlushTimeout`, `FlushEnds` and `Status` are `drain`, which holds the write lock while
it flushes and not while it polls the transmitter; `Cancel`, `Leave` and `Drop` are
what their names say. A byte is its number in the order of acceptance. `patience` is
the timeout that the shared writer has, which `drain` lends it.

nusb's `EndpointWrite` is external and modelled from how `write`, `submit_tx`, `drain`
and `Drop` use it: a buffer that becomes a transfer when full, transfers that complete
in order, an error that waits until a call reaps its transfer.

### Vcp and Baud: `src/uart/c232/vcp.rs`, `transport.rs`, `glasgow/transport.rs`

`ReadMetadata`, `ReadLink` and `Listed` are `list_devices`, port by port as it reads
sysfs and `/dev/serial/by-id`; `Select` is `select_device`; `Open` is
`VcpTransport::open`. `Replug` moves, plugs or unplugs a device between any two of them,
and a port's name is then another device's. Afterwards each clone of the port makes one
call at a time: `ReadCall`, `ReadLock`, `ReadReturn`; `WriteCall`, `WriteLock`,
`WriteReturn`; `DrainCall`, then `DrainPoll` and `DrainNap` until `Expire`. `Cancel` sets
the flag and no more. `Answer`, `IoOutcome` and `IoFailure` are what the `io::Read` and
`io::Write` of a `Port` make of the library's errors. `LineSends` and `Unplug` are the
kernel and the cable. Bytes are counted.

`Baud` has the divisors as pure operators: `GlasgowDivisor` is `baud_divisor`,
`FtdiDivisor`, `FtdiActual` and `FtdiEncode` are the tiers of `ftdi_high_speed_baud` and
its encoding. The reference they are compared with is what the chip makes of the code
(`FtdiDecode`), a distance below 2.01% for a rate that is taken (`Close`), and for one that is
refused that no divisor reaches it (`Reachable`). TLC compares them at every rate where a
rounding or the 2% limit changes its mind (`Near`), the proofs at every rate on offer.

### ResourceBuild: `gateware/build_uart.py`, `build.rs`

Each builder runs `main`, one action per system call that another process can notice:
`Start` (Python imports the sources), `Digest`, `ReadCache` and `ReadArtifact`
(`cache_valid`, file by file), `Stage`, `BuildRevision` and `WriteCache` (`build_all`),
`CleanBackup`, `Look`, `Move`, `Install`, `Rescue`, `Restore`, `Discard`
(`replace_directory`) and `Cleanup`. `CargoList`, `CargoManifest` and `CargoBit` are
`build.rs`. `Edit` changes the inputs and `Kill` ends a builder, at any moment. A
version stands for the contents of the inputs and for what a build of them yields, so
that a digest is a version and a directory the version of each file in it. The
directory is one of a checkout (no cache file), a build, a damaged build, or absent.

### Glasgow: `src/uart/glasgow/management.rs`, `transport.rs`

`Management` is the pipe alone: commands with serials, answers in order, a timeout
that leaves the answer in the pipe. `Glasgow` adds what the commands do to the device
and to the host: `life` is the step `open`, `SetupCleanup` or `Drop` is in, `step[c]`
where a worker is in `refresh_counters` or `drain`, `poll` and `mgmt` who holds
`last_counter_poll` and `management`. `Effect` and `Replies` are the Glasgow's
firmware and `Gateware` the repository's gateware, both as the host uses them.

## What the runs show

The passing runs have every fault of their environment switched on, unless noted.

| Run | What it shows | Bounds |
|---|---|---|
| `session_stream` | safety of a stream session, that it implements the contract, and that it returns if its caller does | 2 bytes each way, chunks of 1 and 2 bytes, timers of 1 tick, no panics |
| `session_console` | a whole console command: the inductive invariant of the proofs holds in it, the terminal, the log, the status and the signal | the same, with panics |
| `session_shutdown` | only the caller's own calls hold up a session whose flag is set | 2 bytes out, 1 in, with panics |
| `usb_port` | order, queue, counters, driver, and that cancel and read do not wait for each other | a queue of 2, buffers of 2, transfers of up to 2 packets, 2 transfers filled, 2 attempts |
| `glasgow` | the pipe, setup and cleanup, drain, counters | 2 serials, 9 commands, 2 failures, 1 poll, 1 error, 1 byte |
| `transmit` | order, loss and drain over one queue that two clones share, and that every call returns | 2 clones, 4 calls, writes of 1 and 3 bytes into buffers of 2, 2 transfers, a FIFO of 2 |
| `vcp_port` | which cable is opened at which rate, retries, drains, cancellation, and that every call returns | 2 cables and a foreign device on 2 ports, one of each with a link, 2 clones, an output queue of 1, 2 bytes, 2 changes of place; divisors 1 to 10,000 |
| `resource_build` | two builders and a cargo build over one directory | 2 runs, 2 versions, 2 revisions, 3 failures |

Why the bounds are enough to meet the interesting cases:

* Two bytes make a partial transfer and a retry of the rest (and, with a chunk of
  two, Ctrl-] in its middle); the third byte of a chunk meets nothing new, because
  `write_transport` looks only at what is left. One tick is enough for either timer to
  expire before or after any other event, as `Tick` is not tied to any of them.
* A transfer of two packets and two transfers give an edge within a transfer, across
  transfers, a packet of status only, a payload larger than the buffer, and a failure
  with a good transfer before or after it.
* Two serials make the number wrap after two commands, so that an answer two commands
  late has the right serial again: `AcceptedIsOwn` is about fewer failures than serials,
  and with two failures the run crosses that limit. `MaxCommands` lets
  the refreshes of both threads and the drain begin after a setup without an upload;
  setups with an upload have every step of open and its cleanup.
* Writes of 1 and 3 bytes into a buffer of 2 fill it in part, to its end and past it;
  two transfers make a full queue, on which a write waits for another clone's transfer.
  Four calls are write, write, drain of one clone and a call of the other between them.
* Two cables, of which one has a link, and a foreign device on two ports make a choice, a
  choice by serial, by port and by link, and no choice at all; two changes of place swap two
  devices. An output queue of one byte is full while another byte waits.
* The rates that TLC tries are those next to the places where a rounding or the 2% limit turns, for each
  divisor down to 9,600 baud: 5,000 of the Glasgow's clock, 10,000 of the FTDI's.
* Two builders are the rivals of each other; a third would do what the second did. Two
  runs let one builder be killed and another start under its process id, three failures
  allow a rename to fail, its rescue to fail and the clean-up to fail. Two versions
  tell a build of the old from one of the new sources, and inputs change once.

The claim runs check one sentence of a document or comment each, and TLC finds it
violated. See *Findings*.

### The properties

Session. `Conservation` and `CompletedMeansDrained` (a part of `IInv`) relate the
counters to what was really transferred. `SuccessIsComplete` and `ErrorsSurface` say what
Ok means, in any order of errors, stops and cancellation. `NormalStopIsDrained` says what
the stop reasons mean although workers go on while they are made. `ContractSpec` is the
contract. `Terminates` and `ShutdownWaitsOnlyForCaller` are the liveness. Five more are
stated in `Session` and proved without a run: `DrainingIsExact` and `FinalIsFinal` (what
the events say stays true), `NothingUnsubmitted` (the flush before a blocking read),
`FirstErrorStands` and `CancelStopsTraffic` (restrictions of steps).

Command. `CommandInv` holds the types and `TerminalRestored`: raw for the session of a
console alone, cooked on every way out. `ExitMatchesLog` relates the file, its Final
record and the exit status through both tables of codes, although any line may fail.
`SignalIsRemembered` says that a signal before the session does not end in success,
although the workers may see the flag before the coordinator does.

UsbPort. `PortInv` holds the types, `QueueStaysFull`, `FailureHasCause` (when a read may
fail) and `DropPersists`; it, `BytesInOrder` and `CountersAreEdges` hold across every read
and error. `DriverRestored` is the hand-over of the interface. `CancelEndsRead` is the
liveness.

Transmit. `WriterInv` holds the types and `OwnPatience`: the drain's timeout is in force
only while it flushes under the lock. `BytesInOrder` says that wire, shifter, FIFO and queue
together hold every accepted byte that was not lost, once and in order, whatever fails or
times out. `DrainCovers` is what Ok of a drain
means to all clones, `LossIsReported` where an error may be until a call returns it.
`CallsReturn` and `SubmittedLeaves` are the liveness.

Vcp. `OpensSelected` says that the cable opened is the one selected although names change
hands, when it has a link and the listing was not raced. `RatesAreHonest` relates the
rate that is reported to what the chip makes of the divisor, and says of the rule that took
it what it takes and refuses of all others. `VcpInv` holds the types, the use of each handle under
its lock, and `RetryIsHonest`: a session retries for ever what is reported as transient,
so a cable that is gone must not be. `DrainCovers` is what Ok of a drain means to all
clones. `CancelQuiesces` and `CallsReturn` are the liveness.

ResourceBuild. `OutputIsWhole` is what readers rely on,
`MissingOnlyInside` and `SomeCopySurvives` what failures, rivals and kills may do to the
old directory, `ReuseIsCurrent` what a valid cache means although it is read file by
file. `BuilderInv` holds the types, `EmbeddedPairs` (a manifest and its bitstream belong
together), `LeftoversHaveCause` (no directory stays behind
without a cause), and that what is installed is the builder's own whole build.

Glasgow. `AcceptedIsOwn` is the pipe's promise. `ReadyMeansConfigured` and
`FirmwareFirst` (in `SetupInv`, with the types) say what a successful `open` means
although answers were refused, late or lost. `SupplyOffAtEnd` is the cleanup,
`DrainMeansIdle` the drain, `CountersAreSinceOpen` the counters under two readers.
`SetupEnds` says that none of the three polling loops of `open` lasts for ever.

### Fairness

* Session: a thread that can run does (weak fairness of every step that is the
  session's own, the mutex of the output included: it is held by a thread
  that is in the caller's writer, and nothing is assumed of that). Time passes. The
  transport keeps the two promises of its trait: after `cancel` its reads and writes
  return, and `drain` returns within its timeout. Observers return. Nothing is assumed
  of the caller; `CallerFairness` is the assumption of `Terminates` alone, and says
  that the reader ends, the writer accepts and the transport takes bytes now and then.
* UsbPort: threads run and the USB stack answers. The device may stay silent.
* Transmit: a call that has begun goes on, and a clone that waits for the lock gets it
  in the end (strong fairness of `Lock`: parking_lot's mutex hands itself over when a
  thread has waited long). The device may stop; only `SubmittedLeaves` has a premise
  that it runs. No clone is made to call anything.
* Vcp: a thread inside a call goes on, under the same fairness of its locks (strong
  fairness of `Work`), because the library's calls end by their own timeout; a drain's
  deadline passes. The line may stand still, and nobody is made to call, cancel or unplug.
* Glasgow: the host's threads run and the device takes commands up. Whether an answer
  comes in time is open.
* ResourceBuild and Command have no liveness: builders may be killed, and what a command
  waits for is what its session waits for.

## What is proved

Each theorem holds for every value of the constants that satisfies the named assumptions
of its module: bounds and timers are naturals, sets of names do not meet (`NameAssumption`,
`LockAssumption`), a chunk is not empty, a pipe has at least one serial
(`PeriodAssumption`), the idle bit is above every FIFO level (`GlasgowBounds`). Each rests
on an inductive invariant; one lemma for each action shows that it is preserved, with one
step for each part that the action disturbs.

**Session** (`SessionProofs`). `Invariance` is `IInv` of `SessionInvariant`; from it
follow `TypeOK`, `CompletedMeansDrained`, the properties of `session_stream` without the
liveness, and the five that have no run.
They are not inductive by themselves. `ErrorsSurface`, say, needs to know
that an error which the coordinator has not seen is still in the channel *before* the
stop event of the same worker: that is `ErrorInv`, and it rests on `QueueInv` (what the
channel holds was sent by the worker that sends it, once and in order), which rests on
`TxInv` and `RxInv` (a worker has a result exactly from the end of its loop on).
`SuccessIsComplete` needs that until a stop condition is reached only the caller or an
error sets the flag (`CancelInv`), because `write_transport` gives up silently when the
flag is set.

`SessionImplementsContract` proves the refinement: initial states map to initial
states, and each step to a step of `SessionContract` or a stutter. It needs `ContractInv`:
the counters in a call that the observer has seen are never ahead of those of the session,
which only grow (`Behind`, `Grows`), so that the counters of successive calls never go back.

**Command** (`CommandProofs`). Every step of a command is a step of its session or leaves
it alone (`CommandRunsSession`), so all that is proved of Session is true in it.
`CommandIInv` adds what the process knows: that before the session nothing has run
(`PhaseInv`), that the file has every line as long as none failed (`FileInv`), that the
record of a Final call is the code of the error returned (`RecordInv`), and that a session
whose flag was set before it began cannot lose it before its end (`EarlyInv`).

**Glasgow** (`GlasgowProofs`). The pipe first, for every number of serials: an accepted
answer is the command's own while fewer commands than serials ended without an answer
(`AnswersAreOwn`), and every step of `Glasgow` is a step of `Management` or leaves the
pipe alone (`UsesPipe`, `SessionAnswersAreOwn`). Its invariant `PipeInv`
has two laws. `Law`: a command's serial, counted on to the next command, gives the next
serial, modulo the period. `Lag`: what is in the pipe is behind by at most the number of
commands that failed. Fewer failures than serials and equal serials then leave one
command only. With `u8::MAX` serials: 254 lost answers are harmless.

Then the device, by `GlasgowIInv`. `open` goes on only while nothing has failed, so the
pipe holds its own command and no other (`Undisturbed`), and an answer that was true of
the device when it was sent is true when it is read (`OwnAnswer`), because the counters only
grow and what a command has set stays set: `Progress` says what that is at each step of
`open`, and at its end it is `ReadyMeansConfigured`. For `SupplyOffAtEnd` the guard knows of
the supply (`vio`), and the command that switches it off is yet to come, in the pipe, lost, or
has worked (`SupplyInv`). For `DrainMeansIdle` an answer with the idle bit stays true on its
way to the host, because no byte is sent after the flush (`IdleInv`).

**Transmit** (`TransmitProofs`), for any number of clones and transfers. `Located` says
that every byte accepted is in the buffer, in a transfer under way, on the device or lost; `RoomInv` that a
buffer in use has room in the queue; `LossInv` and `DrainInv` what a lost byte means to
an error in the queue and to a drain under way. `OrderInv` is `BytesInOrder` for the bytes
in the order in which they will leave: a byte that moves on leaves that sequence
alone (`PartsAt`: the transfer that completes is the oldest, so its bytes come first), an
accepted byte is greater than all and goes to its end, a failed transfer cuts a stretch out
of it (`OrderCut`), and `Drop` its end.

**UsbPort** (`UsbProofs`), for any number of transfers and packets. `LifeInv` relates the
step of `open` and `Drop` to who owns the interface; `QueueInv` the transfers in flight to the
reader's step, with the cause of each failure. They give `DriverRestored`; with the types they
are `PortInv`. `DataInv` adds the stream. What the reader was handed, has kept and has in its
queue is, transfer by transfer, the concatenation of the payloads, and the numbers in it rise:
a new transfer is numbered from `produced` on (`NumberedFacts`), one that is read moves its
payload from the queue to the reader (`HandOverFacts`, `Taken`). `FreshInv` says that nothing
has moved before `open` is through, `ReaderOpen` that only an open port is read. `LineInv` says
that the line status remembered is the header of the last packet seen, without which the
count of rising bits (`RaisingGrows`) would be off at the border of two transfers.

**Sequences** (`SequenceLemmas`). Induction over naturals and over the length of a sequence is
proved for sets (the least number outside a set has its predecessor in it), which needs no
operator as a parameter: for a given sequence the indices at which a statement holds are a
set. From it follow what `FlattenSeq`, `Between` and `ToSet` make of a concatenation, where in
a concatenation an index lies (`FlattenAt`), and which concatenations and cuts of rising
sequences rise (`IncreasingConcat`, `CutIncreasing`).

**Vcp** (`VcpProofs`), for any devices, ports and clones. `ListInv`: without a race each
record has the serial of the device that its link leads to. `DrainInv`: what a drain has
marked is in the queue or was sent. `RateInv`: the metadata of an open port is that of a rate
that was taken.

**Rates** (in `VcpProofs`), for all 11,990,401 rates on offer and every divisor
(`GlasgowRates`, `FtdiRates`, and from them `RatesHonest`). A rate taken is within 2.01% by
the law of the two divisions with remainder (`BasisPointsFacts`). A rate refused has a
nearest divisor of at most 24 (`RefusedIsSmall`), because beyond that rounding the divisor and
then the rate cannot miss by 2%; and for such a rate the divisor below is too fast and the
one above too slow by more than 2% (`NoOtherReaches`). Between 24 and 25 that is a matter of
less than a hertz, and the proof needs that 25 divides both clocks.
`FtdiCode` is the chip's decoding of every divisor.

**ResourceBuild** (`ResourceProofs`), for any number of builders, revisions and versions.
`LocalInv` says what each builder holds at each step, `CacheInv` that a cache file
describes the build that it lies in, `BackupInv`, `CauseInv` and `CopyInv` where the old
directory is and why one was left behind, `CargoInv` what a cargo build has read.

Only model-checked: liveness (`Terminates`, `ShutdownWaitsOnlyForCaller`, `CancelEndsRead`,
`CancelQuiesces`, `CallsReturn`, `SubmittedLeaves`, `SetupEnds`) and what needs `ENABLED`, as
deadlock: the installed provers have no rule for fairness. Every invariant and every property
of steps that a passing run checks is also proved.

## Findings

Each has a run that refutes the sentence quoted.

1. `claim_bounded_shutdown`: "after bounded shutdown" (`session.rs:552` and `570`). A TX
   worker in `input.read` is never woken: Ctrl-C with an idle stdin never returns. When the
   join deadline passes the coordinator records an error and goes on waiting, and after RX
   idle it does not even pass: every turn of the loop starts it anew (`session.rs:488`).
2. `claim_usb_cancel`: "Device or driver access failed" (`transport.rs:44`). A read that
   `cancel` overtakes between its test of the flag and the lock reports Access for the
   cancelled completion of its own transfer, and a good session may end in an error.
3. `claim_vio`: "Preserve cleanup and VIO-disable behavior on setup failure and drop"
   (`.omp/plans/LIBRARY_API_REFACTOR_REFACTOR_PLAN.md:49`). `vio_enabled` is set after
   both commands of the profile, so a failure between them leaves the supply on.
4. `claim_cancel_drain`: "Cancellation stops new input, drains submitted TX within the
   configured bound" (`docs/uart-plan.md:116`). A TX worker that sees the flag skips the
   drain (`session.rs:275`), and the coordinator cancels the transport. The session does
   tell it: its counter of completed bytes stays below the accepted ones.

Seen while modelling, and not carried as runs:

* Session. A worker that panics sends no event, and the session goes on without it until
  something else ends it (`session.rs:389`, `537`). A cancellation that the workers notice
  before the coordinator, or that comes during the quiet interval, may return Ok, where exit
  code 5 is "Timeout or cancellation" (`docs/uart-plan.md:87`). The RX-idle interval is
  measured from the last completed write to the output, so a slow consumer looks like a
  quiet line. The event channel is not bounded, where `docs/uart-plan.md:113` bounds
  internal buffers to 64 KiB.
* Command. A Final line that failed and is written when the `BufWriter` is dropped says
  `exit_code` 0 though the process exits with 3. A failing event log ends the session, where
  `README.md:148` says that logging "never changes UART payload output"; an old log is
  emptied before the port is opened, and records have no error text
  (`docs/uart-plan.md:90`). SIGTERM and SIGHUP are not handled and leave the terminal raw,
  where `docs/uart-plan.md:74` restores it "on every exit path". The report of a console is
  printed while the terminal is still raw.
* Vcp. With `--port`, or for a cable without a link, the device opened may be another than
  the one selected. `cancel` interrupts no call and `drain` ignores it. The drain covers the
  output queue of the operating system and nothing behind it (as `docs/uart-plan.md:102`
  says). A port whose flag is set stays cancelled for a second session, though a port is
  "reusable" (`transport.rs:127`).
* Baud. The 2% limit is tested on basis points rounded down, so that rates that miss by
  up to 2.01% are taken (17,421 of the Glasgow's, such as 1,960,593 as 2,000,000; 9,632 of
  the FTDI's), where the plan of `.omp/plans/` says "no more than 2% error". The FTDI's tiers
  refuse 7,843,138 to 7,999,999 and 11,764,706 to 11,999,999 though the tier above is within
  2%.
* Glasgow. After the FX2 upload one sight of the old descriptor fails `open` at once with an
  API error, where `docs/uart-plan.md:98` describes a bounded wait. One late answer leaves
  the management pipe off by one for the rest of the session, so that even the commands of
  `Drop` get foreign answers, and after the first of them has failed the pulls stay on.
* Transmit. The error of a failed OUT transfer may be returned to a clone whose own bytes
  are safe.
* ResourceBuild. The digest of the inputs is taken after their import, so that an edit in
  between stores the old build under the new digest (`ReuseIsCurrent` excepts it). A builder
  killed between its two renames leaves no output; one overtaken by a rival leaves its
  `.old-<pid>` directory behind.

## Abstractions and what is not modelled

* Constants that bound a model only: `MaxTx`, `MaxRx` (Session), `MaxSent`, `MaxPackets`
  (UsbPort),
  `MaxCommands`, `MaxFailures`, `MaxPolls`, `MaxCount`, `MaxTx` (Glasgow), `MaxCalls`
  (Transmit), `MaxBytes`, `MaxPlugs`, `Divisors` (Vcp, Baud), `MaxRuns`, `MaxFailures`
  (ResourceBuild). Deadlines of
  `open` and of the drain are choices of the environment: a poll that fails its test
  either goes on, within the bound, or finds the deadline passed.
* The transport below Session delivers any number of bytes up to what was asked for, or
  claims one too many when it is faulty, and fails in any way its trait has. Session is
  therefore checked against a weaker transport than any backend.
* In Command the line of an event is whole or missing; `list`, which only prints, the
  parsing of arguments and signals other than SIGINT are left out, as are a `stderr` that is
  closed and a terminal that refuses to be restored.
* In Vcp what the library knows of all ports is one enumeration, and what it does not know
  is read port by port from sysfs. Once a port is open only its own device matters. A call
  of the library moves bytes, or ends by timeout, by a signal, or with an error.
* Both data endpoints of the Glasgow are buffers of the `nusb` library; they are the
  transport of Session. The bytes between the end of
  a USB transfer and the gateware's FIFO are in the FX2, outside the repository, and the
  model has none there.
* In Transmit a failed transfer has put a prefix of its bytes into the FIFO and lost the
  rest, the transfers behind it may still succeed, and no transfer overtakes another.
  A request for the modem status that fails or times out is one choice of `Status`, as
  is the deadline; sleeping between two polls is not a step.
* In ResourceBuild a file is written in one step inside a directory nobody else looks
  at. `is_dir` and the listing of `build.rs` are one step and each file it reads is one;
  cargo builds once. `os.replace` of a directory fails if another builder has filled the
  place. A failed `rmtree` has removed none of the files or all of them. Inputs change
  only to contents they have not had. Process ids may come back, names of `mkdtemp` not.
  What a manifest holds is a pure function of the inputs.
* The gateware's counters are modelled below saturation, at 65,535 errors.
* `glasgow/device.rs` lists descriptors and looks resources up in a table; it keeps no
  state, and neither do the validation of the embedded resources, the encoding of the NDJSON
  fields and the error texts. `tools/lab.py` and `tools/package.py` test and package the
  binaries.

## Plan

Done: Session with its contract and its proofs; UsbPort; Management and Glasgow; Transmit;
ResourceBuild; Vcp and Baud; Command; an inductive invariant and proofs for each of them,
and the proof of the refinement of `SessionContract`; the order of the bytes in both
directions of direct USB and the rates, for every value of the constants.

Left, in order:

1. The FX2's buffers between host queue and FIFO as an external part of Glasgow, for the
   drain's window (`glasgow/transport.rs:358`).
2. A second session on a port whose flag is set.
