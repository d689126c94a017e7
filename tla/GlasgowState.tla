---------------------------- MODULE GlasgowState ----------------------------
(***************************************************************************)
(* The state of a session on a Glasgow, GlasgowTransport and SetupCleanup  *)
(* of src/uart/glasgow/transport.rs over the pipe of Management, and the   *)
(* values and tests its steps are made of.                                 *)
(***************************************************************************)
EXTENDS Management

CONSTANTS
    MaxCommands,     \* bound: refreshes and drains begin below this many commands
    MaxFailures,     \* bound: commands that fail during the session
    MaxPolls,        \* bound: polls of a loop that ends at a deadline
    MaxCount,        \* bound: errors and overflows the gateware counts
    MaxTx,           \* bound: bytes written to the UART
    IdleBit,         \* TX_IDLE_BIT
    Faults           \* which failures of the environment may happen

ASSUME GlasgowBounds == /\ {MaxCommands, MaxFailures, MaxPolls, MaxCount, MaxTx} \subseteq Nat
                          /\ IdleBit \in Nat /\ IdleBit > MaxTx /\ IdleBit > MaxCount
ASSUME GlasgowFaults == Faults \subseteq {"write", "late", "refuse", "usb"}

VARIABLES
    \* the host
    life,            \* where open, SetupCleanup and Drop are
    polls,           \* iterations of the loop life is in
    vio,             \* SetupCleanup.vio_enabled
    base,            \* rx_errors_baseline and rx_overflow_baseline
    step,            \* program counters of the RX worker, coordinator, TX worker
    poll, mgmt,      \* holders of last_counter_poll and management
    word,            \* the first register of a refresh in progress
    published,       \* rx_errors and rx_overflow
    \* the device
    firmware,        \* the firmware it runs is "ours" or "other"
    fpga,            \* the bitstream it runs: Blank, Ours or Other
    divisor, supply, pulls, \* set by the profile
    pipes,           \* the UART's interfaces have their alternate setting
    counts,          \* the gateware's saturating counters
    fifo, shifting,  \* bytes in the TX FIFO; one is on the line
    \* history
    offFailed,       \* a command to switch the supply off was refused or lost
    lit              \* this open has switched the supply on, and knows it

deviceVars == <<firmware, fpga, divisor, supply, pulls, pipes, counts, fifo, shifting>>
hostVars   == <<life, polls, vio, base, step, poll, mgmt, word, published>>
history    == <<offFailed, lit>>
vars       == <<pipeVars, hostVars, deviceVars, history>>

profileVars == <<vio, base>>
clientVars  == <<step, poll, mgmt, word, published>>

GlasgowOps == {"status", "finish", "baud", "volts_on", "pulls_on", "volts_off", "pulls_off",
               "errors", "overflow", "tx_state"}
Clients == {"rx", "co", "tx"}
Blank == 0
Ours  == 1
Other == 2
Words  == 0 .. IdleBit + MaxTx
Counts == [errors : 0 .. MaxCount, overflow : 0 .. MaxCount]

\* Answers: an acknowledgement, WAIT, an error, a bitstream, a register.
Ack    == [kind |-> "ack", value |-> 0]
Wait   == [kind |-> "wait", value |-> 0]
Refuse == [kind |-> "error", value |-> 0]
Id(f)  == [kind |-> "id", value |-> f]
Reg(v) == [kind |-> "word", value |-> v]
GlasgowResults == {Ack, Wait, Refuse} \cup {Id(f) : f \in {Blank, Ours, Other}}
                                  \cup {Reg(v) : v \in Words}

ASSUME PipeAssumption == Ops = GlasgowOps /\ Results = GlasgowResults

-----------------------------------------------------------------------------
(* The steps of open and of the profile: SetupCleanup is armed in Guarded. *)

Guarded  == {"baud", "volts_on", "pulls_on", "errors", "overflow"}
TurnOff  == {"volts_off", "pulls_off"}
Commanding == {"status", "finish", "check"} \cup Guarded \cup TurnOff

\* check asks for the status again.
OpOf(l) == IF l = "check" THEN "status" ELSE l

After == [baud |-> "volts_on", volts_on |-> "pulls_on", pulls_on |-> "errors",
          errors |-> "overflow", overflow |-> "open",
          volts_off |-> "pulls_off", pulls_off |-> "close"]

\* Where an error leads: the guard undoes what it knows to be done.
Broken(l) == IF l \in Guarded /\ vio THEN "volts_off"
             ELSE IF l \in Guarded \cup TurnOff THEN "close" ELSE "closed"

\* Mutant: vio_enabled is set once the baselines are read.
SupplyKnownLate(l) == l = "overflow"

\* set_fixed_profile(true) has returned after this step.
SupplyKnown(l) == l = "pulls_on"

\* Mutant: the listed device is taken without a look at its API level.
CompatibleAny(seen) == TRUE

Compatible(seen) == seen = "ours"

\* The deadline has not passed.
PollAgain == polls < MaxPolls /\ polls' = polls + 1

-----------------------------------------------------------------------------
(* What the host makes of answers. *)

\* The shape of a good answer to an operation.
Shape(op) == IF op = "status" THEN "id"
             ELSE IF op \in {"errors", "overflow", "tx_state"} THEN "word" ELSE "ack"

\* Mutant: any answer with the right serial is an acknowledgement.
AcceptsAny(op, result) == Shape(op) = "ack" \/ result.kind = Shape(op)

\* expect_ack, read_register and fpga_status look at the answer.
Accepts(op, result) == result.kind = Shape(op)

Good == Matches /\ Accepts(call.op, Head(answers).result)
Value == Head(answers).result.value

\* Mutant: the baseline is not subtracted.
SinceReset(value, from) == value

\* saturating_sub of the baseline.
Since(value, from) == IF value < from THEN 0 ELSE value - from

\* Mutant: only the FIFO's level is tested.
TxIdleLevel(state) == state % IdleBit = 0

\* The idle bit is set and the level is zero.
TxIdle(state) == state = IdleBit

=============================================================================
