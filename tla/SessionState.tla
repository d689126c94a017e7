---------------------------- MODULE SessionState ----------------------------
(***************************************************************************)
(* The constants, the variables and the values of a UART session, and the  *)
(* pieces its steps have in common.  Session has the steps.                *)
(***************************************************************************)
EXTENDS Integers, Sequences

CONSTANTS
    Mode,            \* SessionMode: "console" or "stream"
    Chunks,          \* what one input.read may return, see ChunkOk
    MaxTx,           \* bound: input bytes to transmit in one session
    MaxRx,           \* bound: bytes the transport delivers in one session
    RxIdleTimeout,   \* rx_idle_timeout, in ticks
    DrainTimeout,    \* drain_timeout, in ticks
    Faults           \* which failures of the environment may happen

\* A chunk holds the bytes before its first Ctrl-] and the bytes from it on.
ChunkOk(c) == /\ c \in [plain : Nat, rest : Nat]
              /\ c.plain + c.rest > 0

AllFaults == {"input", "output", "transport", "drain", "observer", "spawn", "panic", "cancel"}

ASSUME ModeAssumption   == Mode \in {"console", "stream"}
ASSUME ChunkAssumption  == \A c \in Chunks : ChunkOk(c)
ASSUME BoundAssumption  == MaxTx \in Nat /\ MaxRx \in Nat
ASSUME TimerAssumption  == RxIdleTimeout \in Nat /\ DrainTimeout \in Nat
ASSUME FaultsAssumption == Faults \subseteq AllFaults

VARIABLES
    \* the coordinator
    co,              \* its program counter
    txStopped, rxStopped, drained,
    stopReason, failure, observerFailed,
    deadline,        \* ticks left before join_deadline, or NoDeadline
    pending,         \* the call of the observer in progress, or NoCall
    \* the TX worker
    tx,              \* its program counter
    left,            \* bytes of the current chunk write_transport still owes
    escape,          \* the current chunk held Ctrl-]
    txResult,        \* the event the worker will send when it ends
    \* the RX worker
    rx,              \* its program counter
    held,            \* bytes read from the transport and not yet written out
    status,          \* the failure reported with the held bytes
    rxResult,        \* the error the worker will send when it ends, or NoEvent
    \* shared by the threads
    output,          \* holder of the SharedOutput mutex
    queue,           \* the mpsc channel of WorkerEvents
    cancelled,       \* the flag of the caller's CancellationToken
    ioCancelled,     \* Transport::cancel has been called
    stats,           \* AtomicStatistics
    quiet,           \* ticks since max(last_rx, drained_at), saturating
    \* history: what the properties compare the above with
    submitted,       \* bytes accepted before the last submit_tx or drain
    consumed,        \* bytes taken from the input for transmission
    taken,           \* bytes taken from the transport
    byCaller,        \* the caller set the flag, not the coordinator
    log,             \* the calls made to the observer
    result           \* what run_session_observed returned

coVars  == <<co, txStopped, rxStopped, drained, stopReason, failure,
             observerFailed, deadline, pending>>
txVars  == <<tx, left, escape, txResult>>
rxVars  == <<rx, held, status, rxResult>>
ioVars  == <<output, queue, cancelled, ioCancelled>>
history == <<submitted, consumed, taken, byCaller, log, result>>
vars    == <<coVars, txVars, rxVars, ioVars, stats, quiet, history>>

-----------------------------------------------------------------------------
(* Values. *)

NoDeadline == -1
Reasons    == {"rx_idle", "console_escape", "cancelled"}
Errors     == {"cancelled", "join_timeout", "tx_error", "rx_error",
               "panic", "observer", "spawn"}
Phases     == {"running", "draining", "final"}

\* WorkerEvent
TxDrained(reason)  == [kind |-> "tx_drained", arg |-> reason]
WorkerError(error) == [kind |-> "worker_error", arg |-> error]
RxActivity         == [kind |-> "rx_activity", arg |-> "none"]
TxStopped          == [kind |-> "tx_stopped", arg |-> "none"]
RxStopped          == [kind |-> "rx_stopped", arg |-> "none"]
NoEvent            == [kind |-> "none", arg |-> "none"]

\* What map_transfer_failure makes of a TransferFailure: "retry" for
\* Interrupted, WouldBlock and TimedOut, "fatal" for the other three kinds.
Failures == {"none", "retry"} \cup (IF "transport" \in Faults THEN {"fatal"} ELSE {})

\* A completion claims at most what was asked for, or too much by one.
Completions(asked) == 0 .. (IF "transport" \in Faults THEN asked + 1 ELSE asked)

\* The bytes of a chunk that are transmitted, and whether it ends the input.
Transmitted(c) == IF Mode = "console" THEN c.plain ELSE c.plain + c.rest
HasEscape(c)   == Mode = "console" /\ c.rest > 0

Ended(pc) == pc \in {"done", "panicked"}

\* One call of the observer.
Event(phase, reason, error, ok) ==
    [phase |-> phase, stats |-> stats, reason |-> reason, error |-> error, ok |-> ok]

\* No call of the observer in progress.
Zero   == [accepted |-> 0, completed |-> 0, received |-> 0]
NoCall == [phase |-> "running", stats |-> Zero, reason |-> "none", error |-> "none",
           ok |-> TRUE]

ObserverOutcomes == IF "observer" \in Faults THEN BOOLEAN ELSE {TRUE}

-----------------------------------------------------------------------------
(* Pieces of steps. *)

\* run_session_observed returns.
Return(reason, error) ==
    /\ co' = "done"
    /\ result' = [reason |-> reason, error |-> error, stats |-> stats]

\* Mutant: a shutdown that forgets the transport.
ShutdownDeaf ==
    /\ cancelled' = TRUE /\ UNCHANGED ioCancelled
    /\ deadline' = DrainTimeout

\* Store the flag, cancel the transport and start the join deadline.
Shutdown ==
    /\ cancelled' = TRUE /\ ioCancelled' = TRUE
    /\ deadline' = DrainTimeout

\* recv_timeout yields an event of this kind.
Receive(kind) == /\ co = "recv" /\ queue # <<>> /\ Head(queue).kind = kind
                 /\ queue' = Tail(queue)

\* The TX worker leaves its loop with the event it will send.
TxEndsWith(event) == tx' = "send" /\ txResult' = event

\* The RX worker leaves its loop with an error.
RxFails == rx' = "error" /\ rxResult' = WorkerError("rx_error")

=============================================================================
