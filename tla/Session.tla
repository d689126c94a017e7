------------------------------ MODULE Session ------------------------------
(***************************************************************************)
(* One full-duplex UART session: run_session_observed of                   *)
(* src/uart/session.rs.  Three threads share a cancellation flag, an       *)
(* output mutex, byte counters and one event channel:                      *)
(*                                                                         *)
(*   coordinator  the caller's thread.  It observes Running, spawns the    *)
(*                workers, polls the flag and the two timers, receives     *)
(*                events, joins the workers and observes Final.            *)
(*   TX worker    reads the caller's input, writes the transport, drains.  *)
(*   RX worker    reads the transport, writes the caller's output.         *)
(*                                                                         *)
(* The caller's reader, writer and observer, and the transport, are        *)
(* environment: each call into them is a program counter at which the      *)
(* thread waits, and an action that returns any outcome the callee may     *)
(* produce.  Bytes are counted, never spelled out.                         *)
(***************************************************************************)
EXTENDS SessionCoordinator, SessionTx, SessionRx

-----------------------------------------------------------------------------
Init ==
    /\ co = "start" /\ tx = "idle" /\ rx = "idle"
    /\ txStopped = FALSE /\ rxStopped = FALSE /\ drained = FALSE
    /\ stopReason = "none" /\ failure = "none" /\ observerFailed = FALSE
    /\ deadline = NoDeadline /\ pending = NoCall
    /\ left = 0 /\ escape = FALSE /\ txResult = NoEvent
    /\ held = 0 /\ status = "none" /\ rxResult = NoEvent
    /\ output = "free" /\ queue = <<>>
    /\ cancelled = FALSE /\ ioCancelled = FALSE
    /\ stats = Zero
    /\ quiet = 0
    /\ submitted = 0 /\ consumed = 0 /\ taken = 0 /\ byCaller = FALSE
    /\ log = <<>> /\ result = [reason |-> "none", error |-> "none", stats |-> stats]

-----------------------------------------------------------------------------
(* The caller and the clock. *)

\* CancellationToken::cancel on any clone of the token, while the call runs;
\* once the flag is set another call changes nothing.
CallerCancel ==
    /\ "cancel" \in Faults /\ ~cancelled /\ co # "done"
    /\ cancelled' = TRUE /\ byCaller' = TRUE
    /\ UNCHANGED <<coVars, txVars, rxVars, output, queue, ioCancelled, stats, quiet,
                   submitted, consumed, taken, log, result>>

\* Time passes while either timer has something left to count.
Tick ==
    /\ co # "done"
    /\ \/ deadline > 0
       \/ drained /\ quiet < RxIdleTimeout
    /\ deadline' = IF deadline > 0 THEN deadline - 1 ELSE deadline
    /\ quiet' = IF drained /\ quiet < RxIdleTimeout THEN quiet + 1 ELSE quiet
    /\ UNCHANGED <<co, txStopped, rxStopped, drained, stopReason, failure, observerFailed,
                   pending, txVars, rxVars, ioVars, stats, history>>

\* The call has returned; both threads are gone.
Returned == co = "done" /\ UNCHANGED vars

Next == Coordinator \/ TxWorker \/ RxWorker \/ CallerCancel \/ Tick \/ Returned

Spec == Init /\ [][Next]_vars

-----------------------------------------------------------------------------
(* Fairness. *)

(* Threads that can run do run, and the clock advances.  The transport keeps
   the two promises of its trait: cancel unblocks reads and writes in flight,
   drain comes back within its timeout.  Observers return.  Nothing is assumed
   of the caller's reader and writer, nor of a transport before its cancel. *)
Fairness ==
    /\ WF_vars(Coordinator)
    /\ WF_vars(TxCheck) /\ WF_vars(TxWriteCall) /\ WF_vars(TxSubmit)
    /\ WF_vars(TxDrain) /\ WF_vars(TxSend) /\ WF_vars(TxEchoLock)
    /\ WF_vars(ioCancelled /\ TxWriteReturn)
    /\ WF_vars(RxCheck) /\ WF_vars(RxSend) /\ WF_vars(RxOutputLock)
    /\ WF_vars(ioCancelled /\ RxReadReturn)
    /\ WF_vars(Tick)

(* A caller whose reader reaches its end and whose writer accepts output, and
   a transport that takes the bytes it is given. *)
CallerFairness ==
    /\ SF_vars(TxReadChunk \/ TxReadEof)
    /\ WF_vars(TxEchoReturn) /\ WF_vars(RxOutputReturn)
    /\ SF_vars(TxWriteReturn /\ left' # left)

FairSpec == Spec /\ Fairness
LiveSpec == FairSpec /\ CallerFairness

-----------------------------------------------------------------------------
(* Safety. *)

Succeeded == co = "done" /\ result.error = "none"

Stats == [accepted : Nat, completed : Nat, received : Nat]

Messages == [kind : {"tx_drained"}, arg : Reasons]
            \cup [kind : {"worker_error"}, arg : {"tx_error", "rx_error"}]
            \cup {RxActivity, TxStopped, RxStopped}

Entries == [phase : Phases, stats : Stats, reason : Reasons \cup {"none"},
            error : Errors \cup {"none"}, ok : BOOLEAN]

Results == [reason : Reasons \cup {"none"}, error : Errors \cup {"none"}, stats : Stats]

TypeOK ==
    /\ co \in {"start", "spawn_rx", "spawn_tx", "abort", "poll", "recv", "observe",
               "join", "join_rx", "final", "done"}
    /\ tx \in {"idle", "check", "read", "echo", "echoing", "write", "writing", "drain",
               "send", "stop", "done", "panicked"}
    /\ rx \in {"idle", "check", "reading", "output", "outputting", "error", "stop",
               "done", "panicked"}
    /\ txStopped \in BOOLEAN /\ rxStopped \in BOOLEAN /\ drained \in BOOLEAN
    /\ observerFailed \in BOOLEAN /\ escape \in BOOLEAN
    /\ cancelled \in BOOLEAN /\ ioCancelled \in BOOLEAN /\ byCaller \in BOOLEAN
    /\ stopReason \in Reasons \cup {"none"} /\ pending \in Entries
    /\ failure \in Errors \cup {"none"}
    /\ deadline \in {NoDeadline} \cup 0 .. DrainTimeout
    /\ left \in Nat /\ held \in Nat /\ quiet \in Nat
    /\ submitted \in Nat /\ consumed \in Nat /\ taken \in 0 .. MaxRx
    /\ status \in {"none", "retry", "fatal"}
    /\ txResult \in Messages \cup {NoEvent} /\ rxResult \in Messages \cup {NoEvent}
    /\ output \in {"free", "tx", "rx"}
    /\ queue \in Seq(Messages)
    /\ stats \in Stats
    /\ log \in Seq(Entries)
    /\ result \in Results

(* Partial, retried and failed transfers neither drop nor repeat a byte: what
   was read from the input is accepted or still owed by write_transport, what
   was read from the transport is written out or still held. *)
Conservation ==
    /\ consumed = stats.accepted + left
    /\ taken = stats.received + held

(* Bytes are reported completed only by a drain that succeeded, and then all of
   the accepted ones are: no accept follows the drain. *)
CompletedMeansDrained ==
    stats.completed =
        IF txResult.kind = "tx_drained" /\ txResult.arg # "cancelled"
        THEN stats.accepted ELSE 0

(* A session that ends without an error and without its caller cancelling has
   transmitted every byte it took from its input and has delivered every byte
   it took from the transport. *)
SuccessIsComplete ==
    Succeeded /\ ~byCaller =>
        /\ result.stats.completed = consumed
        /\ result.stats.received = taken

(* No worker error, panic or observer error is swallowed by the races between
   the event channel, the stop flags and the join. *)
ErrorsSurface ==
    Succeeded => /\ txResult.kind = "tx_drained" /\ rxResult = NoEvent
                 /\ tx = "done" /\ rx = "done"
                 /\ \A i \in 1 .. Len(log) : log[i].ok

(* The call returns, and Final is observed, only when no worker is left, the
   output mutex is free and the counters no longer change. *)
FinalIsFinal ==
    co = "done" =>
        /\ tx \in {"idle", "done", "panicked"} /\ rx \in {"idle", "done", "panicked"}
        /\ output = "free"
        /\ \A i \in 1 .. Len(log) : log[i].phase = "final" => log[i].stats = stats

(* The coordinator takes a stop for rx_idle or console_escape only after the
   device confirmed every accepted byte, whatever order the errors, timers and
   cancellations come in. *)
NormalStopIsDrained ==
    stopReason \in {"rx_idle", "console_escape"} =>
        stats.completed = stats.accepted /\ txResult.kind = "tx_drained"

(* From the Draining event on, its TX counters are the session's TX counters. *)
DrainingIsExact ==
    \A i \in 1 .. Len(log) : log[i].phase = "draining" =>
        /\ log[i].stats.accepted = stats.accepted
        /\ log[i].stats.completed = stats.completed

(* While the TX worker waits for input, nothing it handed to the transport is
   left unsubmitted in a transport buffer. *)
NothingUnsubmitted == tx = "read" => submitted = stats.accepted

(* Only an observer error may replace an error the coordinator already has. *)
FirstErrorStands == [][failure # "none" => failure' \in {failure, "observer"}]_vars

(* Once the flag is set no worker begins another read of the input, write to
   the transport or read of the transport. *)
CancelStopsTraffic ==
    [][cancelled => /\ tx' \in {"read", "writing"} => tx' = tx
                    /\ rx' = "reading" => rx' = rx]_vars

(* The calls to the observer and the value returned follow the contract. *)
Contract == INSTANCE SessionContract WITH closed <- (co = "done")
ContractSpec == Contract!Spec

-----------------------------------------------------------------------------
(* Liveness. *)

(* With a responsive caller and transport every session returns: no order of
   errors, timers and cancellation leaves the threads waiting for one another. *)
Terminates == CallerFairness => <>(co = "done")

(* Whatever the caller does, a session whose flag is set returns unless the TX
   worker stays in input.read or a worker stays in the caller's writer. *)
ShutdownWaitsOnlyForCaller ==
    <>cancelled => \/ <>(co = "done")
                   \/ <>[](tx = "read")
                   \/ <>[](output # "free")

=============================================================================
