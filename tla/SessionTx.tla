----------------------------- MODULE SessionTx ------------------------------
(***************************************************************************)
(* The TX worker of a session: tx_worker and write_transport.  A mutant is *)
(* a step with a plausible mistake in it, no part of the specification.    *)
(***************************************************************************)
EXTENDS SessionState

\* Mutant: a cancelled worker reports the end of its input.
TxCheckEof ==
    /\ tx = "check"
    /\ IF cancelled THEN TxEndsWith(TxDrained("rx_idle"))
                    ELSE tx' = "read" /\ UNCHANGED txResult
    /\ UNCHANGED <<coVars, left, escape, rxVars, ioVars, stats, quiet, history>>

\* The head of the read loop: a cancelled worker reports so and never drains.
TxCheck ==
    /\ tx = "check"
    /\ IF cancelled THEN TxEndsWith(TxDrained("cancelled"))
                    ELSE tx' = "read" /\ UNCHANGED txResult
    /\ UNCHANGED <<coVars, left, escape, rxVars, ioVars, stats, quiet, history>>

\* input.read returns a chunk ...
TxReadChunk ==
    /\ tx = "read"
    /\ \E c \in Chunks :
          /\ consumed + Transmitted(c) <= MaxTx
          /\ consumed' = consumed + Transmitted(c)
          /\ left' = Transmitted(c) /\ escape' = HasEscape(c)
          /\ tx' = IF Mode = "console" /\ Transmitted(c) > 0 THEN "echo" ELSE "write"
    /\ UNCHANGED <<coVars, txResult, rxVars, ioVars, stats, quiet,
                   submitted, taken, byCaller, log, result>>

\* ... or the end of the input ...
TxReadEof ==
    /\ tx = "read" /\ tx' = "drain"
    /\ UNCHANGED <<coVars, left, escape, txResult, rxVars, ioVars, stats, quiet, history>>

\* ... or an error, which is retried when it is Interrupted.
TxReadError ==
    /\ tx = "read" /\ "input" \in Faults
    /\ \/ tx' = "check" /\ UNCHANGED txResult
       \/ TxEndsWith(WorkerError("tx_error"))
    /\ UNCHANGED <<coVars, left, escape, rxVars, ioVars, stats, quiet, history>>

\* Mutant: the local echo does not take the output mutex.
TxEchoLockFree ==
    /\ tx = "echo"
    /\ output' = "tx" /\ tx' = "echoing"
    /\ UNCHANGED <<coVars, left, escape, txResult, rxVars, queue, cancelled, ioCancelled,
                   stats, quiet, history>>

\* The local echo of console mode, under the output mutex.
TxEchoLock ==
    /\ tx = "echo" /\ output = "free"
    /\ output' = "tx" /\ tx' = "echoing"
    /\ UNCHANGED <<coVars, left, escape, txResult, rxVars, queue, cancelled, ioCancelled,
                   stats, quiet, history>>

TxEchoReturn ==
    /\ tx = "echoing" /\ output' = "free"
    /\ \/ tx' = "write" /\ UNCHANGED txResult
       \/ "output" \in Faults /\ TxEndsWith(WorkerError("tx_error"))
    /\ UNCHANGED <<coVars, left, escape, rxVars, queue, cancelled, ioCancelled,
                   stats, quiet, history>>

\* The head of write_transport's loop.
TxWriteCall ==
    /\ tx = "write" /\ left > 0 /\ ~cancelled
    /\ tx' = "writing"
    /\ UNCHANGED <<coVars, left, escape, txResult, rxVars, ioVars, stats, quiet, history>>

\* Mutant: the failure is looked at before the bytes are counted.
TxWriteReturnUncounted ==
    /\ tx = "writing"
    /\ \E n \in 0 .. left, f \in Failures :
          LET bad == f = "fatal" \/ (f = "none" /\ n = 0)
          IN  /\ left' = left - n
              /\ stats' = IF bad THEN stats ELSE [stats EXCEPT !.accepted = @ + n]
              /\ bad => "transport" \in Faults
              /\ IF bad THEN TxEndsWith(WorkerError("tx_error"))
                        ELSE tx' = "write" /\ UNCHANGED txResult
    /\ UNCHANGED <<coVars, escape, rxVars, ioVars, quiet, history>>

\* transport.write returns: the bytes are counted before the failure is read.
TxWriteReturn ==
    /\ tx = "writing"
    /\ \E n \in Completions(left), f \in Failures :
          LET lied == n > left
              bad  == lied \/ f = "fatal" \/ (f = "none" /\ n = 0)
          IN  /\ left' = IF lied THEN left ELSE left - n
              /\ stats' = IF lied THEN stats ELSE [stats EXCEPT !.accepted = @ + n]
              /\ bad => "transport" \in Faults
              /\ IF bad THEN TxEndsWith(WorkerError("tx_error"))
                        ELSE tx' = "write" /\ UNCHANGED txResult
    /\ UNCHANGED <<coVars, escape, rxVars, ioVars, quiet, history>>

\* write_transport is done, or gave up because of the flag; submit_tx, then
\* Ctrl-] ends the input.
TxSubmit ==
    /\ tx = "write" /\ (left = 0 \/ cancelled)
    /\ submitted' = stats.accepted
    /\ tx' = IF escape THEN "drain" ELSE "check"
    /\ UNCHANGED <<coVars, left, escape, txResult, rxVars, ioVars, stats, quiet,
                   consumed, taken, byCaller, log, result>>

\* transport.drain returns; only then are the accepted bytes completed.
TxDrain ==
    /\ tx = "drain"
    /\ \/ /\ TxEndsWith(TxDrained(IF escape THEN "console_escape" ELSE "rx_idle"))
          /\ stats' = [stats EXCEPT !.completed = stats.accepted]
          /\ submitted' = stats.accepted
       \/ /\ "drain" \in Faults
          /\ TxEndsWith(WorkerError("tx_error"))
          /\ UNCHANGED <<stats, submitted>>
    /\ UNCHANGED <<coVars, left, escape, rxVars, ioVars, quiet,
                   consumed, taken, byCaller, log, result>>

\* The worker's result, then TxStopped; the sender is dropped with the thread.
TxSend ==
    /\ \/ tx = "send" /\ queue' = Append(queue, txResult) /\ tx' = "stop"
       \/ tx = "stop" /\ queue' = Append(queue, TxStopped) /\ tx' = "done"
    /\ UNCHANGED <<coVars, left, escape, txResult, rxVars, output, cancelled, ioCancelled,
                   stats, quiet, history>>

\* The caller's reader or writer, or the transport, panics: the thread unwinds
\* without an event, and the mutex is released.
TxPanic ==
    /\ "panic" \in Faults
    /\ tx \in {"read", "echoing", "writing", "drain"}
    /\ tx' = "panicked"
    /\ output' = IF tx = "echoing" THEN "free" ELSE output
    /\ UNCHANGED <<coVars, left, escape, txResult, rxVars, queue, cancelled, ioCancelled,
                   stats, quiet, history>>

TxWorker == \/ TxCheck \/ TxReadChunk \/ TxReadEof \/ TxReadError \/ TxEchoLock
            \/ TxEchoReturn \/ TxWriteCall \/ TxWriteReturn \/ TxSubmit \/ TxDrain
            \/ TxSend \/ TxPanic

=============================================================================
