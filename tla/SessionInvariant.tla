-------------------------- MODULE SessionInvariant --------------------------
(***************************************************************************)
(* The inductive invariant behind the safety properties of Session: how    *)
(* the three program counters, the events still in the channel and the     *)
(* results of the workers constrain one another.  SessionProofs proves it  *)
(* for every value of the constants.                                       *)
(***************************************************************************)
EXTENDS Session

Running    == co \in {"poll", "recv", "observe", "join", "join_rx", "final"}
Joining    == co \in {"join", "join_rx", "final"}
TxReported == tx \in {"stop", "done"}
RxReported == rx \in {"stop", "done"}
TxConfirmed == txResult.kind = "tx_drained" /\ txResult.arg # "cancelled"

InQueue(e) == \E i \in 1 .. Len(queue) : queue[i] = e
\* The error e is in the channel, and its worker's stop event is not before it.
Waits(e, stop) == \E i \in 1 .. Len(queue) :
                      queue[i] = e /\ \A j \in 1 .. i : queue[j] # stop

\* Which threads exist while the coordinator is where it is.
ThreadInv ==
    /\ co \in {"start", "spawn_rx"} => tx = "idle" /\ rx = "idle"
    /\ co \in {"spawn_tx", "abort"} => tx = "idle" /\ rx # "idle"
    /\ Running => tx # "idle" /\ rx # "idle"
    /\ Joining => Ended(tx) /\ Ended(rx)
    /\ co = "done" => tx \in {"idle", "done", "panicked"} /\ rx \in {"idle", "done", "panicked"}

MutexInv ==
    /\ output = "tx" <=> tx = "echoing"
    /\ output = "rx" <=> rx = "outputting"

\* The TX worker has a result exactly when it is about to send it or has sent
\* it, and owes bytes outside write_transport only when cancelled or failed.
TxInv ==
    /\ txResult # NoEvent <=> tx = "send" \/ TxReported
    /\ txResult = NoEvent \/ txResult = WorkerError("tx_error")
          \/ (txResult.kind = "tx_drained" /\ txResult.arg \in Reasons)
    /\ tx \in {"idle", "read"} => left = 0
    /\ tx \in {"idle", "check", "read"} => submitted = stats.accepted
    /\ left # 0 => \/ tx \in {"echo", "echoing", "write", "writing", "panicked"}
                   \/ cancelled
                   \/ txResult = WorkerError("tx_error")
    /\ txResult = TxDrained("cancelled") => cancelled

\* The RX worker has an error exactly on its way from it to the end, and holds
\* bytes only while it writes them out or after that write failed.
RxInv ==
    /\ rxResult = NoEvent \/ rxResult = WorkerError("rx_error")
    /\ rxResult # NoEvent => rx = "error" \/ RxReported
    /\ rx = "error" => rxResult # NoEvent
    /\ held # 0 => rx \in {"output", "outputting", "panicked"} \/ rxResult # NoEvent

\* What the channel holds was sent by the worker that sends it, a TxDrained
\* once and before its TxStopped; the loop ends with nothing left to learn.
QueueInv ==
    /\ InQueue(TxStopped) \/ txStopped => tx = "done"
    /\ InQueue(RxStopped) \/ rxStopped => rx = "done"
    /\ \A i \in 1 .. Len(queue) : queue[i].kind = "tx_drained" =>
          /\ TxReported /\ queue[i] = txResult
          /\ ~txStopped /\ \A j \in 1 .. i : queue[j] # TxStopped
          /\ co # "observe" /\ (co # "done" => Len(log) = 1)
    /\ \A i, j \in 1 .. Len(queue) :
          queue[i].kind = "tx_drained" /\ queue[j].kind = "tx_drained" => i = j
    /\ co = "observe" => TxReported /\ txResult = TxDrained(pending.reason) /\ Len(log) = 1
    /\ Joining => queue = <<>> \/ (txStopped /\ rxStopped)

\* An error sent is still waiting ahead of its worker's stop event, or known.
ErrorInv ==
    failure = "none" =>
        /\ TxReported /\ txResult = WorkerError("tx_error") /\ co # "done" =>
               ~txStopped /\ Waits(txResult, TxStopped)
        /\ RxReported /\ rxResult # NoEvent /\ co # "done" =>
               ~rxStopped /\ Waits(rxResult, RxStopped)
        /\ co \in {"join_rx", "final"} => tx = "done"
        /\ co = "final" => rx = "done"

\* A stop for which the device confirmed the accepted bytes, and what the
\* observer is told of them.
DrainInv ==
    /\ drained \/ stopReason \in {"rx_idle", "console_escape"} => TxReported /\ TxConfirmed
    /\ \A i \in 1 .. Len(log) : log[i].phase = "draining" =>
          /\ TxReported
          /\ log[i].reason = txResult.arg /\ txResult.kind = "tx_drained"
          /\ log[i].stats.accepted = stats.accepted
          /\ log[i].stats.completed = stats.completed
    /\ co = "observe" =>
          /\ TxReported /\ pending.phase = "draining"
          /\ pending.stats.accepted = stats.accepted
          /\ pending.stats.completed = stats.completed

\* Before its own stop condition the coordinator sets the flag on errors only.
CancelInv ==
    /\ byCaller \/ ioCancelled \/ deadline # NoDeadline => cancelled
    /\ cancelled /\ ~byCaller /\ failure = "none" /\ co \notin {"abort", "done"} =>
          TxReported /\ TxConfirmed /\ left = 0
    /\ co \in {"start", "spawn_rx", "spawn_tx"} => failure = "none"

\* The observer's calls so far.
LogInv ==
    /\ co = "start" => log = <<>> /\ stats = Zero
    /\ co \in {"spawn_rx", "spawn_tx", "abort"} => Len(log) = 1
    /\ Running => Len(log) \in {1, 2}
    /\ Len(log) >= 1 =>
          /\ log[1].phase = "running"
          /\ log[1].stats = Zero
    /\ Len(log) >= 1 /\ co # "done" => log[1].ok
    /\ Len(log) = 2 /\ co # "done" =>
          log[2].phase = "draining" /\ (log[2].ok <=> ~observerFailed)
    /\ Len(log) = 1 => ~observerFailed
    /\ observerFailed => failure = "observer" /\ co # "start"
    /\ co \in {"start", "spawn_rx", "spawn_tx", "abort"} => ~observerFailed

\* What is true once the call has returned.
DoneInv ==
    /\ co # "done" => \A i \in 1 .. Len(log) : log[i].phase # "final"
    /\ \A i \in 1 .. Len(log) : log[i].phase = "final" => log[i].stats = stats
    /\ Succeeded =>
          /\ tx = "done" /\ rx = "done" /\ rxResult = NoEvent
          /\ txResult.kind = "tx_drained"
          /\ result.stats = stats
          /\ \A i \in 1 .. Len(log) : log[i].ok
          /\ ~byCaller => TxConfirmed /\ left = 0

IInv ==
    /\ TypeOK /\ Conservation /\ CompletedMeansDrained
    /\ ThreadInv /\ MutexInv /\ TxInv /\ RxInv /\ QueueInv /\ ErrorInv
    /\ DrainInv /\ CancelInv /\ LogInv /\ DoneInv

=============================================================================
