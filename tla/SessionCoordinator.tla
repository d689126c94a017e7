------------------------- MODULE SessionCoordinator -------------------------
(***************************************************************************)
(* The coordinator of a session: run_session_observed, spawn_workers and   *)
(* Coordinator::run.  It observes Running, starts the workers, polls the   *)
(* flag and the two timers, receives events, joins and observes Final.     *)
(***************************************************************************)
EXTENDS SessionState

\* Observe Running; an error returns before any worker exists.
CoStart ==
    /\ co = "start"
    /\ \E ok \in ObserverOutcomes :
          /\ log' = Append(log, Event("running", "none", "none", ok))
          /\ IF ok THEN co' = "spawn_rx" /\ UNCHANGED result
                   ELSE Return("none", "observer")
    /\ UNCHANGED <<txStopped, rxStopped, drained, stopReason, failure, observerFailed,
                   deadline, pending, txVars, rxVars, ioVars, stats, quiet,
                   submitted, consumed, taken, byCaller>>

\* spawn_workers, first thread.
CoSpawnRx ==
    /\ co = "spawn_rx"
    /\ \/ rx' = "check" /\ co' = "spawn_tx" /\ UNCHANGED result
       \/ "spawn" \in Faults /\ Return("none", "spawn") /\ UNCHANGED rx
    /\ UNCHANGED <<txStopped, rxStopped, drained, stopReason, failure, observerFailed,
                   deadline, pending, txVars, held, status, rxResult, ioVars, stats, quiet,
                   submitted, consumed, taken, byCaller, log>>

\* spawn_workers, second thread; its failure cancels and joins the first.
CoSpawnTx ==
    /\ co = "spawn_tx"
    /\ \/ tx' = "check" /\ co' = "poll" /\ UNCHANGED <<cancelled, ioCancelled>>
       \/ /\ "spawn" \in Faults
          /\ co' = "abort" /\ cancelled' = TRUE /\ ioCancelled' = TRUE
          /\ UNCHANGED tx
    /\ UNCHANGED <<txStopped, rxStopped, drained, stopReason, failure, observerFailed,
                   deadline, pending, left, escape, txResult, rxVars, output, queue,
                   stats, quiet, history>>

CoAbort ==
    /\ co = "abort" /\ Ended(rx)
    /\ Return("none", "spawn")
    /\ UNCHANGED <<txStopped, rxStopped, drained, stopReason, failure, observerFailed,
                   deadline, pending, txVars, rxVars, ioVars, stats, quiet,
                   submitted, consumed, taken, byCaller, log>>

\* The head of one loop iteration: the caller's cancellation, then RX idle,
\* then the join deadline, each seeing what the tests before it assigned.
CoPoll ==
    LET onCancel == cancelled /\ stopReason = "none" /\ failure = "none"
        onIdle   == drained /\ quiet >= RxIdleTimeout
        failure1 == IF onCancel THEN "cancelled" ELSE failure
        left1    == IF onCancel \/ onIdle THEN DrainTimeout ELSE deadline
        onLate   == left1 = 0 /\ failure1 = "none"
    IN  /\ co = "poll"
        /\ co' = "recv"
        /\ stopReason' = IF onIdle THEN "rx_idle"
                         ELSE IF onCancel THEN "cancelled" ELSE stopReason
        /\ failure' = IF onLate THEN "join_timeout" ELSE failure1
        /\ deadline' = left1
        /\ cancelled' = (cancelled \/ onIdle)
        /\ ioCancelled' = (ioCancelled \/ onCancel \/ onIdle \/ onLate)
        /\ UNCHANGED <<txStopped, rxStopped, drained, observerFailed, pending,
                       txVars, rxVars, output, queue, stats, quiet, history>>

\* TxDrained: the observer is called, with the counters of this moment, before
\* anything else.  The source skips the call when observer_failed is set, which
\* only this handler does; the TX worker sends one TxDrained at most, so that
\* test always finds it unset.
CoRecvDrained ==
    /\ Receive("tx_drained")
    /\ co' = "observe"
    /\ pending' = Event("draining", Head(queue).arg, "none", TRUE)
    /\ UNCHANGED <<txStopped, rxStopped, drained, stopReason, failure, observerFailed,
                   deadline, txVars, rxVars, output, cancelled, ioCancelled, stats,
                   quiet, history>>

\* The observer returns from Draining.
CoObserved ==
    /\ co = "observe"
    /\ co' = "poll" /\ pending' = NoCall
    /\ \E ok \in ObserverOutcomes :
          /\ log' = Append(log, [pending EXCEPT !.ok = ok])
          /\ \/ /\ ~ok
                /\ failure' = "observer" /\ observerFailed' = TRUE
                /\ Shutdown
                /\ UNCHANGED <<stopReason, drained, quiet>>
             \/ /\ ok /\ (Mode = "console" \/ pending.reason = "cancelled")
                /\ stopReason' = pending.reason
                /\ Shutdown
                /\ UNCHANGED <<failure, observerFailed, drained, quiet>>
             \/ /\ ok /\ Mode = "stream" /\ pending.reason # "cancelled"
                /\ drained' = TRUE /\ quiet' = 0
                /\ UNCHANGED <<stopReason, failure, observerFailed, deadline,
                               cancelled, ioCancelled>>
    /\ UNCHANGED <<txStopped, rxStopped, txVars, rxVars, output, queue, stats,
                   submitted, consumed, taken, byCaller, result>>

\* Mutant: an error after a stop was decided is not recorded.
CoRecvErrorLate ==
    /\ Receive("worker_error")
    /\ failure' = IF failure = "none" /\ stopReason = "none"
                  THEN Head(queue).arg ELSE failure
    /\ Shutdown
    /\ co' = "poll"
    /\ UNCHANGED <<txStopped, rxStopped, drained, stopReason, observerFailed, pending,
                   txVars, rxVars, output, stats, quiet, history>>

CoRecvError ==
    /\ Receive("worker_error")
    /\ failure' = IF failure = "none" THEN Head(queue).arg ELSE failure
    /\ Shutdown
    /\ co' = "poll"
    /\ UNCHANGED <<txStopped, rxStopped, drained, stopReason, observerFailed, pending,
                   txVars, rxVars, output, stats, quiet, history>>

\* Mutant: the loop ends with the first worker that stops.
CoRecvStoppedEither ==
    /\ \/ Receive("tx_stopped") /\ txStopped' = TRUE /\ UNCHANGED rxStopped
       \/ Receive("rx_stopped") /\ rxStopped' = TRUE /\ UNCHANGED txStopped
    /\ co' = IF txStopped' \/ rxStopped' THEN "join" ELSE "poll"
    /\ UNCHANGED <<drained, stopReason, failure, observerFailed, deadline, pending,
                   txVars, rxVars, output, cancelled, ioCancelled, stats, quiet, history>>

CoRecvStopped ==
    /\ \/ Receive("tx_stopped") /\ txStopped' = TRUE /\ UNCHANGED rxStopped
       \/ Receive("rx_stopped") /\ rxStopped' = TRUE /\ UNCHANGED txStopped
    /\ co' = IF txStopped' /\ rxStopped' THEN "join" ELSE "poll"
    /\ UNCHANGED <<drained, stopReason, failure, observerFailed, deadline, pending,
                   txVars, rxVars, output, cancelled, ioCancelled, stats, quiet, history>>

CoRecvActivity ==
    /\ Receive("rx_activity")
    /\ co' = "poll"
    /\ UNCHANGED <<txStopped, rxStopped, drained, stopReason, failure, observerFailed,
                   deadline, pending, txVars, rxVars, output, cancelled, ioCancelled,
                   stats, quiet, history>>

\* recv_timeout finds nothing: COORDINATOR_TICK passed, or both senders are
\* gone and the loop breaks.
CoRecvNothing ==
    /\ co = "recv" /\ queue = <<>>
    /\ co' = IF Ended(tx) /\ Ended(rx) THEN "join" ELSE "poll"
    /\ UNCHANGED <<txStopped, rxStopped, drained, stopReason, failure, observerFailed,
                   deadline, pending, txVars, rxVars, ioVars, stats, quiet, history>>

\* WorkerHandles::join: the TX thread, then the RX thread.
CoJoin ==
    /\ \/ co = "join" /\ Ended(tx) /\ co' = "join_rx"
          /\ failure' = IF tx = "panicked" /\ failure = "none" THEN "panic" ELSE failure
       \/ co = "join_rx" /\ Ended(rx) /\ co' = "final"
          /\ failure' = IF rx = "panicked" /\ failure = "none" THEN "panic" ELSE failure
    /\ UNCHANGED <<txStopped, rxStopped, drained, stopReason, observerFailed, deadline,
                   pending, txVars, rxVars, ioVars, stats, quiet, history>>

\* Mutant: Final is observed after an observer that failed.
CoFinishAgain ==
    LET reason == IF failure = "none" /\ stopReason = "none" THEN "rx_idle" ELSE stopReason
    IN  /\ co = "final"
        /\ \E ok \in ObserverOutcomes :
              /\ log' = Append(log, Event("final", reason, failure, ok))
              /\ IF ~ok THEN Return("none", "observer")
                 ELSE IF failure # "none" THEN Return("none", failure)
                 ELSE Return(reason, "none")
        /\ UNCHANGED <<txStopped, rxStopped, drained, stopReason, failure, observerFailed,
                       deadline, pending, txVars, rxVars, ioVars, stats, quiet,
                       submitted, consumed, taken, byCaller>>

\* The tail of run_session_observed.
CoFinish ==
    LET reason == IF failure = "none" /\ stopReason = "none" THEN "rx_idle" ELSE stopReason
    IN  /\ co = "final"
        /\ \/ observerFailed /\ Return("none", failure) /\ UNCHANGED log
           \/ /\ ~observerFailed
              /\ \E ok \in ObserverOutcomes :
                    /\ log' = Append(log, Event("final", reason, failure, ok))
                    /\ IF ~ok THEN Return("none", "observer")
                       ELSE IF failure # "none" THEN Return("none", failure)
                       ELSE Return(reason, "none")
        /\ UNCHANGED <<txStopped, rxStopped, drained, stopReason, failure, observerFailed,
                       deadline, pending, txVars, rxVars, ioVars, stats, quiet,
                       submitted, consumed, taken, byCaller>>

Coordinator == \/ CoStart \/ CoSpawnRx \/ CoSpawnTx \/ CoAbort \/ CoPoll
               \/ CoRecvDrained \/ CoObserved \/ CoRecvError \/ CoRecvStopped
               \/ CoRecvActivity \/ CoRecvNothing \/ CoJoin \/ CoFinish

=============================================================================
