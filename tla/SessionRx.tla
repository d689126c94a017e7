----------------------------- MODULE SessionRx ------------------------------
(***************************************************************************)
(* The RX worker of a session: rx_worker, its transfers and its output.    *)
(***************************************************************************)
EXTENDS SessionState

RxCheck ==
    /\ rx = "check"
    /\ rx' = IF cancelled THEN "stop" ELSE "reading"
    /\ UNCHANGED <<coVars, txVars, held, status, rxResult, ioVars, stats, quiet, history>>

\* transport.read returns; bytes go out before the failure is looked at.
RxReadReturn ==
    /\ rx = "reading"
    /\ \E n \in Completions(MaxRx - taken), f \in Failures :
          LET lied == n > MaxRx - taken
              bad  == lied \/ (n = 0 /\ f \in {"fatal", "none"})
          IN  /\ bad => "transport" \in Faults
              /\ held' = IF lied THEN 0 ELSE n
              /\ taken' = IF lied THEN taken ELSE taken + n
              /\ status' = IF n > 0 /\ ~bad THEN f ELSE "none"
              /\ IF bad THEN RxFails
                 ELSE rx' = (IF n > 0 THEN "output" ELSE "check") /\ UNCHANGED rxResult
    /\ UNCHANGED <<coVars, txVars, ioVars, stats, quiet,
                   submitted, consumed, byCaller, log, result>>

RxOutputLock ==
    /\ rx = "output" /\ output = "free"
    /\ output' = "rx" /\ rx' = "outputting"
    /\ UNCHANGED <<coVars, txVars, held, status, rxResult, queue, cancelled, ioCancelled,
                   stats, quiet, history>>

\* Mutant: a failed write to the output is ignored.
RxOutputReturnLossy ==
    /\ rx = "outputting" /\ output' = "free" /\ status' = "none"
    /\ held' = 0 /\ rx' = "check" /\ UNCHANGED rxResult
    /\ \/ /\ stats' = [stats EXCEPT !.received = @ + held]
          /\ quiet' = 0 /\ queue' = Append(queue, RxActivity)
       \/ "output" \in Faults /\ UNCHANGED <<stats, quiet, queue>>
    /\ UNCHANGED <<coVars, txVars, cancelled, ioCancelled, history>>

\* write_all_and_flush returns: count the bytes, stamp last_rx, send
\* RxActivity (nothing another thread reads tells the three apart), then act
\* on the failure.  A failed write counts nothing.
RxOutputReturn ==
    /\ rx = "outputting" /\ output' = "free" /\ status' = "none"
    /\ \/ /\ stats' = [stats EXCEPT !.received = @ + held]
          /\ held' = 0 /\ quiet' = 0
          /\ queue' = Append(queue, RxActivity)
          /\ IF status = "fatal" THEN RxFails ELSE rx' = "check" /\ UNCHANGED rxResult
       \/ /\ "output" \in Faults /\ RxFails
          /\ UNCHANGED <<stats, held, quiet, queue>>
    /\ UNCHANGED <<coVars, txVars, cancelled, ioCancelled, history>>

RxSend ==
    /\ \/ rx = "error" /\ queue' = Append(queue, rxResult) /\ rx' = "stop"
       \/ rx = "stop" /\ queue' = Append(queue, RxStopped) /\ rx' = "done"
    /\ UNCHANGED <<coVars, txVars, held, status, rxResult, output, cancelled, ioCancelled,
                   stats, quiet, history>>

RxPanic ==
    /\ "panic" \in Faults
    /\ rx \in {"reading", "outputting"}
    /\ rx' = "panicked"
    /\ output' = IF rx = "outputting" THEN "free" ELSE output
    /\ UNCHANGED <<coVars, txVars, held, status, rxResult, queue, cancelled, ioCancelled,
                   stats, quiet, history>>

RxWorker == \/ RxCheck \/ RxReadReturn \/ RxOutputLock \/ RxOutputReturn
            \/ RxSend \/ RxPanic

=============================================================================
