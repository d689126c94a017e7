--------------------------- MODULE SessionProofs ---------------------------
(***************************************************************************)
(* Proofs, for every value of the constants, that the safety properties of *)
(* Session hold: IInv of SessionInvariant is inductive and implies them.   *)
(* One lemma per conjunct of IInv, one step per action.  Then that Session *)
(* implements SessionContract.                                             *)
(***************************************************************************)
EXTENDS SessionInvariant, TLAPS

-----------------------------------------------------------------------------
(* What the steps with several outcomes do, and what an append or a receive
   does to a sequence. *)

\* What a chunk has for the transport is a number of bytes.
LEMMA TransmittedType ==
  ASSUME NEW c \in Chunks
  PROVE  Transmitted(c) \in Nat
  <1>1. c \in [plain : Nat, rest : Nat] BY ChunkAssumption DEF ChunkOk
  <1> QED BY <1>1 DEF Transmitted

\* transport.write returning: what the completion does to the bytes owed and counted.
LEMMA WriteFacts ==
  ASSUME TypeOK, TxWriteReturn
  PROVE  /\ tx = "writing"
         /\ \/ tx' = "write" /\ txResult' = txResult
            \/ tx' = "send" /\ txResult' = WorkerError("tx_error")
         /\ left' \in Nat /\ stats' \in Stats
         /\ stats'.accepted + left' = stats.accepted + left
         /\ stats'.accepted >= stats.accepted
         /\ stats'.completed = stats.completed /\ stats'.received = stats.received
         /\ UNCHANGED <<coVars, escape, rxVars, ioVars, quiet, history>>
  <1>1. stats \in Stats /\ left \in Nat BY DEF TypeOK
  <1>2. PICK n \in Completions(left) :
           \/ stats' = stats /\ left' = left
           \/ n <= left /\ stats' = [stats EXCEPT !.accepted = @ + n] /\ left' = left - n
    <2>1. PICK n \in Completions(left) : 
          /\ left' = IF n > left THEN left ELSE left - n
          /\ stats' = IF n > left THEN stats ELSE [stats EXCEPT !.accepted = @ + n]
          BY DEF TxWriteReturn
    <2>2. n \in Nat BY <1>1 DEF Completions
    <2>3. n > left \/ n <= left BY <2>2, <1>1
    <2> QED BY <2>1, <2>3
  <1>3. n \in Nat BY <1>1 DEF Completions
  <1>4. /\ left' \in Nat /\ stats' \in Stats
        /\ stats'.accepted + left' = stats.accepted + left
        /\ stats'.accepted >= stats.accepted
        /\ stats'.completed = stats.completed /\ stats'.received = stats.received
    <2>1. CASE stats' = stats /\ left' = left BY <2>1, <1>1 DEF Stats
    <2>2. CASE n <= left /\ stats' = [stats EXCEPT !.accepted = @ + n] /\ left' = left - n
       BY <2>2, <1>1, <1>3 DEF Stats
    <2> QED BY <1>2, <2>1, <2>2
  <1> QED BY <1>4 DEF TxWriteReturn, TxEndsWith

\* The caller's writer returning to the RX worker: the held bytes are counted, or the
\* worker fails and nothing is.
LEMMA OutputFacts ==
  ASSUME TypeOK, RxOutputReturn
  PROVE  /\ rx = "outputting" /\ output' = "free"
         /\ \/ /\ held' = 0 /\ stats'.received = stats.received + held
               /\ queue' = Append(queue, RxActivity)
               /\ \/ rx' = "check" /\ rxResult' = rxResult
                  \/ rx' = "error" /\ rxResult' = WorkerError("rx_error")
            \/ /\ held' = held /\ stats' = stats /\ queue' = queue
               /\ rx' = "error" /\ rxResult' = WorkerError("rx_error")
         /\ stats' \in Stats /\ quiet' \in Nat
         /\ stats'.completed = stats.completed /\ stats'.accepted = stats.accepted
         /\ status' = "none"
         /\ UNCHANGED <<coVars, txVars, cancelled, ioCancelled, history>>
  <1>1. stats \in Stats /\ held \in Nat /\ quiet \in Nat BY DEF TypeOK
  <1>2. \/ /\ stats' = [stats EXCEPT !.received = @ + held]
           /\ held' = 0 /\ quiet' = 0 /\ queue' = Append(queue, RxActivity)
           /\ \/ rx' = "check" /\ rxResult' = rxResult
              \/ rx' = "error" /\ rxResult' = WorkerError("rx_error")
        \/ /\ held' = held /\ stats' = stats /\ queue' = queue /\ quiet' = quiet
           /\ rx' = "error" /\ rxResult' = WorkerError("rx_error")
    BY DEF RxOutputReturn, RxFails
  <1>3. [stats EXCEPT !.received = @ + held] \in Stats
        /\ [stats EXCEPT !.received = @ + held].received = stats.received + held
        /\ [stats EXCEPT !.received = @ + held].accepted = stats.accepted
        /\ [stats EXCEPT !.received = @ + held].completed = stats.completed
    BY <1>1 DEF Stats
  <1>4. stats' \in Stats
        /\ stats'.completed = stats.completed /\ stats'.accepted = stats.accepted
    BY <1>1, <1>2, <1>3
  <1>6. quiet' \in Nat
    <2>1. quiet' = 0 \/ quiet' = quiet BY DEF RxOutputReturn
    <2> QED BY <1>1, <2>1
  <1>5. UNCHANGED <<coVars, txVars, cancelled, ioCancelled, history>> /\ status' = "none" /\ output' = "free" /\ rx = "outputting"
    BY DEF RxOutputReturn
  <1> QED BY <1>2, <1>3, <1>4, <1>5, <1>6

\* transport.drain returning: all accepted bytes are completed, or the worker fails.
LEMMA DrainFacts ==
  ASSUME TypeOK, TxDrain
  PROVE  /\ tx = "drain" /\ tx' = "send" /\ submitted' \in Nat /\ stats' \in Stats
         /\ \/ /\ txResult' \in {TxDrained("console_escape"), TxDrained("rx_idle")}
               /\ stats'.completed = stats.accepted
            \/ txResult' = WorkerError("tx_error") /\ stats' = stats
         /\ stats'.accepted = stats.accepted /\ stats'.received = stats.received
         /\ UNCHANGED <<coVars, left, escape, rxVars, ioVars, quiet, consumed, taken, byCaller, log, result>>
  <1>1. stats \in Stats /\ submitted \in Nat BY DEF TypeOK
  <1>2. \/ /\ txResult' \in {TxDrained("console_escape"), TxDrained("rx_idle")}
           /\ stats' = [stats EXCEPT !.completed = stats.accepted] /\ submitted' = stats.accepted
        \/ txResult' = WorkerError("tx_error") /\ stats' = stats /\ submitted' = submitted
    <2>1. \/ /\ TxEndsWith(TxDrained(IF escape THEN "console_escape" ELSE "rx_idle"))
             /\ stats' = [stats EXCEPT !.completed = stats.accepted] /\ submitted' = stats.accepted
          \/ /\ TxEndsWith(WorkerError("tx_error")) /\ stats' = stats /\ submitted' = submitted
      BY DEF TxDrain
    <2>2. ASSUME NEW r, TxEndsWith(r) PROVE txResult' = r BY <2>2 DEF TxEndsWith
    <2> QED BY <2>1, <2>2
  <1>3. [stats EXCEPT !.completed = stats.accepted] \in Stats
        /\ [stats EXCEPT !.completed = stats.accepted].completed = stats.accepted
        /\ [stats EXCEPT !.completed = stats.accepted].accepted = stats.accepted
        /\ [stats EXCEPT !.completed = stats.accepted].received = stats.received
    BY <1>1 DEF Stats
  <1>4. submitted' \in Nat /\ stats' \in Stats BY <1>1, <1>2, <1>3 DEF Stats
  <1> QED BY <1>2, <1>3, <1>4 DEF TxDrain, TxEndsWith

\* What one more call to the observer does to the log's positions.
LEMMA LogPush ==
  ASSUME TypeOK, NEW e, log' = Append(log, e)
  PROVE  /\ Len(log') = Len(log) + 1 /\ Len(log) \in Nat
         /\ \A i \in 1 .. Len(log) : log'[i] = log[i]
         /\ log'[Len(log')] = e
         /\ \A i \in 1 .. Len(log') : log'[i] = e \/ (i \in 1 .. Len(log) /\ log'[i] = log[i])
  BY DEF TypeOK

\* The observer returning from Running.
LEMMA StartFacts ==
  ASSUME TypeOK, CoStart
  PROVE  /\ co = "start"
         /\ \E ok \in BOOLEAN :
               /\ log' = Append(log, Event("running", "none", "none", ok))
               /\ \/ ok /\ co' = "spawn_rx" /\ result' = result
                  \/ ~ok /\ co' = "done" /\ result'.error = "observer"
                     /\ result'.reason = "none"
         /\ UNCHANGED <<txStopped, rxStopped, drained, stopReason, failure, observerFailed,
                        deadline, pending, txVars, rxVars, ioVars, stats, quiet,
                        submitted, consumed, taken, byCaller>>
  <1>1. PICK ok \in BOOLEAN :
           /\ log' = Append(log, Event("running", "none", "none", ok))
           /\ IF ok THEN co' = "spawn_rx" /\ UNCHANGED result ELSE Return("none", "observer")
    BY DEF CoStart, ObserverOutcomes
  <1>2. Return("none", "observer") =>
           co' = "done" /\ result'.error = "observer" /\ result'.reason = "none"
    BY DEF Return
  <1>3. co = "start" /\ UNCHANGED <<txStopped, rxStopped, drained, stopReason, failure,
              observerFailed, deadline, pending, txVars, rxVars, ioVars, stats, quiet,
              submitted, consumed, taken, byCaller>>
    BY DEF CoStart
  <1> QED BY <1>1, <1>2, <1>3

\* The observer returning from Draining.
LEMMA ObservedFacts ==
  ASSUME TypeOK, CoObserved
  PROVE  /\ co = "observe" /\ co' = "poll" /\ pending' = NoCall
         /\ \E ok \in BOOLEAN, e \in Entries :
               /\ log' = Append(log, e)
               /\ e.phase = pending.phase /\ e.reason = pending.reason
               /\ e.stats = pending.stats /\ e.ok = ok
               /\ \/ /\ ~ok /\ failure' = "observer" /\ observerFailed' = TRUE /\ Shutdown
                     /\ UNCHANGED <<stopReason, drained>>
                  \/ /\ ok /\ (Mode = "console" \/ pending.reason = "cancelled")
                     /\ stopReason' = pending.reason /\ Shutdown
                     /\ UNCHANGED <<failure, observerFailed, drained>>
                  \/ /\ ok /\ pending.reason # "cancelled" /\ drained' = TRUE
                     /\ UNCHANGED <<stopReason, failure, observerFailed, deadline,
                                    cancelled, ioCancelled>>
         /\ UNCHANGED <<txStopped, rxStopped, txVars, rxVars, output, queue, stats,
                        submitted, consumed, taken, byCaller, result>>
  <1>1. ASSUME NEW ok \in BOOLEAN
        PROVE  /\ [pending EXCEPT !.ok = ok] \in Entries
               /\ [pending EXCEPT !.ok = ok].phase = pending.phase
               /\ [pending EXCEPT !.ok = ok].reason = pending.reason
               /\ [pending EXCEPT !.ok = ok].stats = pending.stats
               /\ [pending EXCEPT !.ok = ok].ok = ok
    BY DEF TypeOK, Entries
  <1>2. PICK ok \in BOOLEAN :
           /\ log' = Append(log, [pending EXCEPT !.ok = ok])
           /\ \/ /\ ~ok /\ failure' = "observer" /\ observerFailed' = TRUE /\ Shutdown
                 /\ UNCHANGED <<stopReason, drained>>
              \/ /\ ok /\ (Mode = "console" \/ pending.reason = "cancelled")
                 /\ stopReason' = pending.reason /\ Shutdown
                 /\ UNCHANGED <<failure, observerFailed, drained>>
              \/ /\ ok /\ pending.reason # "cancelled" /\ drained' = TRUE
                 /\ UNCHANGED <<stopReason, failure, observerFailed, deadline,
                                cancelled, ioCancelled>>
    BY DEF CoObserved, ObserverOutcomes
  <1>3. /\ co = "observe" /\ co' = "poll" /\ pending' = NoCall
        /\ UNCHANGED <<txStopped, rxStopped, txVars, rxVars, output, queue, stats,
                       submitted, consumed, taken, byCaller, result>>
    BY DEF CoObserved
  <1>4. PICK e \in Entries : /\ e = [pending EXCEPT !.ok = ok]
                             /\ e.phase = pending.phase /\ e.reason = pending.reason
                             /\ e.stats = pending.stats /\ e.ok = ok
    BY <1>1
  <1> QED BY <1>2, <1>3, <1>4

\* The tail of run_session_observed: the Final event and the value returned.
LEMMA FinishFacts ==
  ASSUME TypeOK, CoFinish
  PROVE  /\ co = "final" /\ co' = "done" /\ result'.stats = stats
         /\ \/ observerFailed /\ log' = log /\ result'.error = failure /\ result'.reason = "none"
            \/ /\ ~observerFailed
               /\ \E ok \in BOOLEAN, reason \in Reasons \cup {"none"} :
                     /\ log' = Append(log, Event("final", reason, failure, ok))
                     /\ IF ~ok THEN result'.error = "observer" /\ result'.reason = "none"
                        ELSE /\ result'.error = failure
                             /\ result'.reason = IF failure # "none" THEN "none" ELSE reason
         /\ UNCHANGED <<txStopped, rxStopped, drained, stopReason, failure, observerFailed,
                        deadline, pending, txVars, rxVars, ioVars, stats, quiet,
                        submitted, consumed, taken, byCaller>>
  <1>1. UNCHANGED <<txStopped, rxStopped, drained, stopReason, failure, observerFailed,
                        deadline, pending, txVars, rxVars, ioVars, stats, quiet,
                        submitted, consumed, taken, byCaller>> BY DEF CoFinish
  <1>2. co = "final" /\ co' = "done" /\ result'.stats = stats
    BY DEF CoFinish, Return
  <1> DEFINE reason == IF failure = "none" /\ stopReason = "none" THEN "rx_idle" ELSE stopReason
  <1>3. reason \in Reasons \cup {"none"} BY DEF TypeOK, Reasons
  <1>4. CASE observerFailed /\ Return("none", failure) /\ UNCHANGED log
    BY <1>1, <1>2, <1>4 DEF Return
  <1>5. ASSUME ~observerFailed, NEW ok \in BOOLEAN,
               log' = Append(log, Event("final", reason, failure, ok)),
               IF ~ok THEN Return("none", "observer")
               ELSE IF failure # "none" THEN Return("none", failure)
               ELSE Return(reason, "none")
        PROVE  \E k \in BOOLEAN, r \in Reasons \cup {"none"} :
                     /\ log' = Append(log, Event("final", r, failure, k))
                     /\ IF ~k THEN result'.error = "observer" /\ result'.reason = "none"
                        ELSE /\ result'.error = failure
                             /\ result'.reason = IF failure # "none" THEN "none" ELSE r
    <2>1. IF ~ok THEN result'.error = "observer" /\ result'.reason = "none"
          ELSE /\ result'.error = failure
               /\ result'.reason = IF failure # "none" THEN "none" ELSE reason
      BY <1>5 DEF Return
    <2> QED BY <1>3, <1>5, <2>1
  <1>6. \/ observerFailed /\ Return("none", failure) /\ UNCHANGED log
        \/ /\ ~observerFailed
           /\ \E ok \in BOOLEAN :
                 /\ log' = Append(log, Event("final", reason, failure, ok))
                 /\ IF ~ok THEN Return("none", "observer")
                    ELSE IF failure # "none" THEN Return("none", failure)
                    ELSE Return(reason, "none")
    BY DEF CoFinish, ObserverOutcomes
  <1> QED BY <1>1, <1>2, <1>4, <1>5, <1>6

\* One call of the observer has the type of a log entry.
LEMMA EntryType ==
  ASSUME TypeOK,
         NEW phase \in Phases, NEW reason \in Reasons \cup {"none"},
         NEW error \in Errors \cup {"none"}, NEW ok \in BOOLEAN
  PROVE  /\ Event(phase, reason, error, ok) \in Entries
         /\ Append(log, Event(phase, reason, error, ok)) \in Seq(Entries)
  <1>1. Event(phase, reason, error, ok) \in Entries BY DEF TypeOK, Event, Entries
  <1> QED BY <1>1 DEF TypeOK

\* What an append to the channel does to its positions.
LEMMA Push ==
  ASSUME TypeOK, NEW m, queue' = Append(queue, m)
  PROVE  /\ Len(queue') = Len(queue) + 1 /\ Len(queue) \in Nat
         /\ \A i \in 1 .. Len(queue) : i \in 1 .. Len(queue') /\ queue'[i] = queue[i]
         /\ \A i \in 1 .. Len(queue') : \/ i \in 1 .. Len(queue) /\ queue'[i] = queue[i]
                                        \/ i = Len(queue) + 1 /\ queue'[i] = m
         /\ queue'[Len(queue) + 1] = m
  BY DEF TypeOK

\* What a receive from the channel does to its positions.
LEMMA Pop ==
  ASSUME TypeOK, queue # <<>>, queue' = Tail(queue)
  PROVE  /\ 1 \in 1 .. Len(queue) /\ Head(queue) = queue[1] /\ queue[1] \in Messages
         /\ Len(queue) \in Nat /\ Len(queue') = Len(queue) - 1
         /\ \A i \in 1 .. Len(queue') : i + 1 \in 1 .. Len(queue) /\ queue'[i] = queue[i + 1]
         /\ \A i \in 2 .. Len(queue) : i - 1 \in 1 .. Len(queue') /\ queue'[i - 1] = queue[i]
  BY DEF TypeOK

\* A message is told apart by its kind field.
LEMMA Kinds ==
  ASSUME NEW m \in Messages
  PROVE  /\ m.kind = "tx_stopped" <=> m = TxStopped
         /\ m.kind = "rx_stopped" <=> m = RxStopped
         /\ m.kind = "tx_drained" => m.arg \in Reasons /\ m = TxDrained(m.arg)
         /\ m.kind = "worker_error" <=>
               m = WorkerError("tx_error") \/ m = WorkerError("rx_error")
  BY DEF Messages, TxStopped, RxStopped, RxActivity, TxDrained, WorkerError

-----------------------------------------------------------------------------
(* The invariant. *)

\* The invariant holds before the call starts.
LEMMA InitIInv == Init => IInv
  <1> SUFFICES ASSUME Init PROVE IInv OBVIOUS
  <1>1. stats \in Stats BY DEF Init, Stats, Zero
  <1>2. result \in Results BY <1>1 DEF Init, Results
  <1>3. deadline \in {NoDeadline} \cup 0 .. DrainTimeout /\ taken \in 0 .. MaxRx
    BY BoundAssumption DEF Init
  <1>4. /\ txStopped \in BOOLEAN /\ rxStopped \in BOOLEAN /\ drained \in BOOLEAN
        /\ observerFailed \in BOOLEAN /\ escape \in BOOLEAN
        /\ cancelled \in BOOLEAN /\ ioCancelled \in BOOLEAN /\ byCaller \in BOOLEAN
    BY DEF Init
  <1>10. pending \in Entries BY DEF Init, NoCall, Zero, Stats, Entries, Phases
  <1>5. /\ queue \in Seq(Messages) /\ log \in Seq(Entries)
        /\ txResult \in Messages \cup {NoEvent} /\ rxResult \in Messages \cup {NoEvent}
    BY DEF Init
  <1>6. TypeOK BY <1>1, <1>2, <1>3, <1>4, <1>5, <1>10 DEF Init, TypeOK
  <1>7. ThreadInv /\ MutexInv /\ TxInv /\ RxInv /\ QueueInv
    BY DEF Init, ThreadInv, MutexInv, TxInv, RxInv, QueueInv, Running, Joining, TxReported,
           RxReported, InQueue, NoEvent, TxDrained, WorkerError, Zero
  <1>8. ErrorInv /\ DrainInv /\ CancelInv /\ LogInv /\ DoneInv
    BY DEF Init, ErrorInv, DrainInv, CancelInv, LogInv, DoneInv, Running, Joining,
           TxReported, RxReported, Succeeded, NoDeadline, Zero
  <1>9. Conservation /\ CompletedMeansDrained
    BY DEF Init, Conservation, CompletedMeansDrained, NoEvent, Zero
  <1> QED BY <1>6, <1>7, <1>8, <1>9 DEF IInv

-----------------------------------------------------------------------------

\* Every step preserves the types; a worker sends a message only when it has one.
LEMMA TypeStep ==
  ASSUME TypeOK, TxInv, RxInv, [Next]_vars
  PROVE  TypeOK'
  <1> USE DEF coVars, txVars, rxVars, ioVars, history
  <1>1. CASE CoStart
    <2>1. log' \in Seq(Entries)
      <3>1. PICK ok \in BOOLEAN : log' = Append(log, Event("running", "none", "none", ok))
        BY <1>1 DEF CoStart, ObserverOutcomes
      <3> QED BY <3>1, EntryType DEF Phases
    <2>2. co' \in {"spawn_rx", "done"} BY <1>1 DEF CoStart, Return
    <2>3. result' \in Results BY <1>1 DEF TypeOK, CoStart, Return, Results, Errors
    <2> QED BY <1>1, <2>1, <2>2, <2>3 DEF TypeOK, CoStart
  <1>2. CASE CoSpawnRx BY <1>2 DEF TypeOK, CoSpawnRx, Return, Results, Errors
  <1>3. CASE CoSpawnTx
    <2>1. /\ tx' \in {tx, "check"} /\ co' \in {"poll", "abort"}
          /\ cancelled' \in BOOLEAN /\ ioCancelled' \in BOOLEAN
      BY <1>3 DEF TypeOK, CoSpawnTx
    <2> QED BY <1>3, <2>1 DEF TypeOK, CoSpawnTx
  <1>4. CASE CoAbort BY <1>4 DEF TypeOK, CoAbort, Return, Results, Errors
  <1>5. CASE CoPoll
    BY <1>5, TimerAssumption DEF TypeOK, CoPoll, Reasons, Errors, NoDeadline
  <1>6. CASE CoRecvDrained
    <2>1. /\ queue # <<>> /\ queue' = Tail(queue) /\ Head(queue).kind = "tx_drained"
          /\ co' = "observe"
          /\ pending' = Event("draining", Head(queue).arg, "none", TRUE)
      BY <1>6 DEF CoRecvDrained, Receive
    <2>2. Head(queue).arg \in Reasons BY <2>1, Pop, Kinds
    <2>3. pending' \in Entries BY <2>1, <2>2, EntryType DEF Phases
    <2>4. queue' \in Seq(Messages) BY <2>1 DEF TypeOK
    <2>5. UNCHANGED <<txStopped, rxStopped, drained, stopReason, failure, observerFailed,
                      deadline, txVars, rxVars, output, cancelled, ioCancelled, stats,
                      quiet, history>>
      BY <1>6 DEF CoRecvDrained
    <2>6. co' = "observe" BY <2>1
    <2> QED BY <2>3, <2>4, <2>5, <2>6 DEF TypeOK
  <1>7. CASE CoObserved
    <2>1. log' \in Seq(Entries)
      <3>1. PICK e \in Entries : log' = Append(log, e) BY <1>7, ObservedFacts
      <3> QED BY <3>1 DEF TypeOK
    <2>2. co' = "poll" /\ pending' \in Entries
      BY <1>7 DEF CoObserved, NoCall, Zero, Stats, Entries, Phases
    <2>3. /\ failure' \in {failure, "observer"} /\ stopReason' \in {stopReason, pending.reason}
          /\ deadline' \in {deadline, DrainTimeout} /\ quiet' \in {quiet, 0}
      BY <1>7 DEF CoObserved, Shutdown
    <2>4. /\ observerFailed' \in BOOLEAN /\ drained' \in BOOLEAN
          /\ cancelled' \in BOOLEAN /\ ioCancelled' \in BOOLEAN
      BY <1>7 DEF TypeOK, CoObserved, Shutdown
    <2>5. UNCHANGED <<txStopped, rxStopped, txVars, rxVars, output, queue, stats,
                       submitted, consumed, taken, byCaller, result>>
      BY <1>7 DEF CoObserved
    <2>6. /\ deadline' \in {NoDeadline} \cup 0 .. DrainTimeout /\ quiet' \in Nat
          /\ failure' \in Errors \cup {"none"} /\ stopReason' \in Reasons \cup {"none"}
      BY <2>3, TimerAssumption DEF TypeOK, Errors, Entries
    <2> QED BY <2>1, <2>2, <2>4, <2>5, <2>6 DEF TypeOK
  <1>8. CASE CoRecvError
    BY <1>8, TimerAssumption
    DEF TypeOK, CoRecvError, Receive, Shutdown, Messages, RxActivity, TxStopped,
        RxStopped, Errors
  <1>9. CASE CoRecvStopped
    <2>1. /\ txStopped' \in BOOLEAN /\ rxStopped' \in BOOLEAN
          /\ co' \in {"poll", "join"} /\ queue' = Tail(queue) /\ queue # <<>>
      BY <1>9 DEF TypeOK, CoRecvStopped, Receive
    <2>2. queue' \in Seq(Messages) BY <2>1 DEF TypeOK
    <2> QED BY <1>9, <2>1, <2>2 DEF TypeOK, CoRecvStopped
  <1>10. CASE CoRecvActivity BY <1>10 DEF TypeOK, CoRecvActivity, Receive
  <1>11. CASE CoRecvNothing BY <1>11 DEF TypeOK, CoRecvNothing
  <1>12. CASE CoJoin BY <1>12 DEF TypeOK, CoJoin, Errors
  <1>13. CASE CoFinish
    <2>1. log' \in Seq(Entries)
      <3>1. PICK ok \in BOOLEAN, reason \in Reasons \cup {"none"} :
               log' = log \/ log' = Append(log, Event("final", reason, failure, ok))
        BY <1>13 DEF TypeOK, CoFinish, ObserverOutcomes, Reasons
      <3>2. stats \in Stats /\ failure \in Errors \cup {"none"} BY DEF TypeOK
      <3>3. Event("final", reason, failure, ok) \in Entries BY <3>2, EntryType DEF Phases
      <3>4. log \in Seq(Entries) BY DEF TypeOK
      <3> QED BY <3>1, <3>3, <3>4
    <2>2. co' = "done" BY <1>13 DEF CoFinish, Return
    <2>3. result' \in Results BY <1>13 DEF TypeOK, CoFinish, Return, Results, Errors, Reasons
    <2> QED BY <1>13, <2>1, <2>2, <2>3 DEF TypeOK, CoFinish
  <1>14. CASE TxCheck
    BY <1>14 DEF TypeOK, TxCheck, TxEndsWith, TxDrained, Messages, Reasons
  <1>15. CASE TxReadChunk
    BY <1>15, ChunkAssumption DEF TypeOK, TxReadChunk, ChunkOk, Transmitted, HasEscape
  <1>16. CASE TxReadEof BY <1>16 DEF TypeOK, TxReadEof
  <1>17. CASE TxReadError
    BY <1>17 DEF TypeOK, TxReadError, TxEndsWith, WorkerError, Messages
  <1>18. CASE TxEchoLock BY <1>18 DEF TypeOK, TxEchoLock
  <1>19. CASE TxEchoReturn
    BY <1>19 DEF TypeOK, TxEchoReturn, TxEndsWith, WorkerError, Messages
  <1>20. CASE TxWriteCall BY <1>20 DEF TypeOK, TxWriteCall
  <1>21. CASE TxWriteReturn
    <2>1. /\ tx' \in {"write", "send"} /\ left' \in Nat /\ stats' \in Stats
          /\ UNCHANGED <<coVars, escape, rxVars, ioVars, quiet, history>>
      BY <1>21, WriteFacts
    <2>2. txResult' \in Messages \cup {NoEvent}
      BY <1>21, WriteFacts DEF TypeOK, WorkerError, Messages
    <2> QED BY <2>1, <2>2 DEF TypeOK, coVars, rxVars, ioVars, history
  <1>22. CASE TxSubmit BY <1>22 DEF TypeOK, TxSubmit, Stats
  <1>23. CASE TxDrain
    BY <1>23, DrainFacts
    DEF TypeOK, WorkerError, TxDrained, RxActivity, Messages, Reasons
  <1>24. CASE TxSend
    <2>1. tx' \in {"stop", "done"} BY <1>24 DEF TxSend
    <2>2. tx = "send" => txResult \in Messages BY DEF TypeOK, TxInv
    <2>3. TxStopped \in Messages BY DEF Messages
    <2>4. queue' \in Seq(Messages) BY <1>24, <2>2, <2>3 DEF TypeOK, TxSend
    <2> QED BY <1>24, <2>1, <2>4 DEF TypeOK, TxSend
  <1>25. CASE TxPanic BY <1>25 DEF TypeOK, TxPanic
  <1>26. CASE RxCheck BY <1>26 DEF TypeOK, RxCheck
  <1>27. CASE RxReadReturn
    BY <1>27, BoundAssumption
    DEF TypeOK, RxReadReturn, Completions, Failures, RxFails, WorkerError, Messages
  <1>28. CASE RxOutputLock BY <1>28 DEF TypeOK, RxOutputLock
  <1>29. CASE RxOutputReturn
    <2>1. RxActivity \in Messages /\ WorkerError("rx_error") \in Messages
      BY DEF Messages, WorkerError
    <2>2. queue' \in Seq(Messages)
      <3>1. queue' = queue \/ queue' = Append(queue, RxActivity) BY <1>29, OutputFacts
      <3> QED BY <2>1, <3>1 DEF TypeOK
    <2>3. /\ held' \in Nat /\ rx' \in {"check", "error"}
          /\ rxResult' \in Messages \cup {NoEvent}
      BY <1>29, <2>1, OutputFacts DEF TypeOK
    <2>4. /\ stats' \in Stats /\ quiet' \in Nat /\ output' = "free" /\ status' = "none"
          /\ UNCHANGED <<coVars, txVars, cancelled, ioCancelled, history>>
      BY <1>29, OutputFacts
    <2> QED BY <2>2, <2>3, <2>4 DEF TypeOK, coVars, txVars, history
  <1>30. CASE RxSend
    <2>1. rx' \in {"stop", "done"} BY <1>30 DEF RxSend
    <2>2. rx = "error" => rxResult \in Messages BY DEF TypeOK, RxInv
    <2>3. RxStopped \in Messages BY DEF Messages
    <2>4. queue' \in Seq(Messages) BY <1>30, <2>2, <2>3 DEF TypeOK, RxSend
    <2> QED BY <1>30, <2>1, <2>4 DEF TypeOK, RxSend
  <1>31. CASE RxPanic BY <1>31 DEF TypeOK, RxPanic
  <1>32. CASE CallerCancel BY <1>32 DEF TypeOK, CallerCancel
  <1>33. CASE Tick BY <1>33, TimerAssumption DEF TypeOK, Tick, NoDeadline
  <1>34. CASE UNCHANGED vars BY <1>34 DEF TypeOK, vars
  <1> QED
    BY <1>1, <1>2, <1>3, <1>4, <1>5, <1>6, <1>7, <1>8, <1>9, <1>10, <1>11, <1>12, <1>13,
       <1>14, <1>15, <1>16, <1>17, <1>18, <1>19, <1>20, <1>21, <1>22, <1>23, <1>24, <1>25,
       <1>26, <1>27, <1>28, <1>29, <1>30, <1>31, <1>32, <1>33, <1>34
    DEF Next, Coordinator, TxWorker, RxWorker, Returned

\* A stop flag is raised by its worker's last event.
LEMMA StopReceived ==
  ASSUME TypeOK, QueueInv, CoRecvStopped
  PROVE  /\ txStopped' => tx = "done"
         /\ rxStopped' => rx = "done"
         /\ UNCHANGED <<tx, rx>>
  <1>1. queue # <<>> /\ Head(queue) = queue[1] /\ 1 \in 1 .. Len(queue) /\ queue[1] \in Messages
    BY DEF TypeOK, CoRecvStopped, Receive
  <1>2. queue[1].kind = "tx_stopped" => queue[1] = TxStopped
    BY <1>1 DEF Messages, RxActivity, TxStopped, RxStopped
  <1>3. queue[1].kind = "rx_stopped" => queue[1] = RxStopped
    BY <1>1 DEF Messages, RxActivity, TxStopped, RxStopped
  <1>4. UNCHANGED <<tx, rx>> BY DEF CoRecvStopped, txVars, rxVars
  <1>5. CASE queue[1].kind = "tx_stopped" /\ txStopped' = TRUE /\ rxStopped' = rxStopped
    BY <1>1, <1>2, <1>4, <1>5 DEF QueueInv, InQueue
  <1>6. CASE queue[1].kind = "rx_stopped" /\ rxStopped' = TRUE /\ txStopped' = txStopped
    BY <1>1, <1>3, <1>4, <1>6 DEF QueueInv, InQueue
  <1> QED BY <1>1, <1>4, <1>5, <1>6 DEF CoRecvStopped, Receive

\* Every step keeps the program counters of the three threads compatible.
LEMMA ThreadStep ==
  ASSUME TypeOK, ThreadInv, QueueInv, [Next]_vars
  PROVE  ThreadInv'
  <1> USE DEF TypeOK, ThreadInv, Running, Joining, Ended
  <1>1. CASE CoStart
    BY <1>1 DEF CoStart, Return, Event, ObserverOutcomes, txVars, rxVars, ioVars
  <1>2. CASE CoSpawnRx BY <1>2 DEF CoSpawnRx, Return, txVars, ioVars
  <1>3. CASE CoSpawnTx BY <1>3 DEF CoSpawnTx, rxVars, history
  <1>4. CASE CoAbort BY <1>4 DEF CoAbort, Return, txVars, rxVars, ioVars
  <1>5. CASE CoPoll BY <1>5 DEF CoPoll, txVars, rxVars, history
  <1>6. CASE CoRecvDrained BY <1>6 DEF CoRecvDrained, Receive, txVars, rxVars, history
  <1>7. CASE CoObserved
    BY <1>7 DEF CoObserved, Event, ObserverOutcomes, Shutdown, txVars, rxVars
  <1>8. CASE CoRecvError
    BY <1>8 DEF CoRecvError, Receive, Shutdown, txVars, rxVars, history
  <1>9. CASE CoRecvStopped
    <2>1. co' \in {"poll", "join"} /\ (co' = "join" => txStopped' /\ rxStopped') /\ co = "recv"
      BY <1>9 DEF CoRecvStopped, Receive
    <2> QED BY <1>9, <2>1, StopReceived
  <1>10. CASE CoRecvActivity
    BY <1>10 DEF CoRecvActivity, Receive, txVars, rxVars, history
  <1>11. CASE CoRecvNothing BY <1>11 DEF CoRecvNothing, txVars, rxVars, ioVars, history
  <1>12. CASE CoJoin BY <1>12 DEF CoJoin, txVars, rxVars, ioVars, history
  <1>13. CASE CoFinish
    BY <1>13 DEF CoFinish, Return, Event, ObserverOutcomes, txVars, rxVars, ioVars
  <1>14. CASE TxCheck BY <1>14 DEF TxCheck, TxEndsWith, coVars, rxVars, ioVars, history
  <1>15. CASE TxReadChunk BY <1>15 DEF TxReadChunk, coVars, rxVars, ioVars
  <1>16. CASE TxReadEof BY <1>16 DEF TxReadEof, coVars, rxVars, ioVars, history
  <1>17. CASE TxReadError
    BY <1>17 DEF TxReadError, TxEndsWith, coVars, rxVars, ioVars, history
  <1>18. CASE TxEchoLock BY <1>18 DEF TxEchoLock, coVars, rxVars, history
  <1>19. CASE TxEchoReturn
    BY <1>19 DEF TxEchoReturn, TxEndsWith, coVars, rxVars, history
  <1>20. CASE TxWriteCall BY <1>20 DEF TxWriteCall, coVars, rxVars, ioVars, history
  <1>21. CASE TxWriteReturn BY <1>21, WriteFacts DEF coVars, rxVars, ioVars, history
  <1>22. CASE TxSubmit BY <1>22 DEF TxSubmit, coVars, rxVars, ioVars
  <1>23. CASE TxDrain BY <1>23, DrainFacts DEF coVars, rxVars, ioVars
  <1>24. CASE TxSend BY <1>24 DEF TxSend, coVars, rxVars, history
  <1>25. CASE TxPanic BY <1>25 DEF TxPanic, coVars, rxVars, history
  <1>26. CASE RxCheck BY <1>26 DEF RxCheck, coVars, txVars, ioVars, history
  <1>27. CASE RxReadReturn
    BY <1>27 DEF RxReadReturn, Completions, Failures, RxFails, coVars, txVars, ioVars
  <1>28. CASE RxOutputLock BY <1>28 DEF RxOutputLock, coVars, txVars, history
  <1>29. CASE RxOutputReturn BY <1>29, OutputFacts DEF coVars, txVars, history
  <1>30. CASE RxSend BY <1>30 DEF RxSend, coVars, txVars, history
  <1>31. CASE RxPanic BY <1>31 DEF RxPanic, coVars, txVars, history
  <1>32. CASE CallerCancel BY <1>32 DEF CallerCancel, coVars, txVars, rxVars
  <1>33. CASE Tick BY <1>33 DEF Tick, txVars, rxVars, ioVars, history
  <1>34. CASE UNCHANGED vars
    BY <1>34 DEF vars, coVars, txVars, rxVars, ioVars, history
  <1> QED
    BY <1>1, <1>2, <1>3, <1>4, <1>5, <1>6, <1>7, <1>8, <1>9, <1>10, <1>11, <1>12, <1>13,
             <1>14, <1>15, <1>16, <1>17, <1>18, <1>19, <1>20, <1>21, <1>22, <1>23,
             <1>24, <1>25, <1>26, <1>27, <1>28, <1>29, <1>30, <1>31, <1>32, <1>33, <1>34
    DEF Next, Coordinator, TxWorker, RxWorker, Returned

\* Every step keeps the output mutex with the thread that is inside the writer.
LEMMA MutexStep ==
  ASSUME TypeOK, MutexInv, ThreadInv, [Next]_vars
  PROVE  MutexInv'
  <1> USE DEF TypeOK, MutexInv, ThreadInv
  <1>1. CASE CoStart
    BY <1>1 DEF CoStart, Return, Event, ObserverOutcomes, txVars, rxVars, ioVars
  <1>2. CASE CoSpawnRx BY <1>2 DEF CoSpawnRx, Return, txVars, ioVars
  <1>3. CASE CoSpawnTx BY <1>3 DEF CoSpawnTx, rxVars, history
  <1>4. CASE CoAbort BY <1>4 DEF CoAbort, Return, txVars, rxVars, ioVars
  <1>5. CASE CoPoll BY <1>5 DEF CoPoll, txVars, rxVars, history
  <1>6. CASE CoRecvDrained BY <1>6 DEF CoRecvDrained, Receive, txVars, rxVars, history
  <1>7. CASE CoObserved
    BY <1>7 DEF CoObserved, Event, ObserverOutcomes, Shutdown, txVars, rxVars
  <1>8. CASE CoRecvError
    BY <1>8 DEF CoRecvError, Receive, Shutdown, txVars, rxVars, history
  <1>9. CASE CoRecvStopped BY <1>9 DEF CoRecvStopped, Receive, txVars, rxVars, history
  <1>10. CASE CoRecvActivity
    BY <1>10 DEF CoRecvActivity, Receive, txVars, rxVars, history
  <1>11. CASE CoRecvNothing BY <1>11 DEF CoRecvNothing, txVars, rxVars, ioVars, history
  <1>12. CASE CoJoin BY <1>12 DEF CoJoin, txVars, rxVars, ioVars, history
  <1>13. CASE CoFinish
    BY <1>13 DEF CoFinish, Return, Event, ObserverOutcomes, txVars, rxVars, ioVars
  <1>14. CASE TxCheck BY <1>14 DEF TxCheck, TxEndsWith, coVars, rxVars, ioVars, history
  <1>15. CASE TxReadChunk BY <1>15 DEF TxReadChunk, coVars, rxVars, ioVars
  <1>16. CASE TxReadEof BY <1>16 DEF TxReadEof, coVars, rxVars, ioVars, history
  <1>17. CASE TxReadError
    BY <1>17 DEF TxReadError, TxEndsWith, coVars, rxVars, ioVars, history
  <1>18. CASE TxEchoLock BY <1>18 DEF TxEchoLock, coVars, rxVars, history
  <1>19. CASE TxEchoReturn
    BY <1>19 DEF TxEchoReturn, TxEndsWith, coVars, rxVars, history
  <1>20. CASE TxWriteCall BY <1>20 DEF TxWriteCall, coVars, rxVars, ioVars, history
  <1>21. CASE TxWriteReturn BY <1>21, WriteFacts DEF coVars, rxVars, ioVars, history
  <1>22. CASE TxSubmit BY <1>22 DEF TxSubmit, coVars, rxVars, ioVars
  <1>23. CASE TxDrain BY <1>23, DrainFacts DEF coVars, rxVars, ioVars
  <1>24. CASE TxSend BY <1>24 DEF TxSend, coVars, rxVars, history
  <1>25. CASE TxPanic BY <1>25 DEF TxPanic, coVars, rxVars, history
  <1>26. CASE RxCheck BY <1>26 DEF RxCheck, coVars, txVars, ioVars, history
  <1>27. CASE RxReadReturn
    BY <1>27 DEF RxReadReturn, Completions, Failures, RxFails, coVars, txVars, ioVars
  <1>28. CASE RxOutputLock BY <1>28 DEF RxOutputLock, coVars, txVars, history
  <1>29. CASE RxOutputReturn BY <1>29, OutputFacts DEF coVars, txVars, history
  <1>30. CASE RxSend BY <1>30 DEF RxSend, coVars, txVars, history
  <1>31. CASE RxPanic BY <1>31 DEF RxPanic, coVars, txVars, history
  <1>32. CASE CallerCancel BY <1>32 DEF CallerCancel, coVars, txVars, rxVars
  <1>33. CASE Tick BY <1>33 DEF Tick, txVars, rxVars, ioVars, history
  <1>34. CASE UNCHANGED vars
    BY <1>34 DEF vars, coVars, txVars, rxVars, ioVars, history
  <1> QED
    BY <1>1, <1>2, <1>3, <1>4, <1>5, <1>6, <1>7, <1>8, <1>9, <1>10, <1>11, <1>12, <1>13,
             <1>14, <1>15, <1>16, <1>17, <1>18, <1>19, <1>20, <1>21, <1>22, <1>23,
             <1>24, <1>25, <1>26, <1>27, <1>28, <1>29, <1>30, <1>31, <1>32, <1>33, <1>34
    DEF Next, Coordinator, TxWorker, RxWorker, Returned

\* No step loses or repeats a byte.
LEMMA ConservationStep ==
  ASSUME TypeOK, Conservation, TxInv, RxInv, [Next]_vars
  PROVE  Conservation'
  <1> USE DEF TypeOK, Conservation, TxInv, RxInv, TxReported, RxReported, Stats
  <1>1. CASE CoStart
    BY <1>1 DEF CoStart, Return, Event, ObserverOutcomes, txVars, rxVars, ioVars
  <1>2. CASE CoSpawnRx BY <1>2 DEF CoSpawnRx, Return, txVars, ioVars
  <1>3. CASE CoSpawnTx BY <1>3 DEF CoSpawnTx, rxVars, history
  <1>4. CASE CoAbort BY <1>4 DEF CoAbort, Return, txVars, rxVars, ioVars
  <1>5. CASE CoPoll BY <1>5 DEF CoPoll, txVars, rxVars, history
  <1>6. CASE CoRecvDrained BY <1>6 DEF CoRecvDrained, Receive, txVars, rxVars, history
  <1>7. CASE CoObserved
    BY <1>7 DEF CoObserved, Event, ObserverOutcomes, Shutdown, txVars, rxVars
  <1>8. CASE CoRecvError
    BY <1>8 DEF CoRecvError, Receive, Shutdown, txVars, rxVars, history
  <1>9. CASE CoRecvStopped BY <1>9 DEF CoRecvStopped, Receive, txVars, rxVars, history
  <1>10. CASE CoRecvActivity
    BY <1>10 DEF CoRecvActivity, Receive, txVars, rxVars, history
  <1>11. CASE CoRecvNothing BY <1>11 DEF CoRecvNothing, txVars, rxVars, ioVars, history
  <1>12. CASE CoJoin BY <1>12 DEF CoJoin, txVars, rxVars, ioVars, history
  <1>13. CASE CoFinish
    BY <1>13 DEF CoFinish, Return, Event, ObserverOutcomes, txVars, rxVars, ioVars
  <1>14. CASE TxCheck BY <1>14 DEF TxCheck, TxEndsWith, coVars, rxVars, ioVars, history
  <1>15. CASE TxReadChunk
    <2>1. PICK c \in Chunks : consumed' = consumed + Transmitted(c) /\ left' = Transmitted(c)
      BY <1>15 DEF TxReadChunk
    <2>2. Transmitted(c) \in Nat BY TransmittedType
    <2> QED BY <1>15, <2>1, <2>2 DEF TxReadChunk, rxVars
  <1>16. CASE TxReadEof BY <1>16 DEF TxReadEof, coVars, rxVars, ioVars, history
  <1>17. CASE TxReadError
    BY <1>17 DEF TxReadError, TxEndsWith, coVars, rxVars, ioVars, history
  <1>18. CASE TxEchoLock BY <1>18 DEF TxEchoLock, coVars, rxVars, history
  <1>19. CASE TxEchoReturn
    BY <1>19 DEF TxEchoReturn, TxEndsWith, coVars, rxVars, history
  <1>20. CASE TxWriteCall BY <1>20 DEF TxWriteCall, coVars, rxVars, ioVars, history
  <1>21. CASE TxWriteReturn BY <1>21, WriteFacts DEF coVars, rxVars, ioVars, history
  <1>22. CASE TxSubmit BY <1>22 DEF TxSubmit, coVars, rxVars, ioVars
  <1>23. CASE TxDrain BY <1>23, DrainFacts DEF coVars, rxVars, ioVars
  <1>24. CASE TxSend BY <1>24 DEF TxSend, coVars, rxVars, history
  <1>25. CASE TxPanic BY <1>25 DEF TxPanic, coVars, rxVars, history
  <1>26. CASE RxCheck BY <1>26 DEF RxCheck, coVars, txVars, ioVars, history
  <1>27. CASE RxReadReturn
    <2>1. held = 0 BY <1>27 DEF RxReadReturn
    <2>2. PICK n \in Completions(MaxRx - taken) :
             \/ held' = 0 /\ taken' = taken
             \/ held' = n /\ taken' = taken + n
      BY <1>27 DEF RxReadReturn
    <2>3. n \in Nat BY BoundAssumption DEF Completions
    <2> QED BY <1>27, <2>1, <2>2, <2>3 DEF RxReadReturn, txVars
  <1>28. CASE RxOutputLock BY <1>28 DEF RxOutputLock, coVars, txVars, history
  <1>29. CASE RxOutputReturn
    <2>1. \/ held' = 0 /\ stats'.received = stats.received + held
          \/ held' = held /\ stats' = stats
      BY <1>29, OutputFacts
    <2>2. stats'.accepted = stats.accepted BY <1>29, OutputFacts
    <2>3. consumed' = consumed /\ left' = left /\ taken' = taken
      BY <1>29, OutputFacts DEF txVars, history
    <2>4. /\ stats.received \in Nat /\ held \in Nat
          /\ consumed = stats.accepted + left /\ taken = stats.received + held
      OBVIOUS
    <2>5. consumed' = stats'.accepted + left' BY <2>2, <2>3, <2>4
    <2>6. taken' = stats'.received + held' BY <2>1, <2>3, <2>4
    <2> QED BY <2>5, <2>6
  <1>30. CASE RxSend BY <1>30 DEF RxSend, coVars, txVars, history
  <1>31. CASE RxPanic BY <1>31 DEF RxPanic, coVars, txVars, history
  <1>32. CASE CallerCancel BY <1>32 DEF CallerCancel, coVars, txVars, rxVars
  <1>33. CASE Tick BY <1>33 DEF Tick, txVars, rxVars, ioVars, history
  <1>34. CASE UNCHANGED vars
    BY <1>34 DEF vars, coVars, txVars, rxVars, ioVars, history
  <1> QED
    BY <1>1, <1>2, <1>3, <1>4, <1>5, <1>6, <1>7, <1>8, <1>9, <1>10, <1>11, <1>12, <1>13,
             <1>14, <1>15, <1>16, <1>17, <1>18, <1>19, <1>20, <1>21, <1>22, <1>23,
             <1>24, <1>25, <1>26, <1>27, <1>28, <1>29, <1>30, <1>31, <1>32, <1>33, <1>34
    DEF Next, Coordinator, TxWorker, RxWorker, Returned

\* Every step keeps what the TX worker's counter says of its result and its bytes.
LEMMA TxStep ==
  ASSUME TypeOK, TxInv, CancelInv, ThreadInv, [Next]_vars
  PROVE  TxInv'
  <1> USE DEF TypeOK, TxInv, CancelInv, ThreadInv, TxReported, TxDrained, WorkerError,
             NoEvent, Reasons
  <1>1. CASE CoStart
    BY <1>1 DEF CoStart, Return, Event, ObserverOutcomes, txVars, rxVars, ioVars
  <1>2. CASE CoSpawnRx BY <1>2 DEF CoSpawnRx, Return, txVars, ioVars
  <1>3. CASE CoSpawnTx BY <1>3 DEF CoSpawnTx, rxVars, history
  <1>4. CASE CoAbort BY <1>4 DEF CoAbort, Return, txVars, rxVars, ioVars
  <1>5. CASE CoPoll BY <1>5 DEF CoPoll, txVars, rxVars, history
  <1>6. CASE CoRecvDrained BY <1>6 DEF CoRecvDrained, Receive, txVars, rxVars, history
  <1>7. CASE CoObserved
    BY <1>7 DEF CoObserved, Event, ObserverOutcomes, Shutdown, txVars, rxVars
  <1>8. CASE CoRecvError
    BY <1>8 DEF CoRecvError, Receive, Shutdown, txVars, rxVars, history
  <1>9. CASE CoRecvStopped BY <1>9 DEF CoRecvStopped, Receive, txVars, rxVars, history
  <1>10. CASE CoRecvActivity
    BY <1>10 DEF CoRecvActivity, Receive, txVars, rxVars, history
  <1>11. CASE CoRecvNothing BY <1>11 DEF CoRecvNothing, txVars, rxVars, ioVars, history
  <1>12. CASE CoJoin BY <1>12 DEF CoJoin, txVars, rxVars, ioVars, history
  <1>13. CASE CoFinish
    BY <1>13 DEF CoFinish, Return, Event, ObserverOutcomes, txVars, rxVars, ioVars
  <1>14. CASE TxCheck BY <1>14 DEF TxCheck, TxEndsWith, coVars, rxVars, ioVars, history
  <1>15. CASE TxReadChunk BY <1>15 DEF TxReadChunk, coVars, rxVars, ioVars
  <1>16. CASE TxReadEof BY <1>16 DEF TxReadEof, coVars, rxVars, ioVars, history
  <1>17. CASE TxReadError
    BY <1>17 DEF TxReadError, TxEndsWith, coVars, rxVars, ioVars, history
  <1>18. CASE TxEchoLock BY <1>18 DEF TxEchoLock, coVars, rxVars, history
  <1>19. CASE TxEchoReturn
    BY <1>19 DEF TxEchoReturn, TxEndsWith, coVars, rxVars, history
  <1>20. CASE TxWriteCall BY <1>20 DEF TxWriteCall, coVars, rxVars, ioVars, history
  <1>21. CASE TxWriteReturn BY <1>21, WriteFacts DEF coVars, rxVars, ioVars, history
  <1>22. CASE TxSubmit BY <1>22 DEF TxSubmit, coVars, rxVars, ioVars
  <1>23. CASE TxDrain BY <1>23, DrainFacts DEF coVars, rxVars, ioVars
  <1>24. CASE TxSend BY <1>24 DEF TxSend, coVars, rxVars, history
  <1>25. CASE TxPanic BY <1>25 DEF TxPanic, coVars, rxVars, history
  <1>26. CASE RxCheck BY <1>26 DEF RxCheck, coVars, txVars, ioVars, history
  <1>27. CASE RxReadReturn
    BY <1>27 DEF RxReadReturn, Completions, Failures, RxFails, coVars, txVars, ioVars
  <1>28. CASE RxOutputLock BY <1>28 DEF RxOutputLock, coVars, txVars, history
  <1>29. CASE RxOutputReturn BY <1>29, OutputFacts DEF coVars, txVars, history
  <1>30. CASE RxSend BY <1>30 DEF RxSend, coVars, txVars, history
  <1>31. CASE RxPanic BY <1>31 DEF RxPanic, coVars, txVars, history
  <1>32. CASE CallerCancel BY <1>32 DEF CallerCancel, coVars, txVars, rxVars
  <1>33. CASE Tick BY <1>33 DEF Tick, txVars, rxVars, ioVars, history
  <1>34. CASE UNCHANGED vars
    BY <1>34 DEF vars, coVars, txVars, rxVars, ioVars, history
  <1> QED
    BY <1>1, <1>2, <1>3, <1>4, <1>5, <1>6, <1>7, <1>8, <1>9, <1>10, <1>11, <1>12, <1>13,
             <1>14, <1>15, <1>16, <1>17, <1>18, <1>19, <1>20, <1>21, <1>22, <1>23,
             <1>24, <1>25, <1>26, <1>27, <1>28, <1>29, <1>30, <1>31, <1>32, <1>33, <1>34
    DEF Next, Coordinator, TxWorker, RxWorker, Returned

\* Every step keeps what the RX worker's counter says of its error and its bytes.
LEMMA RxStep ==
  ASSUME TypeOK, RxInv, ThreadInv, [Next]_vars
  PROVE  RxInv'
  <1> USE DEF TypeOK, RxInv, ThreadInv, RxReported, WorkerError, NoEvent
  <1>1. CASE CoStart
    BY <1>1 DEF CoStart, Return, Event, ObserverOutcomes, txVars, rxVars, ioVars
  <1>2. CASE CoSpawnRx BY <1>2 DEF CoSpawnRx, Return, txVars, ioVars
  <1>3. CASE CoSpawnTx BY <1>3 DEF CoSpawnTx, rxVars, history
  <1>4. CASE CoAbort BY <1>4 DEF CoAbort, Return, txVars, rxVars, ioVars
  <1>5. CASE CoPoll BY <1>5 DEF CoPoll, txVars, rxVars, history
  <1>6. CASE CoRecvDrained BY <1>6 DEF CoRecvDrained, Receive, txVars, rxVars, history
  <1>7. CASE CoObserved
    BY <1>7 DEF CoObserved, Event, ObserverOutcomes, Shutdown, txVars, rxVars
  <1>8. CASE CoRecvError
    BY <1>8 DEF CoRecvError, Receive, Shutdown, txVars, rxVars, history
  <1>9. CASE CoRecvStopped BY <1>9 DEF CoRecvStopped, Receive, txVars, rxVars, history
  <1>10. CASE CoRecvActivity
    BY <1>10 DEF CoRecvActivity, Receive, txVars, rxVars, history
  <1>11. CASE CoRecvNothing BY <1>11 DEF CoRecvNothing, txVars, rxVars, ioVars, history
  <1>12. CASE CoJoin BY <1>12 DEF CoJoin, txVars, rxVars, ioVars, history
  <1>13. CASE CoFinish
    BY <1>13 DEF CoFinish, Return, Event, ObserverOutcomes, txVars, rxVars, ioVars
  <1>14. CASE TxCheck BY <1>14 DEF TxCheck, TxEndsWith, coVars, rxVars, ioVars, history
  <1>15. CASE TxReadChunk BY <1>15 DEF TxReadChunk, coVars, rxVars, ioVars
  <1>16. CASE TxReadEof BY <1>16 DEF TxReadEof, coVars, rxVars, ioVars, history
  <1>17. CASE TxReadError
    BY <1>17 DEF TxReadError, TxEndsWith, coVars, rxVars, ioVars, history
  <1>18. CASE TxEchoLock BY <1>18 DEF TxEchoLock, coVars, rxVars, history
  <1>19. CASE TxEchoReturn
    BY <1>19 DEF TxEchoReturn, TxEndsWith, coVars, rxVars, history
  <1>20. CASE TxWriteCall BY <1>20 DEF TxWriteCall, coVars, rxVars, ioVars, history
  <1>21. CASE TxWriteReturn BY <1>21, WriteFacts DEF coVars, rxVars, ioVars, history
  <1>22. CASE TxSubmit BY <1>22 DEF TxSubmit, coVars, rxVars, ioVars
  <1>23. CASE TxDrain BY <1>23, DrainFacts DEF coVars, rxVars, ioVars
  <1>24. CASE TxSend BY <1>24 DEF TxSend, coVars, rxVars, history
  <1>25. CASE TxPanic BY <1>25 DEF TxPanic, coVars, rxVars, history
  <1>26. CASE RxCheck BY <1>26 DEF RxCheck, coVars, txVars, ioVars, history
  <1>27. CASE RxReadReturn
    BY <1>27 DEF RxReadReturn, Completions, Failures, RxFails, coVars, txVars, ioVars
  <1>28. CASE RxOutputLock BY <1>28 DEF RxOutputLock, coVars, txVars, history
  <1>29. CASE RxOutputReturn BY <1>29, OutputFacts DEF coVars, txVars, history
  <1>30. CASE RxSend BY <1>30 DEF RxSend, coVars, txVars, history
  <1>31. CASE RxPanic BY <1>31 DEF RxPanic, coVars, txVars, history
  <1>32. CASE CallerCancel BY <1>32 DEF CallerCancel, coVars, txVars, rxVars
  <1>33. CASE Tick BY <1>33 DEF Tick, txVars, rxVars, ioVars, history
  <1>34. CASE UNCHANGED vars
    BY <1>34 DEF vars, coVars, txVars, rxVars, ioVars, history
  <1> QED
    BY <1>1, <1>2, <1>3, <1>4, <1>5, <1>6, <1>7, <1>8, <1>9, <1>10, <1>11, <1>12, <1>13,
             <1>14, <1>15, <1>16, <1>17, <1>18, <1>19, <1>20, <1>21, <1>22, <1>23,
             <1>24, <1>25, <1>26, <1>27, <1>28, <1>29, <1>30, <1>31, <1>32, <1>33, <1>34
    DEF Next, Coordinator, TxWorker, RxWorker, Returned

\* Only a drain that succeeds completes bytes, and nothing is accepted after it.
LEMMA CompletedStep ==
  ASSUME TypeOK, CompletedMeansDrained, TxInv, [Next]_vars
  PROVE  CompletedMeansDrained'
  <1> USE DEF TypeOK, CompletedMeansDrained, TxInv, TxDrained, WorkerError, NoEvent,
             TxReported, Stats
  <1>1. CASE CoStart
    BY <1>1 DEF CoStart, Return, Event, ObserverOutcomes, txVars, rxVars, ioVars
  <1>2. CASE CoSpawnRx BY <1>2 DEF CoSpawnRx, Return, txVars, ioVars
  <1>3. CASE CoSpawnTx BY <1>3 DEF CoSpawnTx, rxVars, history
  <1>4. CASE CoAbort BY <1>4 DEF CoAbort, Return, txVars, rxVars, ioVars
  <1>5. CASE CoPoll BY <1>5 DEF CoPoll, txVars, rxVars, history
  <1>6. CASE CoRecvDrained BY <1>6 DEF CoRecvDrained, Receive, txVars, rxVars, history
  <1>7. CASE CoObserved
    BY <1>7 DEF CoObserved, Event, ObserverOutcomes, Shutdown, txVars, rxVars
  <1>8. CASE CoRecvError
    BY <1>8 DEF CoRecvError, Receive, Shutdown, txVars, rxVars, history
  <1>9. CASE CoRecvStopped BY <1>9 DEF CoRecvStopped, Receive, txVars, rxVars, history
  <1>10. CASE CoRecvActivity
    BY <1>10 DEF CoRecvActivity, Receive, txVars, rxVars, history
  <1>11. CASE CoRecvNothing BY <1>11 DEF CoRecvNothing, txVars, rxVars, ioVars, history
  <1>12. CASE CoJoin BY <1>12 DEF CoJoin, txVars, rxVars, ioVars, history
  <1>13. CASE CoFinish
    BY <1>13 DEF CoFinish, Return, Event, ObserverOutcomes, txVars, rxVars, ioVars
  <1>14. CASE TxCheck BY <1>14 DEF TxCheck, TxEndsWith, coVars, rxVars, ioVars, history
  <1>15. CASE TxReadChunk BY <1>15 DEF TxReadChunk, coVars, rxVars, ioVars
  <1>16. CASE TxReadEof BY <1>16 DEF TxReadEof, coVars, rxVars, ioVars, history
  <1>17. CASE TxReadError
    BY <1>17 DEF TxReadError, TxEndsWith, coVars, rxVars, ioVars, history
  <1>18. CASE TxEchoLock BY <1>18 DEF TxEchoLock, coVars, rxVars, history
  <1>19. CASE TxEchoReturn
    BY <1>19 DEF TxEchoReturn, TxEndsWith, coVars, rxVars, history
  <1>20. CASE TxWriteCall BY <1>20 DEF TxWriteCall, coVars, rxVars, ioVars, history
  <1>21. CASE TxWriteReturn
    <2>1. stats.completed = 0 BY <1>21, WriteFacts
    <2>2. stats'.completed = 0 BY <2>1, <1>21, WriteFacts
    <2>3. txResult = NoEvent BY <1>21 DEF TxWriteReturn
    <2>4. txResult' = NoEvent \/ txResult' = WorkerError("tx_error") BY <2>3, <1>21, WriteFacts
    <2>5. txResult'.kind # "tx_drained" BY <2>4
    <2> QED BY <2>2, <2>5
  <1>22. CASE TxSubmit BY <1>22 DEF TxSubmit, coVars, rxVars, ioVars
  <1>23. CASE TxDrain BY <1>23, DrainFacts DEF coVars, rxVars, ioVars
  <1>24. CASE TxSend BY <1>24 DEF TxSend, coVars, rxVars, history
  <1>25. CASE TxPanic BY <1>25 DEF TxPanic, coVars, rxVars, history
  <1>26. CASE RxCheck BY <1>26 DEF RxCheck, coVars, txVars, ioVars, history
  <1>27. CASE RxReadReturn
    BY <1>27 DEF RxReadReturn, Completions, Failures, RxFails, coVars, txVars, ioVars
  <1>28. CASE RxOutputLock BY <1>28 DEF RxOutputLock, coVars, txVars, history
  <1>29. CASE RxOutputReturn BY <1>29, OutputFacts DEF coVars, txVars, history
  <1>30. CASE RxSend BY <1>30 DEF RxSend, coVars, txVars, history
  <1>31. CASE RxPanic BY <1>31 DEF RxPanic, coVars, txVars, history
  <1>32. CASE CallerCancel BY <1>32 DEF CallerCancel, coVars, txVars, rxVars
  <1>33. CASE Tick BY <1>33 DEF Tick, txVars, rxVars, ioVars, history
  <1>34. CASE UNCHANGED vars
    BY <1>34 DEF vars, coVars, txVars, rxVars, ioVars, history
  <1> QED
    BY <1>1, <1>2, <1>3, <1>4, <1>5, <1>6, <1>7, <1>8, <1>9, <1>10, <1>11, <1>12, <1>13,
             <1>14, <1>15, <1>16, <1>17, <1>18, <1>19, <1>20, <1>21, <1>22, <1>23,
             <1>24, <1>25, <1>26, <1>27, <1>28, <1>29, <1>30, <1>31, <1>32, <1>33, <1>34
    DEF Next, Coordinator, TxWorker, RxWorker, Returned

-----------------------------------------------------------------------------

\* Every step keeps the reasons for which the flag may be set.
LEMMA CancelStep ==
  ASSUME TypeOK, ThreadInv, TxInv, QueueInv, DrainInv, CancelInv, [Next]_vars
  PROVE  CancelInv'
  <1> USE DEF TypeOK, ThreadInv, TxInv, CancelInv, Ended, TxReported, TxConfirmed,
             TxDrained, WorkerError, NoEvent
  <1>1. CASE CoStart
    BY <1>1, StartFacts DEF CancelInv, TxReported, TxConfirmed, coVars, txVars, ioVars, history
  <1>2. CASE CoSpawnRx BY <1>2 DEF CoSpawnRx, Return, txVars, ioVars
  <1>3. CASE CoSpawnTx BY <1>3 DEF CoSpawnTx, rxVars, history
  <1>4. CASE CoAbort BY <1>4 DEF CoAbort, Return, txVars, rxVars, ioVars
  <1>5. CASE CoPoll
    <2>1. CASE cancelled
      BY <1>5, <2>1 DEF CoPoll, CancelInv, TypeOK, TxReported, TxConfirmed, txVars, history
    <2>2. CASE ~cancelled
      <3>1. CASE drained
        <4>1. TxReported /\ TxConfirmed /\ left = 0 BY <2>2, <3>1 DEF DrainInv, TxInv, TxReported, TxConfirmed, WorkerError
        <4> QED BY <1>5, <4>1, TimerAssumption DEF CoPoll, CancelInv, TypeOK, NoDeadline, TxReported, TxConfirmed, txVars, history
      <3>2. CASE ~drained
        BY <1>5, <2>2, <3>2 DEF CoPoll, CancelInv, TypeOK, NoDeadline, TxReported, TxConfirmed, txVars, history
      <3> QED BY <3>1, <3>2
    <2> QED BY <2>1, <2>2 DEF TypeOK
  <1>6. CASE CoRecvDrained BY <1>6 DEF CoRecvDrained, Receive, txVars, rxVars, history
  <1>7. CASE CoObserved
    <2>1. TxReported /\ txResult = TxDrained(pending.reason) BY <1>7 DEF CoObserved, QueueInv
    <2>2. pending.reason # "cancelled" /\ ~cancelled => TxConfirmed /\ left = 0
      BY <2>1 DEF TxInv, TxReported, TxConfirmed, TxDrained, WorkerError
    <2>3. pending.reason = "cancelled" => cancelled BY <2>1 DEF TxInv
    <2>4. /\ co = "observe" /\ co' = "poll"
          /\ UNCHANGED <<tx, txResult, left, byCaller>>
      BY <1>7, ObservedFacts DEF txVars
    <2>5. CASE failure' = "observer" /\ Shutdown
      BY <2>4, <2>5 DEF CancelInv, Shutdown
    <2>6. CASE /\ stopReason' = pending.reason /\ Shutdown /\ UNCHANGED failure
      BY <2>1, <2>2, <2>3, <2>4, <2>6 DEF CancelInv, Shutdown, TxReported, TxConfirmed, TypeOK
    <2>7. CASE UNCHANGED <<failure, deadline, cancelled, ioCancelled>>
      BY <2>4, <2>7 DEF CancelInv, TxReported, TxConfirmed
    <2> QED BY <1>7, <2>5, <2>6, <2>7, ObservedFacts
  <1>8. CASE CoRecvError
    <2>1. queue # <<>> /\ Head(queue) \in Messages /\ Head(queue).kind = "worker_error"
      BY <1>8 DEF TypeOK, CoRecvError, Receive
    <2>2. Head(queue).arg \in {"tx_error", "rx_error"}
      BY <2>1 DEF Messages, RxActivity, TxStopped, RxStopped
    <2>3. failure' # "none" BY <1>8, <2>2 DEF CoRecvError
    <2> QED BY <1>8, <2>3 DEF CoRecvError, Receive, Shutdown, CancelInv, TypeOK
  <1>9. CASE CoRecvStopped BY <1>9 DEF CoRecvStopped, Receive, txVars, rxVars, history
  <1>10. CASE CoRecvActivity
    BY <1>10 DEF CoRecvActivity, Receive, txVars, rxVars, history
  <1>11. CASE CoRecvNothing BY <1>11 DEF CoRecvNothing, txVars, rxVars, ioVars, history
  <1>12. CASE CoJoin BY <1>12 DEF CoJoin, txVars, rxVars, ioVars, history
  <1>13. CASE CoFinish
    BY <1>13, FinishFacts DEF CancelInv, TxReported, TxConfirmed, coVars, txVars, ioVars, history
  <1>14. CASE TxCheck BY <1>14 DEF TxCheck, TxEndsWith, coVars, rxVars, ioVars, history
  <1>15. CASE TxReadChunk BY <1>15 DEF TxReadChunk, coVars, rxVars, ioVars
  <1>16. CASE TxReadEof BY <1>16 DEF TxReadEof, coVars, rxVars, ioVars, history
  <1>17. CASE TxReadError
    BY <1>17 DEF TxReadError, TxEndsWith, coVars, rxVars, ioVars, history
  <1>18. CASE TxEchoLock BY <1>18 DEF TxEchoLock, coVars, rxVars, history
  <1>19. CASE TxEchoReturn
    BY <1>19 DEF TxEchoReturn, TxEndsWith, coVars, rxVars, history
  <1>20. CASE TxWriteCall BY <1>20 DEF TxWriteCall, coVars, rxVars, ioVars, history
  <1>21. CASE TxWriteReturn BY <1>21, WriteFacts DEF coVars, rxVars, ioVars, history
  <1>22. CASE TxSubmit BY <1>22 DEF TxSubmit, coVars, rxVars, ioVars
  <1>23. CASE TxDrain BY <1>23, DrainFacts DEF coVars, rxVars, ioVars
  <1>24. CASE TxSend BY <1>24 DEF TxSend, coVars, rxVars, history
  <1>25. CASE TxPanic BY <1>25 DEF TxPanic, coVars, rxVars, history
  <1>26. CASE RxCheck BY <1>26 DEF RxCheck, coVars, txVars, ioVars, history
  <1>27. CASE RxReadReturn
    BY <1>27 DEF RxReadReturn, Completions, Failures, RxFails, coVars, txVars, ioVars
  <1>28. CASE RxOutputLock BY <1>28 DEF RxOutputLock, coVars, txVars, history
  <1>29. CASE RxOutputReturn BY <1>29, OutputFacts DEF coVars, txVars, history
  <1>30. CASE RxSend BY <1>30 DEF RxSend, coVars, txVars, history
  <1>31. CASE RxPanic BY <1>31 DEF RxPanic, coVars, txVars, history
  <1>32. CASE CallerCancel BY <1>32 DEF CallerCancel, coVars, txVars, rxVars
  <1>33. CASE Tick
    <2>1. deadline' # NoDeadline => deadline # NoDeadline
      BY <1>33, TimerAssumption DEF Tick, TypeOK, NoDeadline
    <2> QED BY <1>33, <2>1 DEF Tick, CancelInv, TxReported, TxConfirmed, txVars, ioVars, history
  <1>34. CASE UNCHANGED vars
    BY <1>34 DEF vars, coVars, txVars, rxVars, ioVars, history
  <1> QED
    BY <1>1, <1>2, <1>3, <1>4, <1>5, <1>6, <1>7, <1>8, <1>9, <1>10, <1>11, <1>12, <1>13,
             <1>14, <1>15, <1>16, <1>17, <1>18, <1>19, <1>20, <1>21, <1>22, <1>23,
             <1>24, <1>25, <1>26, <1>27, <1>28, <1>29, <1>30, <1>31, <1>32, <1>33, <1>34
    DEF Next, Coordinator, TxWorker, RxWorker, Returned

\* Steps that keep the drain result, the log and the coordinator's decisions.
LEMMA DrainFrame ==
  ASSUME DrainInv, UNCHANGED <<co, pending, log, drained, stopReason>>,
         TxReported => /\ TxReported' /\ txResult' = txResult
                       /\ stats'.accepted = stats.accepted
                       /\ stats'.completed = stats.completed
  PROVE  DrainInv'
  BY DEF DrainInv, TxReported, TxConfirmed

\* Every step keeps drained stops and Draining events on a confirmed or cancelled drain.
LEMMA DrainStep ==
  ASSUME TypeOK, ThreadInv, TxInv, QueueInv, DrainInv, [Next]_vars
  PROVE  DrainInv'
  <1> USE DEF TypeOK, ThreadInv, TxInv, DrainInv, Running, TxReported, TxConfirmed,
             TxDrained, WorkerError, NoEvent
  <1>1. CASE CoStart
    <2>1. PICK ok \in BOOLEAN : log' = Append(log, Event("running", "none", "none", ok))
      BY <1>1, StartFacts
    <2> DEFINE call == Event("running", "none", "none", ok)
    <2>3. call.phase = "running" BY DEF Event
    <2> HIDE DEF call
    <2>4. PICK e : log' = Append(log, e) /\ e.phase = "running" BY <2>1, <2>3 DEF call
    <2>2. UNCHANGED <<tx, txResult, stats, drained, stopReason>> /\ co' # "observe"
      BY <1>1, StartFacts DEF txVars
    <2> QED BY <2>4, <2>2, LogPush DEF DrainInv, TxReported, TxConfirmed
  <1>2. CASE CoSpawnRx BY <1>2 DEF CoSpawnRx, Return, txVars, ioVars
  <1>3. CASE CoSpawnTx BY <1>3 DEF CoSpawnTx, rxVars, history
  <1>4. CASE CoAbort BY <1>4 DEF CoAbort, Return, txVars, rxVars, ioVars
  <1>5. CASE CoPoll BY <1>5 DEF CoPoll, txVars, rxVars, history
  <1>6. CASE CoRecvDrained
    <2>1. co' = "observe" /\ pending' = Event("draining", Head(queue).arg, "none", TRUE)
      BY <1>6 DEF CoRecvDrained
    <2>2. /\ pending'.phase = "draining" /\ pending'.stats = stats
      BY <2>1 DEF Event
    <2>3. TxReported BY <1>6, Pop DEF CoRecvDrained, Receive, QueueInv
    <2> QED BY <1>6, <2>1, <2>2, <2>3 DEF CoRecvDrained, DrainInv, TxReported, TxConfirmed, txVars, history
  <1>7. CASE CoObserved
    <2>1. co = "observe" /\ co' = "poll" BY <1>7, ObservedFacts
    <2>2. PICK e : /\ log' = Append(log, e) /\ e.phase = "draining" /\ e.reason = pending.reason
                   /\ e.stats.accepted = stats.accepted
                   /\ e.stats.completed = stats.completed
      <3>1. PICK e \in Entries : /\ log' = Append(log, e) /\ e.phase = pending.phase
                                 /\ e.reason = pending.reason /\ e.stats = pending.stats
        BY <1>7, ObservedFacts
      <3> QED BY <2>1, <3>1 DEF DrainInv
    <2>3. UNCHANGED <<tx, txResult, stats>> BY <1>7, ObservedFacts DEF txVars
    <2>4. TxReported /\ txResult = TxDrained(pending.reason) BY <2>1 DEF QueueInv
    <2>5. \/ UNCHANGED <<drained, stopReason>>
          \/ stopReason' = pending.reason /\ drained' = drained
          \/ pending.reason # "cancelled" /\ stopReason' = stopReason
      BY <1>7, ObservedFacts
    <2>6. drained' \/ stopReason' \in {"rx_idle", "console_escape"} =>
             TxReported' /\ TxConfirmed'
      BY <2>3, <2>4, <2>5 DEF DrainInv, TxReported, TxConfirmed, TxDrained
    <2>7. \A i \in 1 .. Len(log') : log'[i] = e \/ (i \in 1 .. Len(log) /\ log'[i] = log[i])
      BY <2>2, LogPush
    <2> QED BY <2>1, <2>2, <2>3, <2>4, <2>6, <2>7 DEF DrainInv, TxReported, TxDrained
  <1>8. CASE CoRecvError
    BY <1>8 DEF CoRecvError, Receive, Shutdown, txVars, rxVars, history
  <1>9. CASE CoRecvStopped BY <1>9 DEF CoRecvStopped, Receive, txVars, rxVars, history
  <1>10. CASE CoRecvActivity
    BY <1>10 DEF CoRecvActivity, Receive, txVars, rxVars, history
  <1>11. CASE CoRecvNothing BY <1>11 DEF CoRecvNothing, txVars, rxVars, ioVars, history
  <1>12. CASE CoJoin BY <1>12 DEF CoJoin, txVars, rxVars, ioVars, history
  <1>13. CASE CoFinish
    <2>3. \A reason, error, ok : Event("final", reason, error, ok).phase = "final"
      BY DEF Event
    <2>1. log' = log \/ \E e : log' = Append(log, e) /\ e.phase = "final"
      BY <1>13, <2>3, FinishFacts
    <2>2. UNCHANGED <<tx, txResult, stats, drained, stopReason>> /\ co' # "observe"
      BY <1>13, FinishFacts DEF txVars
    <2>4. CASE log' = log BY <2>2, <2>4 DEF DrainInv, TxReported, TxConfirmed
    <2>5. CASE \E e : log' = Append(log, e) /\ e.phase = "final"
      <3>1. PICK e : log' = Append(log, e) /\ e.phase = "final" BY <2>5
      <3>2. \A i \in 1 .. Len(log') : log'[i].phase = "draining" =>
                i \in 1 .. Len(log) /\ log'[i] = log[i]
        BY <3>1, LogPush
      <3> QED BY <2>2, <3>2 DEF DrainInv, TxReported, TxConfirmed
    <2> QED BY <2>1, <2>4, <2>5
  <1>14. CASE TxCheck BY <1>14 DEF TxCheck, TxEndsWith, coVars, rxVars, ioVars, history
  <1>15. CASE TxReadChunk BY <1>15 DEF TxReadChunk, coVars, rxVars, ioVars
  <1>16. CASE TxReadEof BY <1>16 DEF TxReadEof, coVars, rxVars, ioVars, history
  <1>17. CASE TxReadError
    BY <1>17 DEF TxReadError, TxEndsWith, coVars, rxVars, ioVars, history
  <1>18. CASE TxEchoLock BY <1>18 DEF TxEchoLock, coVars, rxVars, history
  <1>19. CASE TxEchoReturn
    BY <1>19 DEF TxEchoReturn, TxEndsWith, coVars, rxVars, history
  <1>20. CASE TxWriteCall BY <1>20 DEF TxWriteCall, coVars, rxVars, ioVars, history
  <1>21. CASE TxWriteReturn
    BY <1>21, WriteFacts, DrainFrame DEF TxReported, coVars, txVars, history
  <1>22. CASE TxSubmit BY <1>22 DEF TxSubmit, coVars, rxVars, ioVars
  <1>23. CASE TxDrain
    BY <1>23, DrainFacts, DrainFrame DEF TxReported, coVars, txVars, history
  <1>24. CASE TxSend BY <1>24 DEF TxSend, coVars, rxVars, history
  <1>25. CASE TxPanic BY <1>25 DEF TxPanic, coVars, rxVars, history
  <1>26. CASE RxCheck BY <1>26 DEF RxCheck, coVars, txVars, ioVars, history
  <1>27. CASE RxReadReturn
    BY <1>27 DEF RxReadReturn, Completions, Failures, RxFails, coVars, txVars, ioVars
  <1>28. CASE RxOutputLock BY <1>28 DEF RxOutputLock, coVars, txVars, history
  <1>29. CASE RxOutputReturn
    BY <1>29, OutputFacts, DrainFrame DEF TxReported, coVars, txVars, history
  <1>30. CASE RxSend BY <1>30 DEF RxSend, coVars, txVars, history
  <1>31. CASE RxPanic BY <1>31 DEF RxPanic, coVars, txVars, history
  <1>32. CASE CallerCancel BY <1>32 DEF CallerCancel, coVars, txVars, rxVars
  <1>33. CASE Tick BY <1>33 DEF Tick, txVars, rxVars, ioVars, history
  <1>34. CASE UNCHANGED vars
    BY <1>34 DEF vars, coVars, txVars, rxVars, ioVars, history
  <1> QED
    BY <1>1, <1>2, <1>3, <1>4, <1>5, <1>6, <1>7, <1>8, <1>9, <1>10, <1>11, <1>12, <1>13,
             <1>14, <1>15, <1>16, <1>17, <1>18, <1>19, <1>20, <1>21, <1>22, <1>23,
             <1>24, <1>25, <1>26, <1>27, <1>28, <1>29, <1>30, <1>31, <1>32, <1>33, <1>34
    DEF Next, Coordinator, TxWorker, RxWorker, Returned

\* Steps that leave the observer's calls and the coordinator's errors alone.
LEMMA LogFrame ==
  ASSUME LogInv, UNCHANGED <<co, log, failure, observerFailed>>,
         co # "start" \/ stats' = stats
  PROVE  LogInv'
  BY DEF LogInv, Running

\* Every step keeps the order of the observer's calls.
LEMMA LogStep ==
  ASSUME TypeOK, ThreadInv, QueueInv, DrainInv, LogInv, [Next]_vars
  PROVE  LogInv'
  <1>1. CASE CoStart
    <2>1. PICK ok \in BOOLEAN :
             /\ log' = Append(log, Event("running", "none", "none", ok))
             /\ (ok /\ co' = "spawn_rx") \/ (~ok /\ co' = "done")
      BY <1>1, StartFacts
    <2>2. co = "start" /\ observerFailed' = observerFailed BY <1>1, StartFacts
    <2>3. log = <<>> /\ ~observerFailed BY <2>2 DEF LogInv
    <2>4. stats = Zero BY <2>2 DEF LogInv
    <2>5. /\ Len(log') = 1 /\ log'[1].phase = "running" /\ log'[1].ok = ok
          /\ log'[1].stats = Zero
      BY <2>1, <2>3, <2>4, LogPush DEF Event
    <2> QED BY <2>1, <2>2, <2>3, <2>5 DEF LogInv, Running
  <1>2. CASE CoSpawnRx BY <1>2 DEF CoSpawnRx, Return, LogInv, Running, txVars, ioVars
  <1>3. CASE CoSpawnTx BY <1>3 DEF CoSpawnTx, LogInv, Running, rxVars, history
  <1>4. CASE CoAbort
    BY <1>4 DEF CoAbort, Return, LogInv, Running, txVars, rxVars, ioVars
  <1>5. CASE CoPoll BY <1>5 DEF CoPoll, LogInv, Running, txVars, rxVars, history
  <1>6. CASE CoRecvDrained
    BY <1>6 DEF CoRecvDrained, Receive, LogInv, Running, txVars, rxVars, history
  <1>7. CASE CoObserved
    <2>1. co = "observe" /\ co' = "poll" /\ Len(log) = 1 /\ pending.phase = "draining"
      BY <1>7, ObservedFacts DEF QueueInv, DrainInv
    <2>2. PICK ok \in BOOLEAN, e \in Entries :
             /\ log' = Append(log, e) /\ e.phase = "draining" /\ e.ok = ok
             /\ \/ ~ok /\ observerFailed' = TRUE /\ failure' = "observer"
                \/ ok /\ UNCHANGED <<observerFailed, failure>>
      BY <1>7, <2>1, ObservedFacts
    <2>3. /\ Len(log') = 2 /\ log'[1] = log[1]
          /\ log'[2].phase = "draining" /\ log'[2].ok = ok
      BY <2>1, <2>2, LogPush
    <2> QED BY <2>1, <2>2, <2>3 DEF LogInv, Running
  <1>8. CASE CoRecvError
    BY <1>8 DEF CoRecvError, Receive, Shutdown, LogInv, Running, txVars, rxVars, history
  <1>9. CASE CoRecvStopped
    BY <1>9 DEF CoRecvStopped, Receive, LogInv, Running, txVars, rxVars, history
  <1>10. CASE CoRecvActivity
    BY <1>10 DEF CoRecvActivity, Receive, LogInv, Running, txVars, rxVars, history
  <1>11. CASE CoRecvNothing
    BY <1>11 DEF CoRecvNothing, LogInv, Running, txVars, rxVars, ioVars, history
  <1>12. CASE CoJoin
    BY <1>12 DEF CoJoin, LogInv, Running, txVars, rxVars, ioVars, history
  <1>13. CASE CoFinish
    <2>1. log' = log \/ \E e : log' = Append(log, e)
      BY <1>13, FinishFacts
    <2>2. co = "final" /\ co' = "done" /\ UNCHANGED <<failure, observerFailed>> BY <1>13, FinishFacts
    <2>3. Len(log) \in {1, 2} BY <2>2 DEF LogInv, Running
    <2>4. Len(log') >= 1 /\ log'[1] = log[1] /\ (Len(log') = 1 => log' = log)
      BY <2>1, <2>3, LogPush
    <2> QED BY <2>2, <2>3, <2>4 DEF LogInv, Running
  <1>14. CASE TxCheck BY <1>14, LogFrame DEF TxCheck, ThreadInv, coVars, history
  <1>15. CASE TxReadChunk BY <1>15, LogFrame DEF TxReadChunk, ThreadInv, coVars, history
  <1>16. CASE TxReadEof BY <1>16, LogFrame DEF TxReadEof, ThreadInv, coVars, history
  <1>17. CASE TxReadError BY <1>17, LogFrame DEF TxReadError, ThreadInv, coVars, history
  <1>18. CASE TxEchoLock BY <1>18, LogFrame DEF TxEchoLock, ThreadInv, coVars, history
  <1>19. CASE TxEchoReturn
    BY <1>19, LogFrame DEF TxEchoReturn, ThreadInv, coVars, history
  <1>20. CASE TxWriteCall BY <1>20, LogFrame DEF TxWriteCall, ThreadInv, coVars, history
  <1>21. CASE TxWriteReturn
    BY <1>21, LogFrame, WriteFacts DEF ThreadInv, coVars, history
  <1>22. CASE TxSubmit BY <1>22, LogFrame DEF TxSubmit, ThreadInv, coVars, history
  <1>23. CASE TxDrain BY <1>23, LogFrame, DrainFacts DEF ThreadInv, coVars, history
  <1>24. CASE TxSend BY <1>24, LogFrame DEF TxSend, ThreadInv, coVars, history
  <1>25. CASE TxPanic BY <1>25, LogFrame DEF TxPanic, ThreadInv, coVars, history
  <1>26. CASE RxCheck BY <1>26, LogFrame DEF RxCheck, ThreadInv, coVars, history
  <1>27. CASE RxReadReturn
    BY <1>27, LogFrame DEF RxReadReturn, ThreadInv, coVars, history
  <1>28. CASE RxOutputLock
    BY <1>28, LogFrame DEF RxOutputLock, ThreadInv, coVars, history
  <1>29. CASE RxOutputReturn
    BY <1>29, LogFrame, OutputFacts DEF ThreadInv, coVars, history
  <1>30. CASE RxSend BY <1>30, LogFrame DEF RxSend, ThreadInv, coVars, history
  <1>31. CASE RxPanic BY <1>31, LogFrame DEF RxPanic, ThreadInv, coVars, history
  <1>32. CASE CallerCancel
    BY <1>32, LogFrame DEF CallerCancel, ThreadInv, coVars, history
  <1>33. CASE Tick BY <1>33, LogFrame DEF Tick, ThreadInv, coVars, history
  <1>34. CASE UNCHANGED vars
    BY <1>34 DEF vars, LogInv, Running, coVars, txVars, rxVars, ioVars, history
  <1> QED
    BY <1>1, <1>2, <1>3, <1>4, <1>5, <1>6, <1>7, <1>8, <1>9, <1>10, <1>11, <1>12, <1>13,
             <1>14, <1>15, <1>16, <1>17, <1>18, <1>19, <1>20, <1>21, <1>22, <1>23,
             <1>24, <1>25, <1>26, <1>27, <1>28, <1>29, <1>30, <1>31, <1>32, <1>33, <1>34
    DEF Next, Coordinator, TxWorker, RxWorker, Returned

-----------------------------------------------------------------------------

\* Steps that leave the channel and the coordinator where they are.
LEMMA QueueFrame ==
  ASSUME QueueInv,
         UNCHANGED <<queue, co, txStopped, rxStopped, log, pending>>,
         TxReported => TxReported' /\ txResult' = txResult,
         tx = "done" => tx' = "done",
         rx = "done" => rx' = "done"
  PROVE  QueueInv'
  BY DEF QueueInv, InQueue, TxReported, Joining

\* A worker sends anything but TxDrained or TxStopped.
LEMMA QueueSend ==
  ASSUME TypeOK, QueueInv, ~Joining, NEW m, queue' = Append(queue, m),
         m.kind # "tx_drained", m # TxStopped, m = RxStopped => rx' = "done",
         UNCHANGED <<co, txStopped, rxStopped, log, pending, tx, txResult>>,
         rx = "done" => rx' = "done"
  PROVE  QueueInv'
  <1>1. InQueue(TxStopped)' => InQueue(TxStopped) BY Push DEF InQueue
  <1>2. InQueue(RxStopped)' => InQueue(RxStopped) \/ m = RxStopped BY Push DEF InQueue
  <1>3. ASSUME NEW i \in 1 .. Len(queue'), queue'[i].kind = "tx_drained"
        PROVE  i \in 1 .. Len(queue) /\ queue'[i] = queue[i] /\ \A j \in 1 .. i : j \in 1 .. Len(queue) /\ queue'[j] = queue[j]
    BY <1>3, Push
  <1> QED BY <1>1, <1>2, <1>3 DEF QueueInv, TxReported, Joining

\* The coordinator receives an event; workers and log stay.
LEMMA QueueReceive ==
  ASSUME TypeOK, QueueInv, co = "recv", queue # <<>>, queue' = Tail(queue),
         UNCHANGED <<tx, txResult, rx, log>>,
         txStopped' => txStopped \/ queue[1] = TxStopped,
         rxStopped' => rxStopped \/ queue[1] = RxStopped,
         co' # "done",
         Joining' => txStopped' /\ rxStopped',
         co' = "observe" => queue[1].kind = "tx_drained" /\ txResult = TxDrained(pending'.reason)
  PROVE  QueueInv'
  <1>1. InQueue(TxStopped)' => InQueue(TxStopped) BY Pop DEF InQueue
  <1>2. InQueue(RxStopped)' => InQueue(RxStopped) BY Pop DEF InQueue
  <1>3. /\ queue[1] = TxStopped => InQueue(TxStopped)
        /\ queue[1] = RxStopped => InQueue(RxStopped)
    BY Pop DEF InQueue
  <1>4. (InQueue(TxStopped)' \/ txStopped' => tx' = "done") /\ (InQueue(RxStopped)' \/ rxStopped' => rx' = "done")
    BY <1>1, <1>2, <1>3 DEF QueueInv
  <1>5. ASSUME NEW i \in 1 .. Len(queue'), queue'[i].kind = "tx_drained"
        PROVE  /\ TxReported' /\ queue'[i] = txResult'
               /\ ~txStopped' /\ \A j \in 1 .. i : queue'[j] # TxStopped
               /\ co' # "observe" /\ Len(log') = 1
    <2>1. i + 1 \in 1 .. Len(queue) /\ queue'[i] = queue[i + 1] BY Pop
    <2>2. /\ TxReported /\ queue[i + 1] = txResult
          /\ ~txStopped /\ \A j \in 1 .. i + 1 : queue[j] # TxStopped
          /\ Len(log) = 1
      BY <1>5, <2>1 DEF QueueInv
    <2>3. queue[1] # TxStopped BY <2>1, <2>2
    <2>4. \A j \in 1 .. i : queue'[j] # TxStopped
      <3>1. \A j \in 1 .. i : j \in 1 .. Len(queue') /\ j + 1 \in 1 .. i + 1 BY Pop
      <3> QED BY <2>2, <3>1, Pop
    <2>5. co' # "observe"
      <3>1. queue[1].kind # "tx_drained" BY <1>5, <2>1, Pop DEF QueueInv
      <3> QED BY <3>1
    <2> QED BY <2>1, <2>2, <2>3, <2>4, <2>5 DEF TxReported
  <1>6. ASSUME NEW i \in 1 .. Len(queue'), NEW j \in 1 .. Len(queue'),
               queue'[i].kind = "tx_drained", queue'[j].kind = "tx_drained"
        PROVE  i = j
    <2>1. i + 1 = j + 1 BY <1>6, Pop DEF QueueInv
    <2> QED BY <2>1, Pop
  <1>7. ASSUME co' = "observe"
        PROVE  TxReported' /\ txResult' = TxDrained(pending'.reason) /\ Len(log') = 1
    <2>1. queue[1].kind = "tx_drained" /\ txResult = TxDrained(pending'.reason) BY <1>7
    <2>2. TxReported /\ Len(log) = 1 BY <2>1, Pop DEF QueueInv
    <2> QED BY <2>1, <2>2 DEF TxReported
  <1> QED BY <1>4, <1>5, <1>6, <1>7 DEF QueueInv

\* Every step keeps the channel's contents in the order their workers sent them.
LEMMA QueueStep ==
  ASSUME TypeOK, ThreadInv, TxInv, RxInv, QueueInv, DrainInv, LogInv, [Next]_vars
  PROVE  QueueInv'
  <1>1. CASE CoStart
    <2>1. /\ ~TxReported /\ ~TxReported' /\ co' \in {"spawn_rx", "done"}
          /\ UNCHANGED <<tx, txResult, rx, queue, txStopped, rxStopped>>
      BY <1>1, StartFacts DEF ThreadInv, TxReported, txVars, rxVars, ioVars
    <2> QED BY <2>1 DEF QueueInv, InQueue, Joining
  <1>2. CASE CoSpawnRx
    BY <1>2
    DEF CoSpawnRx, Return, QueueInv, ThreadInv, InQueue, TxReported, Joining, txVars,
             ioVars
  <1>3. CASE CoSpawnTx
    BY <1>3
    DEF CoSpawnTx, QueueInv, ThreadInv, InQueue, TxReported, Joining, rxVars, history
  <1>4. CASE CoAbort
    BY <1>4
    DEF CoAbort, Return, QueueInv, ThreadInv, InQueue, TxReported, Joining, txVars,
             rxVars, ioVars
  <1>5. CASE CoPoll
    BY <1>5
    DEF CoPoll, QueueInv, InQueue, TxReported, Joining, txVars, rxVars, history
  <1>6. CASE CoRecvDrained
    <2>1. /\ co = "recv" /\ queue # <<>> /\ queue' = Tail(queue)
          /\ Head(queue).kind = "tx_drained"
          /\ pending' = Event("draining", Head(queue).arg, "none", TRUE)
          /\ co' = "observe"
          /\ UNCHANGED <<tx, txResult, rx, log, txStopped, rxStopped>>
      BY <1>6 DEF CoRecvDrained, Receive, txVars, rxVars, history
    <2>2. queue[1].kind = "tx_drained" /\ pending'.reason = queue[1].arg /\ queue[1] = txResult
      BY <2>1, Pop DEF QueueInv, Event
    <2>3. txResult = TxDrained(pending'.reason) BY <2>1, <2>2, Pop, Kinds
    <2> QED BY <2>1, <2>2, <2>3, QueueReceive DEF Joining
  <1>7. CASE CoObserved
    <2>1. /\ co = "observe" /\ co' = "poll"
          /\ UNCHANGED <<tx, txResult, rx, queue, txStopped, rxStopped>>
      BY <1>7, ObservedFacts DEF txVars, rxVars
    <2> QED BY <2>1 DEF QueueInv, InQueue, TxReported, Joining
  <1>8. CASE CoRecvError
    <2>1. /\ co = "recv" /\ queue # <<>> /\ queue' = Tail(queue) /\ co' = "poll"
          /\ UNCHANGED <<tx, txResult, rx, log, txStopped, rxStopped>>
      BY <1>8 DEF CoRecvError, Receive, txVars, rxVars, history
    <2> QED BY <2>1, QueueReceive DEF Joining
  <1>9. CASE CoRecvStopped
    <2>1. /\ co = "recv" /\ queue # <<>> /\ queue' = Tail(queue)
          /\ co' \in {"poll", "join"} /\ (co' = "join" => txStopped' /\ rxStopped')
          /\ \/ Head(queue).kind = "tx_stopped" /\ rxStopped' = rxStopped
             \/ Head(queue).kind = "rx_stopped" /\ txStopped' = txStopped
          /\ UNCHANGED <<tx, txResult, rx, log>>
      BY <1>9 DEF CoRecvStopped, Receive, txVars, rxVars, history
    <2>2. \/ queue[1] = TxStopped /\ rxStopped' = rxStopped
          \/ queue[1] = RxStopped /\ txStopped' = txStopped
      BY <2>1, Pop, Kinds
    <2> QED BY <2>1, <2>2, QueueReceive DEF Joining
  <1>10. CASE CoRecvActivity
    <2>1. /\ co = "recv" /\ queue # <<>> /\ queue' = Tail(queue) /\ co' = "poll"
          /\ UNCHANGED <<tx, txResult, rx, log, txStopped, rxStopped>>
      BY <1>10 DEF CoRecvActivity, Receive, txVars, rxVars, history
    <2> QED BY <2>1, QueueReceive DEF Joining
  <1>11. CASE CoRecvNothing
    <2>1. /\ queue = <<>> /\ queue' = queue /\ co = "recv" /\ co' \in {"poll", "join"}
          /\ UNCHANGED <<tx, txResult, rx, txStopped, rxStopped, log>>
      BY <1>11 DEF CoRecvNothing, coVars, txVars, rxVars, ioVars, history
    <2> QED BY <2>1 DEF QueueInv, InQueue, Joining
  <1>12. CASE CoJoin
    BY <1>12
    DEF CoJoin, QueueInv, InQueue, TxReported, Joining, txVars, rxVars, ioVars, history
  <1>13. CASE CoFinish
    <2>1. /\ co' = "done"
          /\ UNCHANGED <<tx, txResult, rx, queue, txStopped, rxStopped>>
      BY <1>13, FinishFacts DEF txVars, rxVars, ioVars
    <2> QED BY <2>1 DEF QueueInv, InQueue, TxReported, Joining
  <1>14. CASE TxCheck
    BY <1>14, QueueFrame
    DEF TxCheck, TxEndsWith, TxReported, coVars, rxVars, ioVars, history
  <1>15. CASE TxReadChunk
    BY <1>15, QueueFrame
    DEF TxReadChunk, TxReported, coVars, rxVars, ioVars
  <1>16. CASE TxReadEof
    BY <1>16, QueueFrame
    DEF TxReadEof, TxReported, coVars, rxVars, ioVars, history
  <1>17. CASE TxReadError
    BY <1>17, QueueFrame
    DEF TxReadError, TxEndsWith, TxReported, coVars, rxVars, ioVars, history
  <1>18. CASE TxEchoLock
    BY <1>18, QueueFrame
    DEF TxEchoLock, TxReported, coVars, rxVars, history
  <1>19. CASE TxEchoReturn
    BY <1>19, QueueFrame
    DEF TxEchoReturn, TxEndsWith, TxReported, coVars, rxVars, history
  <1>20. CASE TxWriteCall
    BY <1>20, QueueFrame
    DEF TxWriteCall, TxReported, coVars, rxVars, ioVars, history
  <1>21. CASE TxWriteReturn
    BY <1>21, WriteFacts, QueueFrame DEF TxReported, coVars, rxVars, ioVars, history
  <1>22. CASE TxSubmit
    BY <1>22, QueueFrame
    DEF TxSubmit, TxReported, coVars, rxVars, ioVars
  <1>23. CASE TxDrain
    BY <1>23, DrainFacts, QueueFrame DEF TxReported, coVars, rxVars, ioVars, history
  <1>24. CASE TxSend
    <2>1. /\ UNCHANGED <<co, txStopped, rxStopped, log, pending, rx, txResult>>
          /\ tx \in {"send", "stop"}
      BY <1>24 DEF TxSend, coVars, rxVars, history
    <2>2. ~Joining /\ ~txStopped /\ ~InQueue(TxStopped)
      BY <2>1 DEF ThreadInv, Ended, QueueInv
    <2>3. CASE tx = "send" /\ tx' = "stop" /\ queue' = Append(queue, txResult)
      <3>1. PICK m : m = txResult OBVIOUS
      <3>2. queue' = Append(queue, m) BY <2>3, <3>1
      <3>3. m # TxStopped /\ m # RxStopped
        BY <2>3, <3>1 DEF TxInv, WorkerError, TxStopped, RxStopped, NoEvent
      <3>4. co # "observe" /\ \A i \in 1 .. Len(queue) : queue[i].kind # "tx_drained"
        BY <2>3 DEF QueueInv, TxReported
      <3>5. co # "done" => Len(log) = 1
        <4>1. co # "done" => Running BY <2>1 DEF TypeOK, ThreadInv, Running
        <4>2. co # "done" /\ Len(log) = 2 => TxReported BY DEF LogInv, DrainInv
        <4> QED BY <2>3, <4>1, <4>2 DEF LogInv, TxReported
      <3>6. TxReported' BY <2>3 DEF TxReported
      <3>7. \A i \in 1 .. Len(queue') : queue'[i] # TxStopped
        BY <2>2, <3>2, <3>3, Push DEF InQueue
      <3>8. InQueue(RxStopped)' => InQueue(RxStopped) BY <3>2, <3>3, Push DEF InQueue
      <3>9. \A i \in 1 .. Len(queue') : queue'[i].kind = "tx_drained" =>
               i = Len(queue) + 1 /\ queue'[i] = txResult
        BY <3>1, <3>2, <3>4, Push
      <3>10. \A i \in 1 .. Len(queue') : \A j \in 1 .. i : j \in 1 .. Len(queue')
        BY <3>2, Push
      <3> QED BY <2>1, <2>2, <3>4, <3>5, <3>6, <3>7, <3>8, <3>9, <3>10 DEF QueueInv, InQueue, Joining
    <2>4. CASE tx = "stop" /\ tx' = "done" /\ queue' = Append(queue, TxStopped)
      <3>1. TxStopped.kind # "tx_drained" /\ TxStopped # RxStopped
        BY DEF TxStopped, RxStopped
      <3>2. TxReported /\ TxReported' BY <2>4 DEF TxReported
      <3>3. InQueue(RxStopped)' => InQueue(RxStopped) BY <2>4, <3>1, Push DEF InQueue
      <3>4. ASSUME NEW i \in 1 .. Len(queue'), queue'[i].kind = "tx_drained"
            PROVE  /\ i \in 1 .. Len(queue) /\ queue'[i] = queue[i]
                   /\ \A j \in 1 .. i : j \in 1 .. Len(queue) /\ queue'[j] = queue[j]
        BY <2>4, <3>1, <3>4, Push
      <3> QED BY <2>1, <2>2, <2>4, <3>2, <3>3, <3>4 DEF QueueInv, Joining
    <2> QED BY <1>24, <2>3, <2>4 DEF TxSend
  <1>25. CASE TxPanic
    BY <1>25, QueueFrame
    DEF TxPanic, TxReported, coVars, rxVars, history
  <1>26. CASE RxCheck
    BY <1>26, QueueFrame
    DEF RxCheck, TxReported, coVars, txVars, ioVars, history
  <1>27. CASE RxReadReturn
    BY <1>27, QueueFrame
    DEF RxReadReturn, TxReported, coVars, txVars, ioVars
  <1>28. CASE RxOutputLock
    BY <1>28, QueueFrame
    DEF RxOutputLock, TxReported, coVars, txVars, history
  <1>29. CASE RxOutputReturn
    <2>1. UNCHANGED <<co, txStopped, rxStopped, log, pending, tx, txResult>> /\ rx # "done"
      BY <1>29, OutputFacts DEF coVars, txVars, history
    <2>2. CASE queue' = queue
      BY <2>1, <2>2, QueueFrame DEF TxReported
    <2>3. CASE queue' = Append(queue, RxActivity)
      <3>1. ~Joining BY <1>29, OutputFacts DEF ThreadInv, Ended
      <3>2. /\ RxActivity.kind # "tx_drained"
            /\ RxActivity # TxStopped /\ RxActivity # RxStopped
        BY DEF RxActivity, TxStopped, RxStopped
      <3> QED BY <2>1, <2>3, <3>1, <3>2, QueueSend
    <2> QED BY <1>29, <2>2, <2>3, OutputFacts
  <1>30. CASE RxSend
    <2>1. /\ UNCHANGED <<co, txStopped, rxStopped, log, pending, tx, txResult>>
          /\ rx # "done" /\ rx \in {"error", "stop"}
      BY <1>30 DEF RxSend, coVars, txVars, history
    <2>2. ~Joining BY <2>1 DEF ThreadInv, Ended
    <2>3. CASE rx = "error" /\ queue' = Append(queue, rxResult)
      <3>1. PICK m : m = rxResult OBVIOUS
      <3>2. m.kind # "tx_drained" /\ m # TxStopped /\ m # RxStopped
        BY <2>3, <3>1 DEF RxInv, WorkerError, TxStopped, RxStopped
      <3> QED BY <2>1, <2>2, <2>3, <3>1, <3>2, QueueSend
    <2>4. CASE rx' = "done" /\ queue' = Append(queue, RxStopped)
      <3>1. RxStopped.kind # "tx_drained" /\ RxStopped # TxStopped
        BY DEF TxStopped, RxStopped
      <3> QED BY <2>1, <2>2, <2>4, <3>1, QueueSend
    <2> QED BY <1>30, <2>3, <2>4 DEF RxSend
  <1>31. CASE RxPanic
    BY <1>31, QueueFrame
    DEF RxPanic, TxReported, coVars, txVars, history
  <1>32. CASE CallerCancel
    BY <1>32, QueueFrame
    DEF CallerCancel, TxReported, coVars, txVars, rxVars
  <1>33. CASE Tick
    BY <1>33, QueueFrame
    DEF Tick, TxReported, txVars, rxVars, ioVars, history
  <1>34. CASE UNCHANGED vars
    BY <1>34
    DEF vars, QueueInv, InQueue, TxReported, Joining, coVars, txVars, rxVars, ioVars,
             history
  <1> QED
    BY <1>1, <1>2, <1>3, <1>4, <1>5, <1>6, <1>7, <1>8, <1>9, <1>10, <1>11, <1>12, <1>13,
             <1>14, <1>15, <1>16, <1>17, <1>18, <1>19, <1>20, <1>21, <1>22, <1>23,
             <1>24, <1>25, <1>26, <1>27, <1>28, <1>29, <1>30, <1>31, <1>32, <1>33, <1>34
    DEF Next, Coordinator, TxWorker, RxWorker, Returned

-----------------------------------------------------------------------------

\* An event that waits still waits after a send ...
LEMMA WaitsSend ==
  ASSUME TypeOK, NEW m, NEW e, NEW stop, Waits(e, stop), queue' = Append(queue, m)
  PROVE  Waits(e, stop)'
  <1>1. PICK i \in 1 .. Len(queue) : queue[i] = e /\ \A j \in 1 .. i : queue[j] # stop
    BY DEF Waits
  <1>2. i \in 1 .. Len(queue') /\ queue'[i] = e BY <1>1, Push
  <1>3. \A j \in 1 .. i : j \in 1 .. Len(queue) /\ queue'[j] = queue[j] BY Push
  <1> QED BY <1>1, <1>2, <1>3 DEF Waits

\* ... and after a receive of another event, which is then not the stop event.
LEMMA WaitsReceive ==
  ASSUME TypeOK, NEW e, NEW stop, Waits(e, stop),
         queue # <<>>, queue' = Tail(queue), queue[1] # e
  PROVE  Waits(e, stop)' /\ queue[1] # stop
  <1>1. PICK i \in 1 .. Len(queue) : queue[i] = e /\ \A j \in 1 .. i : queue[j] # stop
    BY DEF Waits
  <1>2. i \in 2 .. Len(queue) /\ 1 \in 1 .. i BY <1>1, Pop
  <1>3. i - 1 \in 1 .. Len(queue') /\ queue'[i - 1] = e BY <1>1, <1>2, Pop
  <1>4. \A j \in 1 .. i - 1 : j \in 1 .. Len(queue') /\ j + 1 \in 1 .. i /\ queue'[j] = queue[j + 1]
    BY <1>2, Pop
  <1> QED BY <1>1, <1>2, <1>3, <1>4 DEF Waits

\* Steps that leave the channel and the coordinator's errors alone.
LEMMA ErrorFrame ==
  ASSUME ErrorInv,
         UNCHANGED <<queue, co, txStopped, rxStopped, failure>>,
         TxReported' => TxReported /\ txResult' = txResult,
         RxReported' => RxReported /\ rxResult' = rxResult,
         tx = "done" => tx' = "done", rx = "done" => rx' = "done"
  PROVE  ErrorInv'
  BY DEF ErrorInv, Waits

\* The coordinator receives an event that is not an error.
LEMMA ErrorReceive ==
  ASSUME TypeOK, RxInv, ErrorInv, co = "recv", queue # <<>>, queue' = Tail(queue),
         queue[1].kind # "worker_error",
         UNCHANGED <<tx, txResult, rx, rxResult, failure>>,
         txStopped' => txStopped \/ queue[1] = TxStopped,
         rxStopped' => rxStopped \/ queue[1] = RxStopped,
         co' \in {"poll", "observe", "join"}
  PROVE  ErrorInv'
  <1>1. ASSUME failure = "none", TxReported, txResult = WorkerError("tx_error")
        PROVE  ~txStopped' /\ Waits(txResult, TxStopped)'
    <2>1. PICK e : e = txResult OBVIOUS
    <2>2. ~txStopped /\ Waits(e, TxStopped) BY <1>1, <2>1 DEF ErrorInv
    <2>3. queue[1] # e BY <1>1, <2>1 DEF WorkerError
    <2>4. Waits(e, TxStopped)' /\ queue[1] # TxStopped
      <3>1. PICK s : s = TxStopped OBVIOUS
      <3> QED BY <2>2, <2>3, <3>1, WaitsReceive DEF TxStopped
    <2> QED BY <2>1, <2>2, <2>4 DEF Waits
  <1>2. ASSUME failure = "none", RxReported, rxResult # NoEvent
        PROVE  ~rxStopped' /\ Waits(rxResult, RxStopped)'
    <2>1. PICK e : e = rxResult OBVIOUS
    <2>2. ~rxStopped /\ Waits(e, RxStopped) BY <1>2, <2>1 DEF ErrorInv
    <2>3. queue[1] # e BY <1>2, <2>1 DEF RxInv, WorkerError
    <2>4. Waits(e, RxStopped)' /\ queue[1] # RxStopped
      <3>1. PICK s : s = RxStopped OBVIOUS
      <3> QED BY <2>2, <2>3, <3>1, WaitsReceive DEF RxStopped
    <2> QED BY <2>1, <2>2, <2>4 DEF Waits
  <1> QED BY <1>1, <1>2 DEF ErrorInv, TxReported, RxReported, Waits

\* Every step keeps a sent error ahead of its worker's stop event until it is known.
LEMMA ErrorStep ==
  ASSUME TypeOK, ThreadInv, TxInv, RxInv, QueueInv, ErrorInv, [Next]_vars
  PROVE  ErrorInv'
  <1>1. CASE CoStart
    <2>1. /\ ~TxReported' /\ ~RxReported' /\ co' \in {"spawn_rx", "done"}
      BY <1>1, StartFacts DEF ThreadInv, TxReported, RxReported, txVars, rxVars
    <2> QED BY <2>1 DEF ErrorInv
  <1>2. CASE CoSpawnRx
    BY <1>2 DEF CoSpawnRx, Return, ErrorInv, ThreadInv, TxReported, RxReported, Waits, coVars, txVars, ioVars
  <1>3. CASE CoSpawnTx
    BY <1>3 DEF CoSpawnTx, ErrorInv, ThreadInv, TxReported, RxReported, Waits, rxVars
  <1>4. CASE CoAbort BY <1>4 DEF CoAbort, Return, ErrorInv, coVars
  <1>5. CASE CoPoll
    <2>1. /\ co = "poll" /\ co' = "recv" /\ (failure' = "none" => failure = "none")
          /\ UNCHANGED <<tx, txResult, rx, rxResult, queue, txStopped, rxStopped>>
      BY <1>5 DEF CoPoll, txVars, rxVars
    <2> QED BY <2>1 DEF ErrorInv, TxReported, RxReported, Waits
  <1>6. CASE CoRecvDrained
    <2>1. /\ co = "recv" /\ queue # <<>> /\ queue' = Tail(queue)
          /\ Head(queue).kind = "tx_drained" /\ co' = "observe"
          /\ UNCHANGED <<tx, txResult, rx, rxResult, failure, txStopped, rxStopped>>
      BY <1>6 DEF CoRecvDrained, Receive, txVars, rxVars
    <2>2. queue[1].kind # "worker_error" BY <2>1, Pop
    <2> QED BY <2>1, <2>2, ErrorReceive
  <1>7. CASE CoObserved
    <2>1. /\ co = "observe" /\ co' = "poll" /\ failure' \in {failure, "observer"}
          /\ UNCHANGED <<tx, txResult, rx, rxResult, queue, txStopped, rxStopped>>
      BY <1>7, ObservedFacts DEF txVars, rxVars
    <2> QED BY <2>1 DEF ErrorInv, TxReported, RxReported, Waits
  <1>8. CASE CoRecvError
    <2>1. queue # <<>> /\ queue' = Tail(queue) /\ Head(queue).kind = "worker_error"
      BY <1>8 DEF CoRecvError, Receive
    <2>2. Head(queue).arg # "none" BY <2>1, Pop, Kinds DEF WorkerError
    <2>3. failure' # "none" BY <1>8, <2>2 DEF CoRecvError
    <2> QED BY <2>3 DEF ErrorInv
  <1>9. CASE CoRecvStopped
    <2>1. /\ co = "recv" /\ queue # <<>> /\ queue' = Tail(queue) /\ co' \in {"poll", "join"}
          /\ \/ Head(queue).kind = "tx_stopped" /\ rxStopped' = rxStopped
             \/ Head(queue).kind = "rx_stopped" /\ txStopped' = txStopped
          /\ UNCHANGED <<tx, txResult, rx, rxResult, failure>>
      BY <1>9 DEF CoRecvStopped, Receive, txVars, rxVars
    <2>2. /\ queue[1].kind # "worker_error"
          /\ \/ queue[1] = TxStopped /\ rxStopped' = rxStopped
             \/ queue[1] = RxStopped /\ txStopped' = txStopped
      BY <2>1, Pop, Kinds
    <2> QED BY <2>1, <2>2, ErrorReceive
  <1>10. CASE CoRecvActivity
    <2>1. /\ co = "recv" /\ queue # <<>> /\ queue' = Tail(queue)
          /\ Head(queue).kind = "rx_activity" /\ co' = "poll"
          /\ UNCHANGED <<tx, txResult, rx, rxResult, failure, txStopped, rxStopped>>
      BY <1>10 DEF CoRecvActivity, Receive, txVars, rxVars
    <2>2. queue[1].kind # "worker_error" BY <2>1, Pop
    <2> QED BY <2>1, <2>2, ErrorReceive
  <1>11. CASE CoRecvNothing
    <2>1. /\ co = "recv" /\ co' \in {"poll", "join"}
          /\ UNCHANGED <<tx, txResult, rx, rxResult, queue, txStopped, rxStopped, failure>>
      BY <1>11 DEF CoRecvNothing, txVars, rxVars, ioVars
    <2> QED BY <2>1 DEF ErrorInv, TxReported, RxReported, Waits
  <1>12. CASE CoJoin
    BY <1>12 DEF CoJoin, Ended, ErrorInv, TxReported, RxReported, Waits, txVars, rxVars, ioVars
  <1>13. CASE CoFinish BY <1>13, FinishFacts DEF ErrorInv
  <1>14. CASE TxCheck
    BY <1>14, ErrorFrame
    DEF TxCheck, TxEndsWith, TxReported, RxReported, coVars, rxVars, ioVars, history
  <1>15. CASE TxReadChunk
    BY <1>15, ErrorFrame
    DEF TxReadChunk, TxReported, RxReported, coVars, rxVars, ioVars
  <1>16. CASE TxReadEof
    BY <1>16, ErrorFrame
    DEF TxReadEof, TxReported, RxReported, coVars, rxVars, ioVars, history
  <1>17. CASE TxReadError
    BY <1>17, ErrorFrame
    DEF TxReadError, TxEndsWith, TxReported, RxReported, coVars, rxVars, ioVars, history
  <1>18. CASE TxEchoLock
    BY <1>18, ErrorFrame
    DEF TxEchoLock, TxReported, RxReported, coVars, rxVars, history
  <1>19. CASE TxEchoReturn
    BY <1>19, ErrorFrame
    DEF TxEchoReturn, TxEndsWith, TxReported, RxReported, coVars, rxVars, history
  <1>20. CASE TxWriteCall
    BY <1>20, ErrorFrame
    DEF TxWriteCall, TxReported, RxReported, coVars, rxVars, ioVars, history
  <1>21. CASE TxWriteReturn
    BY <1>21, WriteFacts, ErrorFrame DEF TxReported, RxReported, coVars, rxVars, ioVars
  <1>22. CASE TxSubmit
    BY <1>22, ErrorFrame
    DEF TxSubmit, TxReported, RxReported, coVars, rxVars, ioVars
  <1>23. CASE TxDrain
    BY <1>23, DrainFacts, ErrorFrame DEF TxReported, RxReported, coVars, rxVars, ioVars
  <1>24. CASE TxSend
    <2>1. /\ UNCHANGED <<co, txStopped, rxStopped, failure, rx, txResult, rxResult>>
          /\ \/ tx = "send" /\ tx' = "stop" /\ queue' = Append(queue, txResult)
             \/ tx = "stop" /\ tx' = "done" /\ queue' = Append(queue, TxStopped)
      BY <1>24 DEF TxSend, coVars, rxVars
    <2>2. PICK m : queue' = Append(queue, m) /\ (tx = "send" => m = txResult) BY <2>1
    <2>3. Waits(txResult, TxStopped) => Waits(txResult, TxStopped)'
      <3>1. PICK e, s : e = txResult /\ s = TxStopped OBVIOUS
      <3> QED BY <2>1, <2>2, <3>1, WaitsSend DEF Waits, TxStopped
    <2>4. Waits(rxResult, RxStopped) => Waits(rxResult, RxStopped)'
      <3>1. PICK e, s : e = rxResult /\ s = RxStopped OBVIOUS
      <3> QED BY <2>1, <2>2, <3>1, WaitsSend DEF Waits, RxStopped
    <2>5. CASE tx = "send"
      <3>1. ~txStopped /\ ~InQueue(TxStopped) BY <2>5 DEF QueueInv
      <3>2. txResult = WorkerError("tx_error") => Waits(txResult, TxStopped)'
        <4>1. queue'[Len(queue) + 1] = txResult /\ Len(queue) + 1 \in 1 .. Len(queue')
          BY <2>2, <2>5, Push
        <4>2. txResult = WorkerError("tx_error") =>
                 \A j \in 1 .. Len(queue') : queue'[j] # TxStopped
          BY <2>2, <2>5, <3>1, Push DEF InQueue, WorkerError, TxStopped
        <4>3. Len(queue') = Len(queue) + 1 BY <2>2, Push
        <4> QED BY <2>1, <4>1, <4>2, <4>3 DEF Waits
      <3> QED BY <2>1, <2>4, <2>5, <3>1, <3>2 DEF ErrorInv, RxReported
    <2>6. CASE tx = "stop"
      BY <2>1, <2>3, <2>4, <2>6 DEF ErrorInv, TxReported, RxReported
    <2> QED BY <2>1, <2>5, <2>6
  <1>25. CASE TxPanic
    BY <1>25, ErrorFrame
    DEF TxPanic, TxReported, RxReported, coVars, rxVars, history
  <1>26. CASE RxCheck
    <2>1. rxResult' = NoEvent BY <1>26 DEF RxCheck, RxInv, RxReported
    <2>2. /\ UNCHANGED <<tx, txResult, queue, co, txStopped, rxStopped, failure>> /\ rx # "done"
      BY <1>26 DEF RxCheck, coVars, txVars, ioVars
    <2> QED BY <2>1, <2>2 DEF ErrorInv, TxReported, RxReported, Waits
  <1>27. CASE RxReadReturn
    BY <1>27, ErrorFrame
    DEF RxReadReturn, RxFails, TxReported, RxReported, coVars, txVars, ioVars
  <1>28. CASE RxOutputLock
    BY <1>28, ErrorFrame
    DEF RxOutputLock, TxReported, RxReported, coVars, txVars, history
  <1>29. CASE RxOutputReturn
    <2>1. /\ UNCHANGED <<co, txStopped, rxStopped, failure, tx, txResult>>
          /\ rx # "done" /\ rx' # "done" /\ ~RxReported'
      BY <1>29, OutputFacts DEF coVars, txVars, RxReported
    <2>2. CASE queue' = queue
      BY <2>1, <2>2, ErrorFrame DEF TxReported
    <2>3. CASE queue' = Append(queue, RxActivity)
      <3>1. Waits(txResult, TxStopped) => Waits(txResult, TxStopped)'
        <4>1. PICK e, s : e = txResult /\ s = TxStopped OBVIOUS
        <4> QED BY <2>1, <2>3, <4>1, WaitsSend DEF Waits, TxStopped, RxActivity
      <3> QED BY <2>1, <3>1 DEF ErrorInv, TxReported
    <2> QED BY <1>29, <2>2, <2>3, OutputFacts
  <1>30. CASE RxSend
    <2>1. /\ UNCHANGED <<co, txStopped, rxStopped, failure, tx, txResult, rxResult>>
          /\ \/ rx = "error" /\ rx' = "stop" /\ queue' = Append(queue, rxResult)
             \/ rx = "stop" /\ rx' = "done" /\ queue' = Append(queue, RxStopped)
      BY <1>30 DEF RxSend, coVars, txVars
    <2>2. PICK m : queue' = Append(queue, m) /\ (rx = "error" => m = rxResult) BY <2>1
    <2>3. Waits(txResult, TxStopped) => Waits(txResult, TxStopped)'
      <3>1. PICK e, s : e = txResult /\ s = TxStopped OBVIOUS
      <3> QED BY <2>1, <2>2, <3>1, WaitsSend DEF Waits, TxStopped
    <2>4. Waits(rxResult, RxStopped) => Waits(rxResult, RxStopped)'
      <3>1. PICK e, s : e = rxResult /\ s = RxStopped OBVIOUS
      <3> QED BY <2>1, <2>2, <3>1, WaitsSend DEF Waits, RxStopped
    <2>5. CASE rx = "error"
      <3>1. ~rxStopped /\ ~InQueue(RxStopped) BY <2>5 DEF QueueInv
      <3>2. rxResult # RxStopped BY <2>5 DEF RxInv, WorkerError, RxStopped
      <3>3. Waits(rxResult, RxStopped)'
        <4>1. queue'[Len(queue) + 1] = rxResult /\ Len(queue) + 1 \in 1 .. Len(queue')
          BY <2>2, <2>5, Push
        <4>2. \A j \in 1 .. Len(queue') : queue'[j] # RxStopped
          BY <2>2, <2>5, <3>1, <3>2, Push DEF InQueue
        <4>3. Len(queue') = Len(queue) + 1 BY <2>2, Push
        <4> QED BY <2>1, <4>1, <4>2, <4>3 DEF Waits
      <3> QED BY <2>1, <2>3, <2>5, <3>1, <3>3 DEF ErrorInv, TxReported
    <2>6. CASE rx = "stop"
      BY <2>1, <2>3, <2>4, <2>6 DEF ErrorInv, TxReported, RxReported
    <2> QED BY <2>1, <2>5, <2>6
  <1>31. CASE RxPanic
    BY <1>31, ErrorFrame
    DEF RxPanic, TxReported, RxReported, coVars, txVars, history
  <1>32. CASE CallerCancel
    BY <1>32, ErrorFrame
    DEF CallerCancel, TxReported, RxReported, coVars, txVars, rxVars
  <1>33. CASE Tick
    BY <1>33, ErrorFrame
    DEF Tick, TxReported, RxReported, txVars, rxVars, ioVars, history
  <1>34. CASE UNCHANGED vars
    BY <1>34
    DEF vars, ErrorInv, TxReported, RxReported, Waits, coVars, txVars, rxVars, ioVars,
             history
  <1> QED
    BY <1>1, <1>2, <1>3, <1>4, <1>5, <1>6, <1>7, <1>8, <1>9, <1>10, <1>11, <1>12, <1>13,
             <1>14, <1>15, <1>16, <1>17, <1>18, <1>19, <1>20, <1>21, <1>22, <1>23,
             <1>24, <1>25, <1>26, <1>27, <1>28, <1>29, <1>30, <1>31, <1>32, <1>33, <1>34
    DEF Next, Coordinator, TxWorker, RxWorker, Returned

-----------------------------------------------------------------------------

\* What a coordinator without an error knows of the workers it has joined.
SuccessFacts ==
    /\ tx = "done" /\ rx = "done" /\ rxResult = NoEvent
    /\ txResult.kind = "tx_drained"
    /\ ~byCaller => TxConfirmed /\ left = 0

\* A coordinator without an error has joined two workers that did their work.
LEMMA FinalFacts ==
  ASSUME TypeOK, TxInv, RxInv, QueueInv, ErrorInv, CancelInv, co = "final", failure = "none"
  PROVE  SuccessFacts
  <1>1. tx = "done" /\ rx = "done" BY DEF ErrorInv
  <1>2. TxReported /\ RxReported BY <1>1 DEF TxReported, RxReported
  <1>3. queue = <<>> \/ (txStopped /\ rxStopped) BY DEF QueueInv, Joining
  <1>4. ~(txStopped /\ rxStopped) => \A e, stop : ~Waits(e, stop) BY <1>3 DEF Waits
  <1>5. rxResult = NoEvent BY <1>2, <1>4 DEF ErrorInv
  <1>6. txResult # WorkerError("tx_error") BY <1>2, <1>4 DEF ErrorInv
  <1>7. txResult.kind = "tx_drained" /\ txResult.arg \in Reasons
    BY <1>2, <1>6 DEF TxInv
  <1>8. ASSUME ~byCaller PROVE TxConfirmed /\ left = 0
    <2>1. CASE cancelled BY <1>8, <2>1 DEF CancelInv
    <2>2. CASE ~cancelled
      <3>1. left = 0 BY <1>1, <1>6, <2>2 DEF TxInv
      <3>2. txResult # TxDrained("cancelled") BY <2>2 DEF TxInv
      <3>3. txResult \in Messages BY <1>7 DEF TypeOK, NoEvent
      <3> QED BY <1>7, <3>1, <3>2, <3>3, Kinds DEF TxConfirmed
    <2> QED BY <2>1, <2>2 DEF TypeOK
  <1> QED BY <1>1, <1>5, <1>7, <1>8 DEF SuccessFacts

\* Once the call has returned no worker moves; before, only the observer's calls count.
LEMMA DoneFrame ==
  ASSUME DoneInv, UNCHANGED <<co, log>>,
         co = "done" => UNCHANGED <<tx, txResult, left, rx, rxResult, stats, byCaller, result>>
  PROVE  DoneInv'
  BY DEF DoneInv, Succeeded, TxConfirmed

\* Every step keeps what is true of a returned call.
LEMMA DoneStep ==
  ASSUME TypeOK, ThreadInv, TxInv, RxInv, QueueInv, ErrorInv, DrainInv, CancelInv,
             LogInv, DoneInv, [Next]_vars
  PROVE  DoneInv'
  <1>1. CASE CoStart
    <2>1. PICK ok \in BOOLEAN :
             /\ log' = Append(log, Event("running", "none", "none", ok))
             /\ (ok /\ co' = "spawn_rx") \/ (~ok /\ co' = "done" /\ result'.error = "observer")
      BY <1>1, StartFacts
    <2>2. co = "start" BY <1>1, StartFacts
    <2> DEFINE call == Event("running", "none", "none", ok)
    <2>3. call.phase = "running" BY DEF Event
    <2> HIDE DEF call
    <2>4. PICK e : log' = Append(log, e) /\ e.phase = "running" BY <2>1, <2>3 DEF call
    <2>5. \A i \in 1 .. Len(log') : log'[i].phase # "final"
      BY <2>2, <2>4, LogPush DEF DoneInv
    <2> QED BY <2>1, <2>5 DEF DoneInv, Succeeded
  <1>2. CASE CoSpawnRx
    BY <1>2
    DEF CoSpawnRx, Return, DoneInv, Succeeded, history
  <1>3. CASE CoSpawnTx
    BY <1>3
    DEF CoSpawnTx, DoneInv, Succeeded, history
  <1>4. CASE CoAbort
    BY <1>4
    DEF CoAbort, Return, DoneInv, Succeeded, history
  <1>5. CASE CoPoll
    BY <1>5
    DEF CoPoll, DoneInv, Succeeded, history
  <1>6. CASE CoRecvDrained
    BY <1>6
    DEF CoRecvDrained, Receive, DoneInv, Succeeded, history
  <1>7. CASE CoObserved
    <2>1. co = "observe" /\ co' = "poll" /\ pending.phase = "draining"
      BY <1>7, ObservedFacts DEF DrainInv
    <2>2. PICK e : log' = Append(log, e) /\ e.phase = "draining"
      BY <1>7, <2>1, ObservedFacts
    <2>3. \A i \in 1 .. Len(log') : log'[i].phase # "final"
      BY <2>1, <2>2, LogPush DEF DoneInv
    <2> QED BY <2>1, <2>3 DEF DoneInv, Succeeded
  <1>8. CASE CoRecvError
    BY <1>8
    DEF CoRecvError, Receive, Shutdown, DoneInv, Succeeded, history
  <1>9. CASE CoRecvStopped
    BY <1>9
    DEF CoRecvStopped, Receive, DoneInv, Succeeded, history
  <1>10. CASE CoRecvActivity
    BY <1>10
    DEF CoRecvActivity, Receive, DoneInv, Succeeded, history
  <1>11. CASE CoRecvNothing
    BY <1>11
    DEF CoRecvNothing, DoneInv, Succeeded, history
  <1>12. CASE CoJoin
    BY <1>12
    DEF CoJoin, DoneInv, Succeeded, history
  <1>13. CASE CoFinish
    <2>1. /\ co = "final" /\ co' = "done" /\ result'.stats = stats
          /\ UNCHANGED <<tx, txResult, left, rx, rxResult, stats, byCaller>>
      BY <1>13, FinishFacts DEF txVars, rxVars
    <2>2. \A reason, error, ok : /\ Event("final", reason, error, ok).stats = stats
                                 /\ Event("final", reason, error, ok).ok = ok
      BY DEF Event
    <2>3. CASE observerFailed /\ log' = log /\ result'.error = failure
      <3>1. failure = "observer" BY <2>3 DEF LogInv
      <3> QED BY <2>1, <2>3, <3>1 DEF DoneInv, Succeeded
    <2>4. CASE ~observerFailed
      <3>1. PICK ok \in BOOLEAN, reason \in Reasons \cup {"none"} :
               /\ log' = Append(log, Event("final", reason, failure, ok))
               /\ IF ok THEN result'.error = failure ELSE result'.error = "observer"
        BY <1>13, <2>4, FinishFacts
      <3>2. PICK e : log' = Append(log, e) /\ e.stats = stats /\ e.ok = ok
        BY <2>2, <3>1
      <3>3. \A i \in 1 .. Len(log') : log'[i].phase = "final" => log'[i].stats = stats'
        BY <2>1, <3>2, LogPush DEF DoneInv
      <3>4. ASSUME Succeeded' PROVE failure = "none" /\ ok
        BY <3>1, <3>4 DEF Succeeded
      <3>5. \A i \in 1 .. Len(log) : log[i].ok
        <4>1. Len(log) \in {1, 2} /\ log[1].ok BY <2>1 DEF LogInv, Running
        <4>2. Len(log) = 2 => log[2].ok BY <2>1, <2>4 DEF LogInv
        <4> QED BY <4>1, <4>2
      <3>6. ASSUME Succeeded' PROVE \A i \in 1 .. Len(log') : log'[i].ok
        BY <3>2, <3>4, <3>5, <3>6, LogPush
      <3>7. ASSUME Succeeded' PROVE SuccessFacts
        BY <2>1, <3>4, <3>7, FinalFacts
      <3> QED BY <2>1, <3>3, <3>6, <3>7 DEF DoneInv, SuccessFacts, TxConfirmed
    <2> QED BY <1>13, <2>3, <2>4, FinishFacts
  <1>14. CASE TxCheck
    BY <1>14, DoneFrame
    DEF TxCheck, ThreadInv, coVars, rxVars, ioVars, history
  <1>15. CASE TxReadChunk
    BY <1>15, DoneFrame
    DEF TxReadChunk, ThreadInv, coVars, rxVars, ioVars
  <1>16. CASE TxReadEof
    BY <1>16, DoneFrame
    DEF TxReadEof, ThreadInv, coVars, rxVars, ioVars, history
  <1>17. CASE TxReadError
    BY <1>17, DoneFrame
    DEF TxReadError, ThreadInv, coVars, rxVars, ioVars, history
  <1>18. CASE TxEchoLock
    BY <1>18, DoneFrame
    DEF TxEchoLock, ThreadInv, coVars, rxVars, history
  <1>19. CASE TxEchoReturn
    BY <1>19, DoneFrame
    DEF TxEchoReturn, ThreadInv, coVars, rxVars, history
  <1>20. CASE TxWriteCall
    BY <1>20, DoneFrame
    DEF TxWriteCall, ThreadInv, coVars, rxVars, ioVars, history
  <1>21. CASE TxWriteReturn
    BY <1>21, DoneFrame, WriteFacts
    DEF ThreadInv, coVars, rxVars, ioVars, history
  <1>22. CASE TxSubmit
    BY <1>22, DoneFrame
    DEF TxSubmit, ThreadInv, coVars, rxVars, ioVars
  <1>23. CASE TxDrain
    BY <1>23, DoneFrame, DrainFacts
    DEF ThreadInv, coVars, rxVars, ioVars
  <1>24. CASE TxSend
    BY <1>24, DoneFrame
    DEF TxSend, ThreadInv, coVars, rxVars, history
  <1>25. CASE TxPanic
    BY <1>25, DoneFrame
    DEF TxPanic, ThreadInv, coVars, rxVars, history
  <1>26. CASE RxCheck
    BY <1>26, DoneFrame
    DEF RxCheck, ThreadInv, coVars, txVars, ioVars, history
  <1>27. CASE RxReadReturn
    BY <1>27, DoneFrame
    DEF RxReadReturn, ThreadInv, coVars, txVars, ioVars
  <1>28. CASE RxOutputLock
    BY <1>28, DoneFrame
    DEF RxOutputLock, ThreadInv, coVars, txVars, history
  <1>29. CASE RxOutputReturn
    BY <1>29, DoneFrame, OutputFacts
    DEF ThreadInv, coVars, txVars, history
  <1>30. CASE RxSend
    BY <1>30, DoneFrame
    DEF RxSend, ThreadInv, coVars, txVars, history
  <1>31. CASE RxPanic
    BY <1>31, DoneFrame
    DEF RxPanic, ThreadInv, coVars, txVars, history
  <1>32. CASE CallerCancel
    BY <1>32, DoneFrame
    DEF CallerCancel, coVars, txVars, rxVars
  <1>33. CASE Tick
    BY <1>33, DoneFrame
    DEF Tick, txVars, rxVars, ioVars, history
  <1>34. CASE UNCHANGED vars
    BY <1>34
    DEF vars, DoneInv, Succeeded, TxConfirmed, coVars, txVars, rxVars, ioVars, history
  <1> QED
    BY <1>1, <1>2, <1>3, <1>4, <1>5, <1>6, <1>7, <1>8, <1>9, <1>10, <1>11, <1>12, <1>13,
             <1>14, <1>15, <1>16, <1>17, <1>18, <1>19, <1>20, <1>21, <1>22, <1>23,
             <1>24, <1>25, <1>26, <1>27, <1>28, <1>29, <1>30, <1>31, <1>32, <1>33, <1>34
    DEF Next, Coordinator, TxWorker, RxWorker, Returned

-----------------------------------------------------------------------------

(* IInv is inductive. *)
LEMMA NextIInv == IInv /\ [Next]_vars => IInv'
  <1> SUFFICES ASSUME IInv, [Next]_vars PROVE IInv'
    OBVIOUS
  <1> USE DEF IInv
  <1>1. TypeOK' BY TypeStep
  <1>2. Conservation' /\ CompletedMeansDrained' BY ConservationStep, CompletedStep
  <1>3. ThreadInv' /\ MutexInv' BY ThreadStep, MutexStep
  <1>4. TxInv' /\ RxInv' BY TxStep, RxStep
  <1>5. QueueInv' /\ ErrorInv' BY QueueStep, ErrorStep
  <1>6. DrainInv' /\ CancelInv' BY DrainStep, CancelStep
  <1>7. LogInv' /\ DoneInv' BY LogStep, DoneStep
  <1> QED BY <1>1, <1>2, <1>3, <1>4, <1>5, <1>6, <1>7

(* Every reachable state of a session satisfies the inductive invariant. *)
THEOREM Invariance == Spec => []IInv
  <1>1. Init => IInv BY InitIInv
  <1>2. IInv /\ [Next]_vars => IInv' BY NextIInv
  <1> QED BY <1>1, <1>2, PTL DEF Spec

(* The variables of coordinator, workers and channel keep their types. *)
THEOREM TypeCorrect == Spec => []TypeOK
  <1>1. IInv => TypeOK BY DEF IInv
  <1> QED BY <1>1, Invariance, PTL

(* Partial, retried and failed transfers of write_transport and rx_worker
   neither drop nor repeat a byte. *)
THEOREM BytesConserved == Spec => []Conservation
  <1>1. IInv => Conservation BY DEF IInv
  <1> QED BY <1>1, Invariance, PTL

(* complete_tx is called for exactly the accepted bytes, and only after
   transport.drain succeeded. *)
THEOREM CompletionFollowsDrain == Spec => []CompletedMeansDrained
  <1>1. IInv => CompletedMeansDrained BY DEF IInv
  <1> QED BY <1>1, Invariance, PTL

(* A session that returns Ok, and was not cancelled by its caller, has
   transmitted and delivered every byte it took. *)
THEOREM SuccessComplete == Spec => []SuccessIsComplete
  <1>1. IInv => SuccessIsComplete
    <2> SUFFICES ASSUME IInv, Succeeded, ~byCaller
                 PROVE  result.stats.completed = consumed /\ result.stats.received = taken
      BY DEF SuccessIsComplete
    <2>1. TxConfirmed /\ left = 0 /\ result.stats = stats /\ rx = "done" /\ rxResult = NoEvent
      BY DEF IInv, DoneInv
    <2>2. stats.completed = stats.accepted
      BY <2>1 DEF IInv, CompletedMeansDrained, TxConfirmed
    <2>3. held = 0 BY <2>1 DEF IInv, RxInv
    <2>4. stats \in Stats /\ consumed \in Nat /\ taken \in Nat BY DEF IInv, TypeOK
    <2> QED BY <2>1, <2>2, <2>3, <2>4 DEF IInv, Conservation, Stats
  <1> QED BY <1>1, Invariance, PTL

(* No worker error, panic or observer error is lost between the channel, the
   stop flags and the join. *)
THEOREM ErrorsAreReported == Spec => []ErrorsSurface
  <1>1. IInv => ErrorsSurface BY DEF IInv, DoneInv, ErrorsSurface
  <1> QED BY <1>1, Invariance, PTL

(* The call returns with no worker left, the mutex free and final counters. *)
THEOREM FinalStands == Spec => []FinalIsFinal
  <1>1. IInv => FinalIsFinal
    <2> SUFFICES ASSUME IInv, co = "done"
                 PROVE  /\ tx \in {"idle", "done", "panicked"}
                        /\ rx \in {"idle", "done", "panicked"}
                        /\ output = "free"
                        /\ \A i \in 1 .. Len(log) : log[i].phase = "final" => log[i].stats = stats
      BY DEF FinalIsFinal
    <2>1. tx \in {"idle", "done", "panicked"} /\ rx \in {"idle", "done", "panicked"}
      BY DEF IInv, ThreadInv
    <2>2. output = "free" BY <2>1 DEF IInv, MutexInv, TypeOK
    <2> QED BY <2>1, <2>2 DEF IInv, DoneInv
  <1> QED BY <1>1, Invariance, PTL

(* A stop for rx_idle or console_escape follows a confirmed drain. *)
THEOREM NormalStopDrained == Spec => []NormalStopIsDrained
  <1>1. IInv => NormalStopIsDrained
    BY DEF IInv, DrainInv, CompletedMeansDrained, TxConfirmed, NormalStopIsDrained
  <1> QED BY <1>1, Invariance, PTL

(* The TX counters of the Draining event are those of the session. *)
THEOREM DrainingExact == Spec => []DrainingIsExact
  <1>1. IInv => DrainingIsExact BY DEF IInv, DrainInv, DrainingIsExact
  <1> QED BY <1>1, Invariance, PTL

(* While the TX worker waits for input all it has accepted is submitted. *)
THEOREM InputWaitsSubmitted == Spec => []NothingUnsubmitted
  <1>1. IInv => NothingUnsubmitted BY DEF IInv, TxInv, NothingUnsubmitted
  <1> QED BY <1>1, Invariance, PTL

\* An error the coordinator has is kept, or replaced by the observer's.
LEMMA FailureStep ==
  ASSUME TypeOK, [Next]_vars
  PROVE  failure # "none" => failure' \in {failure, "observer"}
  <1>1. CASE CoStart BY <1>1, StartFacts DEF coVars
  <1>2. CASE CoSpawnRx BY <1>2 DEF CoSpawnRx, Return
  <1>3. CASE CoSpawnTx BY <1>3 DEF CoSpawnTx
  <1>4. CASE CoAbort BY <1>4 DEF CoAbort, Return
  <1>5. CASE CoPoll BY <1>5 DEF CoPoll
  <1>6. CASE CoRecvDrained BY <1>6 DEF CoRecvDrained, Receive
  <1>7. CASE CoObserved BY <1>7 DEF CoObserved, Event, ObserverOutcomes, Shutdown
  <1>8. CASE CoRecvError BY <1>8 DEF CoRecvError, Receive, Shutdown
  <1>9. CASE CoRecvStopped BY <1>9 DEF CoRecvStopped, Receive
  <1>10. CASE CoRecvActivity BY <1>10 DEF CoRecvActivity, Receive
  <1>11. CASE CoRecvNothing BY <1>11 DEF CoRecvNothing
  <1>12. CASE CoJoin BY <1>12 DEF CoJoin
  <1>13. CASE CoFinish BY <1>13, FinishFacts DEF coVars
  <1>14. CASE TxCheck BY <1>14 DEF TxCheck, TxEndsWith, coVars
  <1>15. CASE TxReadChunk BY <1>15 DEF TxReadChunk, coVars
  <1>16. CASE TxReadEof BY <1>16 DEF TxReadEof, coVars
  <1>17. CASE TxReadError BY <1>17 DEF TxReadError, TxEndsWith, coVars
  <1>18. CASE TxEchoLock BY <1>18 DEF TxEchoLock, coVars
  <1>19. CASE TxEchoReturn BY <1>19 DEF TxEchoReturn, TxEndsWith, coVars
  <1>20. CASE TxWriteCall BY <1>20 DEF TxWriteCall, coVars
  <1>21. CASE TxWriteReturn BY <1>21, WriteFacts DEF coVars
  <1>22. CASE TxSubmit BY <1>22 DEF TxSubmit, coVars
  <1>23. CASE TxDrain BY <1>23, DrainFacts DEF coVars
  <1>24. CASE TxSend BY <1>24 DEF TxSend, coVars
  <1>25. CASE TxPanic BY <1>25 DEF TxPanic, coVars
  <1>26. CASE RxCheck BY <1>26 DEF RxCheck, coVars
  <1>27. CASE RxReadReturn
    BY <1>27 DEF RxReadReturn, Completions, Failures, RxFails, coVars
  <1>28. CASE RxOutputLock BY <1>28 DEF RxOutputLock, coVars
  <1>29. CASE RxOutputReturn BY <1>29, OutputFacts DEF coVars
  <1>30. CASE RxSend BY <1>30 DEF RxSend, coVars
  <1>31. CASE RxPanic BY <1>31 DEF RxPanic, coVars
  <1>32. CASE CallerCancel BY <1>32 DEF CallerCancel, coVars
  <1>33. CASE Tick BY <1>33 DEF Tick
  <1>34. CASE UNCHANGED vars BY <1>34 DEF vars, coVars
  <1> QED
    BY <1>1, <1>2, <1>3, <1>4, <1>5, <1>6, <1>7, <1>8, <1>9, <1>10, <1>11, <1>12, <1>13,
             <1>14, <1>15, <1>16, <1>17, <1>18, <1>19, <1>20, <1>21, <1>22, <1>23,
             <1>24, <1>25, <1>26, <1>27, <1>28, <1>29, <1>30, <1>31, <1>32, <1>33, <1>34
    DEF Next, Coordinator, TxWorker, RxWorker, Returned

\* With the flag set no worker begins another transfer.
LEMMA TrafficStep ==
  ASSUME TypeOK, [Next]_vars
  PROVE  cancelled => /\ tx' \in {"read", "writing"} => tx' = tx
                      /\ rx' = "reading" => rx' = rx
  <1>1. CASE CoStart
   
    BY <1>1 DEF CoStart, Return, Event, ObserverOutcomes, txVars, rxVars
  <1>2. CASE CoSpawnRx BY <1>2 DEF CoSpawnRx, Return, txVars
  <1>3. CASE CoSpawnTx BY <1>3 DEF CoSpawnTx, rxVars
  <1>4. CASE CoAbort BY <1>4 DEF CoAbort, Return, txVars, rxVars
  <1>5. CASE CoPoll BY <1>5 DEF CoPoll, txVars, rxVars
  <1>6. CASE CoRecvDrained BY <1>6 DEF CoRecvDrained, Receive, txVars, rxVars
  <1>7. CASE CoObserved
    BY <1>7 DEF CoObserved, Event, ObserverOutcomes, Shutdown, txVars, rxVars
  <1>8. CASE CoRecvError BY <1>8 DEF CoRecvError, Receive, Shutdown, txVars, rxVars
  <1>9. CASE CoRecvStopped BY <1>9 DEF CoRecvStopped, Receive, txVars, rxVars
  <1>10. CASE CoRecvActivity BY <1>10 DEF CoRecvActivity, Receive, txVars, rxVars
  <1>11. CASE CoRecvNothing BY <1>11 DEF CoRecvNothing, txVars, rxVars
  <1>12. CASE CoJoin BY <1>12 DEF CoJoin, txVars, rxVars
  <1>13. CASE CoFinish
    BY <1>13 DEF CoFinish, Return, Event, ObserverOutcomes, txVars, rxVars
  <1>14. CASE TxCheck BY <1>14 DEF TxCheck, TxEndsWith, rxVars
  <1>15. CASE TxReadChunk BY <1>15 DEF TxReadChunk, rxVars
  <1>16. CASE TxReadEof BY <1>16 DEF TxReadEof, rxVars
  <1>17. CASE TxReadError BY <1>17 DEF TxReadError, TxEndsWith, rxVars
  <1>18. CASE TxEchoLock BY <1>18 DEF TxEchoLock, rxVars
  <1>19. CASE TxEchoReturn BY <1>19 DEF TxEchoReturn, TxEndsWith, rxVars
  <1>20. CASE TxWriteCall BY <1>20 DEF TxWriteCall, rxVars
  <1>21. CASE TxWriteReturn BY <1>21, WriteFacts DEF coVars, rxVars
  <1>22. CASE TxSubmit BY <1>22 DEF TxSubmit, rxVars
  <1>23. CASE TxDrain BY <1>23, DrainFacts DEF coVars, rxVars
  <1>24. CASE TxSend BY <1>24 DEF TxSend, rxVars
  <1>25. CASE TxPanic BY <1>25 DEF TxPanic, rxVars
  <1>26. CASE RxCheck BY <1>26 DEF RxCheck, txVars
  <1>27. CASE RxReadReturn
    BY <1>27 DEF RxReadReturn, Completions, Failures, RxFails, txVars
  <1>28. CASE RxOutputLock BY <1>28 DEF RxOutputLock, txVars
  <1>29. CASE RxOutputReturn BY <1>29, OutputFacts DEF coVars, txVars
  <1>30. CASE RxSend BY <1>30 DEF RxSend, txVars
  <1>31. CASE RxPanic BY <1>31 DEF RxPanic, txVars
  <1>32. CASE CallerCancel BY <1>32 DEF CallerCancel, txVars, rxVars
  <1>33. CASE Tick BY <1>33 DEF Tick, txVars, rxVars
  <1>34. CASE UNCHANGED vars BY <1>34 DEF vars, txVars, rxVars
  <1> QED
    BY <1>1, <1>2, <1>3, <1>4, <1>5, <1>6, <1>7, <1>8, <1>9, <1>10, <1>11, <1>12, <1>13,
             <1>14, <1>15, <1>16, <1>17, <1>18, <1>19, <1>20, <1>21, <1>22, <1>23,
             <1>24, <1>25, <1>26, <1>27, <1>28, <1>29, <1>30, <1>31, <1>32, <1>33, <1>34
    DEF Next, Coordinator, TxWorker, RxWorker, Returned

(* An error the coordinator has recorded is only ever replaced by an error of
   the observer. *)
THEOREM FirstErrorKept == Spec => FirstErrorStands
  <1>1. IInv => TypeOK BY DEF IInv
  <1>2. TypeOK /\ [Next]_vars => [failure # "none" => failure' \in {failure, "observer"}]_vars
    BY FailureStep
  <1> QED BY <1>1, <1>2, Invariance, PTL DEF Spec, FirstErrorStands

(* Once the flag is set no worker begins another read of the input, write to
   the transport or read of the transport. *)
THEOREM CancelledTrafficStops == Spec => CancelStopsTraffic
  <1>1. IInv => TypeOK BY DEF IInv
  <1>2. TypeOK /\ [Next]_vars =>
           [cancelled => /\ tx' \in {"read", "writing"} => tx' = tx
                         /\ rx' = "reading" => rx' = rx]_vars
    BY TrafficStep
  <1> QED BY <1>1, <1>2, Invariance, PTL DEF Spec, CancelStopsTraffic

-----------------------------------------------------------------------------
(* Session implements SessionContract: the initial states map to initial     *)
(* states, and every step of the coordinator, of a worker, of the caller or  *)
(* of the clock is one call of the observer, a return, or a stutter of the   *)
(* contract.                                                                 *)


\* The counters of a call already made are not ahead of the session's.
Behind(s) == /\ s.accepted <= stats.accepted
             /\ s.completed <= stats.completed
             /\ s.received <= stats.received

Grows == /\ stats'.accepted >= stats.accepted
         /\ stats'.completed >= stats.completed
         /\ stats'.received >= stats.received

\* What the refinement needs beyond IInv.
ContractInv ==
    /\ \A i \in 1 .. Len(log) : Behind(log[i].stats)
    /\ co = "observe" => Behind(pending.stats) /\ pending.error = "none"
    /\ co # "done" => result.reason = "none" /\ result.error = "none" /\ result.stats = Zero

\* The counters only grow; only the coordinator touches the calls and the value.
LEMMA CountersGrow ==
  ASSUME IInv, TxWorker \/ RxWorker \/ CallerCancel \/ Tick \/ UNCHANGED vars
  PROVE  UNCHANGED <<co, pending, log, result>> /\ Grows
  <1>1. /\ TypeOK /\ stats \in Stats /\ held \in Nat
        /\ stats.completed \in {0, stats.accepted}
    BY DEF IInv, TypeOK, CompletedMeansDrained
  <1>2. stats' = stats => Grows BY <1>1 DEF Stats, Grows
  <1>14. CASE TxCheck BY <1>2, <1>14 DEF TxCheck, TxEndsWith, coVars, history
  <1>15. CASE TxReadChunk BY <1>2, <1>15 DEF TxReadChunk, coVars
  <1>16. CASE TxReadEof BY <1>2, <1>16 DEF TxReadEof, coVars, history
  <1>17. CASE TxReadError BY <1>2, <1>17 DEF TxReadError, TxEndsWith, coVars, history
  <1>18. CASE TxEchoLock BY <1>2, <1>18 DEF TxEchoLock, coVars, history
  <1>19. CASE TxEchoReturn BY <1>2, <1>19 DEF TxEchoReturn, TxEndsWith, coVars, history
  <1>20. CASE TxWriteCall BY <1>2, <1>20 DEF TxWriteCall, coVars, history
  <1>21. CASE TxWriteReturn
    <2>1. Grows BY <1>1, <1>21, WriteFacts DEF Grows, Stats
    <2> QED BY <1>1, <1>21, <2>1, WriteFacts DEF coVars, history
  <1>22. CASE TxSubmit BY <1>2, <1>22 DEF TxSubmit, coVars
  <1>23. CASE TxDrain
    <2>1. Grows BY <1>1, <1>23, DrainFacts DEF Grows, Stats
    <2> QED BY <1>1, <1>23, <2>1, DrainFacts DEF coVars
  <1>24. CASE TxSend BY <1>2, <1>24 DEF TxSend, coVars, history
  <1>25. CASE TxPanic BY <1>2, <1>25 DEF TxPanic, coVars, history
  <1>26. CASE RxCheck BY <1>2, <1>26 DEF RxCheck, coVars, history
  <1>27. CASE RxReadReturn
    BY <1>2, <1>27 DEF RxReadReturn, Completions, Failures, RxFails, coVars
  <1>28. CASE RxOutputLock BY <1>2, <1>28 DEF RxOutputLock, coVars, history
  <1>29. CASE RxOutputReturn
    <2>1. Grows BY <1>1, <1>29, OutputFacts DEF Grows, Stats
    <2> QED BY <1>1, <1>29, <2>1, OutputFacts DEF coVars, history
  <1>30. CASE RxSend BY <1>2, <1>30 DEF RxSend, coVars, history
  <1>31. CASE RxPanic BY <1>2, <1>31 DEF RxPanic, coVars, history
  <1>32. CASE CallerCancel BY <1>2, <1>32 DEF CallerCancel, coVars
  <1>33. CASE Tick BY <1>2, <1>33 DEF Tick, history
  <1>34. CASE UNCHANGED vars BY <1>2, <1>34 DEF vars, coVars, history
  <1> QED
    BY <1>14, <1>15, <1>16, <1>17, <1>18, <1>19, <1>20, <1>21, <1>22, <1>23,
       <1>24, <1>25, <1>26, <1>27, <1>28, <1>29, <1>30, <1>31, <1>32, <1>33, <1>34
    DEF TxWorker, RxWorker

LEMMA InitContract == Init => ContractInv /\ Contract!Init
  BY DEF Init, ContractInv, Contract!Init, Contract!Zero, Zero

\* A call of the observer made now tells the counters of now, and keeps the order.
LEMMA ObservesNow ==
  ASSUME IInv, ContractInv, NEW e, log' = Append(log, e), Behind(e.stats),
         \A c \in {"accepted", "completed", "received"} : e.stats[c] = stats[c],
         \A i \in 1 .. Len(log) : log[i].ok
  PROVE  Contract!Observes(e.phase) /\ Contract!Latest = e
  <1>1. /\ Len(log') = Len(log) + 1 /\ log'[Len(log')] = e
        /\ \A i \in 1 .. Len(log) : log'[i] = log[i]
    BY LogPush DEF IInv
  <1>2. \A i \in 1 .. Len(log) : \A c \in {"accepted", "completed", "received"} :
           log[i].stats[c] <= e.stats[c]
    BY DEF ContractInv, Behind
  <1> QED BY <1>1, <1>2 DEF Contract!Observes, Contract!Latest

LEMMA BehindSelf == ASSUME IInv PROVE Behind(stats) /\ (stats' = stats => Grows)
  BY DEF Behind, Grows, IInv, TypeOK, Stats

\* Steps that call nobody and return nothing, while the counters grow.
LEMMA SilentStep ==
  ASSUME IInv, IInv', ContractInv, UNCHANGED <<log, result>>, Grows,
         co' = "done" <=> co = "done",
         co' = "observe" => \/ UNCHANGED <<co, pending>>
                            \/ Behind(pending'.stats) /\ pending'.error = "none"
  PROVE  ContractInv' /\ UNCHANGED Contract!vars
  <1>1. stats \in Stats /\ stats' \in Stats BY DEF IInv, TypeOK
  <1>2. \A i \in 1 .. Len(log) : log[i] \in Entries BY DEF IInv, TypeOK
  <1>3. pending \in Entries /\ pending' \in Entries BY DEF IInv, TypeOK
  <1>4. \A i \in 1 .. Len(log') : Behind(log[i].stats)'
    BY <1>1, <1>2 DEF ContractInv, Behind, Grows, Entries, Stats
  <1>5. co' = "observe" => Behind(pending.stats)' /\ pending'.error = "none"
    BY <1>1, <1>3 DEF ContractInv, Behind, Grows, Entries, Stats
  <1> QED BY <1>4, <1>5 DEF ContractInv, Contract!vars

\* The observer returns from Running.
LEMMA StartImplements ==
  ASSUME IInv, ContractInv, CoStart
  PROVE  ContractInv' /\ Contract!Next
  <1>1. log = <<>> /\ stats = Zero /\ co = "start"
    BY StartFacts DEF IInv, LogInv
  <1>2. PICK ok \in BOOLEAN :
           /\ log' = Append(log, Event("running", "none", "none", ok))
           /\ \/ ok /\ co' = "spawn_rx" /\ result' = result
              \/ ~ok /\ co' = "done" /\ result'.error = "observer" /\ result'.reason = "none"
           /\ stats' = stats
    BY StartFacts DEF IInv
  <1> DEFINE e == Event("running", "none", "none", ok)
  <1>3. e.phase = "running" /\ e.stats = stats /\ e.ok = ok BY DEF Event
  <1> HIDE DEF e
  <1>4. Behind(e.stats) BY <1>3 DEF Behind, IInv, TypeOK, Stats
  <1>5. Contract!Observes("running") /\ Contract!Latest = e
    BY <1>1, <1>2, <1>3, <1>4, ObservesNow DEF e
  <1>6. Contract!Next
    BY <1>1, <1>2, <1>3, <1>5
    DEF Contract!Next, Contract!Start, Contract!Returns, Contract!Zero, Zero
  <1>7. Len(log') = 1 /\ log'[1] = e BY <1>1, <1>2 DEF e
  <1>8. Behind(log[1].stats)' BY <1>2, <1>4, <1>7 DEF Behind
  <1> QED BY <1>1, <1>2, <1>6, <1>7, <1>8 DEF ContractInv

\* The observer returns from Draining.
LEMMA ObservedImplements ==
  ASSUME IInv, IInv', ContractInv, CoObserved
  PROVE  ContractInv' /\ Contract!Next
  <1>1. /\ co = "observe" /\ co' = "poll" /\ UNCHANGED <<stats, result>>
        /\ \E e \in Entries : /\ log' = Append(log, e) /\ e.phase = pending.phase
                               /\ e.reason = pending.reason /\ e.stats = pending.stats
    BY ObservedFacts DEF IInv
  <1>2. PICK e \in Entries : /\ log' = Append(log, e) /\ e.phase = pending.phase
                             /\ e.reason = pending.reason /\ e.stats = pending.stats
    BY <1>1
  <1>3. /\ Len(log) = 1 /\ log[1].ok /\ log[1].stats = Zero
        /\ txResult = TxDrained(pending.reason)
    <2>1. Len(log) = 1 /\ txResult = TxDrained(pending.reason)
      BY <1>1 DEF IInv, QueueInv
    <2>2. log[1].ok /\ log[1].stats = Zero BY <1>1, <2>1 DEF IInv, LogInv
    <2> QED BY <2>1, <2>2
  <1>4. /\ Len(log') = 2 /\ log'[2] = e /\ log'[1] = log[1]
    BY <1>2, <1>3, LogPush DEF IInv
  <1>5. /\ e.phase = "draining"
        /\ e.stats.accepted = stats.accepted /\ e.stats.completed = stats.completed
    BY <1>1, <1>2 DEF IInv, DrainInv
  <1>6. e.reason = "cancelled" \/ e.stats.completed = e.stats.accepted
    BY <1>2, <1>3, <1>5 DEF IInv, CompletedMeansDrained, TxDrained
  <1>7. \A c \in {"accepted", "completed", "received"} : Zero[c] <= e.stats[c]
    BY DEF Zero, Entries, Stats
  <1>8. Contract!Observes("draining") /\ Contract!Latest = e
    BY <1>3, <1>4, <1>5, <1>7 DEF Contract!Observes, Contract!Latest
  <1>9. Contract!Next
    BY <1>1, <1>3, <1>6, <1>8 DEF Contract!Next, Contract!Drain
  <1>10. Behind(log[1].stats)' /\ Behind(log[2].stats)'
    <2>1. Behind(log[1].stats) /\ Behind(pending.stats)
      BY <1>1, <1>3 DEF ContractInv
    <2> QED BY <1>1, <1>2, <1>4, <2>1 DEF Behind
  <1> QED BY <1>1, <1>4, <1>9, <1>10 DEF ContractInv

\* A worker thread could not be started.
LEMMA SpawnImplements ==
  ASSUME IInv, IInv', ContractInv, CoSpawnRx \/ CoAbort
  PROVE  ContractInv' /\ (Contract!Next \/ UNCHANGED Contract!vars)
  <1>1. /\ co \in {"spawn_rx", "abort"} /\ UNCHANGED <<log, stats>>
        /\ \/ co' = "spawn_tx" /\ UNCHANGED result
           \/ co' = "done" /\ result'.reason = "none" /\ result'.error = "spawn"
    BY DEF CoSpawnRx, CoAbort, Return
  <1>2. Len(log) = 1 /\ log[1].ok BY <1>1 DEF IInv, LogInv
  <1>3. Grows BY <1>1, SMTT(30) DEF Grows, IInv, TypeOK, Stats
  <1>4. CASE co' = "spawn_tx" BY <1>1, <1>3, <1>4, SilentStep
  <1>5. CASE co' = "done"
    <2>1. Contract!Next
      BY <1>1, <1>2, <1>5 DEF Contract!Next, Contract!Abandon, Contract!Returns
    <2>2. \A i \in 1 .. Len(log') : Behind(log[i].stats)'
      BY <1>1 DEF ContractInv, Behind
    <2> QED BY <1>5, <2>1, <2>2 DEF ContractInv
  <1> QED BY <1>1, <1>4, <1>5

\* The tail of run_session_observed.
LEMMA FinishImplements ==
  ASSUME IInv, IInv', ContractInv, CoFinish
  PROVE  ContractInv' /\ Contract!Next
  <1>1. /\ co = "final" /\ co' = "done" /\ result'.stats = stats /\ stats' = stats
        /\ Len(log) \in {1, 2} /\ log[1].ok /\ log[1].phase = "running"
        /\ Len(log) = 2 => (log[2].ok <=> ~observerFailed)
        /\ Len(log) = 1 => ~observerFailed
        /\ observerFailed => failure = "observer"
    BY FinishFacts DEF IInv, LogInv, Running
  <1>2. CASE observerFailed /\ log' = log /\ result'.error = failure /\ result'.reason = "none"
    <2>1. Contract!Next
      BY <1>1, <1>2 DEF Contract!Next, Contract!Abandon, Contract!Returns
    <2>2. \A i \in 1 .. Len(log') : Behind(log[i].stats)'
      BY <1>1, <1>2 DEF ContractInv, Behind
    <2> QED BY <1>1, <2>1, <2>2 DEF ContractInv
  <1>3. ASSUME ~observerFailed, NEW ok \in BOOLEAN, NEW reason \in Reasons \cup {"none"},
               log' = Append(log, Event("final", reason, failure, ok)),
               IF ~ok THEN result'.error = "observer" /\ result'.reason = "none"
               ELSE /\ result'.error = failure
                    /\ result'.reason = IF failure # "none" THEN "none" ELSE reason
        PROVE  ContractInv' /\ Contract!Next
    <2> DEFINE e == Event("final", reason, failure, ok)
    <2>1. /\ e.phase = "final" /\ e.stats = stats /\ e.ok = ok
          /\ e.error = failure /\ e.reason = reason
      BY DEF Event
    <2>2. log' = Append(log, e) BY <1>3
    <2> HIDE DEF e
    <2>3. Behind(e.stats) BY <2>1, BehindSelf DEF Behind
    <2>4. \A i \in 1 .. Len(log) : log[i].ok BY <1>1, <1>3
    <2>5. Contract!Observes("final") /\ Contract!Latest = e
      BY <2>1, <2>2, <2>3, <2>4, ObservesNow
    <2>6. Contract!Next
      BY <1>1, <1>3, <2>1, <2>5 DEF Contract!Next, Contract!Finish, Contract!Returns
    <2>7. \A i \in 1 .. Len(log') : Behind(log[i].stats)'
      <3>1. \A i \in 1 .. Len(log') : log'[i] = e \/ (i \in 1 .. Len(log) /\ log'[i] = log[i])
        BY <2>2, LogPush DEF IInv
      <3>2. \A i \in 1 .. Len(log') : Behind(log'[i].stats)
        BY <2>3, <3>1 DEF ContractInv
      <3> QED BY <1>1, <3>2 DEF Behind
    <2> QED BY <1>1, <2>6, <2>7 DEF ContractInv
  <1> QED BY <1>2, <1>3, FinishFacts DEF IInv

\* Every step of a session is a step or a stutter of its contract.
LEMMA StepImplements ==
  ASSUME IInv, ContractInv, [Next]_vars
  PROVE  ContractInv' /\ [Contract!Next]_(Contract!vars)
  <1>1. IInv' BY NextIInv
  <1>2. CASE CoStart BY <1>2, StartImplements
  <1>3. CASE CoObserved BY <1>1, <1>3, ObservedImplements
  <1>4. CASE CoFinish BY <1>1, <1>4, FinishImplements
  <1>5. CASE CoSpawnRx \/ CoAbort BY <1>1, <1>5, SpawnImplements
  <1>6. CASE CoRecvDrained
    <2>1. /\ co = "recv" /\ co' = "observe" /\ UNCHANGED <<log, result, stats>>
          /\ pending' = Event("draining", Head(queue).arg, "none", TRUE)
      BY <1>6 DEF CoRecvDrained, Receive, history
    <2>2. pending'.stats = stats /\ pending'.error = "none" BY <2>1 DEF Event
    <2>3. Grows /\ Behind(pending'.stats)
      BY <2>1, <2>2, BehindSelf DEF Behind
    <2> QED BY <1>1, <2>1, <2>2, <2>3, SilentStep
  <1>7. CASE \/ CoSpawnTx \/ CoPoll \/ CoRecvError \/ CoRecvStopped
             \/ CoRecvActivity \/ CoRecvNothing \/ CoJoin
    <2>1. /\ UNCHANGED <<log, result, stats>>
          /\ co \notin {"done", "observe"} /\ co' \notin {"done", "observe"}
      BY <1>7 DEF CoSpawnTx, CoPoll, CoRecvError, CoRecvStopped, CoRecvActivity,
                  CoRecvNothing, CoJoin, Receive, history
    <2>2. Grows BY <2>1 DEF Grows, IInv, TypeOK, Stats
    <2> QED BY <1>1, <2>1, <2>2, SilentStep
  <1>8. CASE TxWorker \/ RxWorker \/ CallerCancel \/ Tick \/ UNCHANGED vars
    BY <1>1, <1>8, CountersGrow, SilentStep
  <1> QED BY <1>2, <1>3, <1>4, <1>5, <1>6, <1>7, <1>8 DEF Next, Coordinator, Returned

(* Session implements its contract: the observer is called for Running,
   Draining at most once and Final, in this order, with counters that never go
   back, never again after it failed, and the value returned follows from what
   it was told. *)
THEOREM SessionImplementsContract == Spec => ContractSpec
  <1>1. Init => IInv /\ ContractInv /\ Contract!Init BY InitIInv, InitContract
  <1>2. IInv /\ ContractInv /\ [Next]_vars =>
           IInv' /\ ContractInv' /\ [Contract!Next]_(Contract!vars)
    BY NextIInv, StepImplements
  <1> QED BY <1>1, <1>2, PTL DEF Spec, ContractSpec, Contract!Spec

=============================================================================
