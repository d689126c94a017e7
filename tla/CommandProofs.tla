---------------------------- MODULE CommandProofs ----------------------------
(***************************************************************************)
(* Proofs about Command: a command runs its session as Session allows, it  *)
(* restores the terminal, and its exit status agrees with its event log    *)
(* and with an early SIGINT, for every value of the constants.             *)
(***************************************************************************)
EXTENDS Command, SessionProofs

BeforeSession == cmd \in {"validate", "handler", "log", "open", "raw"}
Finished      == cmd \in {"unwind", "drop", "main", "gone"}

\* The observer was told the outcome, and wrote it down.
Told == Final /\ log[Len(log)].ok

\* Where the session and the variables of the process are at each step.
PhaseInv ==
    /\ BeforeSession => co = "start" /\ stopReason = "none"
    /\ cmd = "session" => co # "done"
    /\ BeforeSession \/ cmd = "session" => recorded = NoCode
    /\ cmd # "gone" => exit = NoCode
    /\ cmd = "gone" => \/ exit = Killed /\ log = <<>> /\ ~early
                       \/ exit = ExitCode(category)

\* A line that was written is in the file with all before it.
FileInv == logging /\ (Len(log) = 0 \/ log[Len(log)].ok) => disk = Len(log)

\* A Final record holds the code of the error returned, and there is no
\* success without one.
RecordInv ==
    Finished => /\ Told => recorded = ErrorExitCode(category)
                /\ category = "none" /\ exit # Killed => Told

\* A session whose flag was set before it began cannot end without an error:
\* the first poll takes the cancellation unless an error came first.
Remembers ==
    /\ cancelled
    /\ co \in {"start", "spawn_rx", "spawn_tx", "abort"} => stopReason = "none"
    /\ co = "poll" => failure # "none" \/ stopReason = "none"
    /\ co \in {"recv", "observe", "join", "join_rx", "final"} => failure # "none"
    /\ co = "done" => result.error # "none"

EarlyInv ==
    early => /\ Remembers
             /\ cmd \notin {"validate", "handler"}
             /\ Finished => category # "none"

CommandIInv ==
    /\ IInv /\ CommandInv /\ PhaseInv /\ FileInv /\ RecordInv /\ EarlyInv

-----------------------------------------------------------------------------
(* What a step of the session is for the command. *)

\* The step of a command is a step of its session or leaves the session alone.
LEMMA CommandStep ==
  ASSUME [CommandNext]_<<vars, commandVars>>
  PROVE  [Next]_vars
  BY DEF CommandNext, Validate, InstallCtrlC, OpenLog, OpenPort, EnterRaw, Attempt,
         Signal, SignalKills, RunSession, DropTerminal, DropObserver, Main, Exited, Next

\* The workers, the caller and the clock decide nothing of the outcome.
LEMMA OthersFrame ==
  ASSUME TypeOK, TxWorker \/ RxWorker \/ CallerCancel \/ Tick \/ UNCHANGED vars
  PROVE  /\ UNCHANGED <<co, failure, stopReason, observerFailed, log, result>>
         /\ cancelled => cancelled'
  <1>14. CASE TxCheck BY <1>14 DEF TxCheck, TxEndsWith, coVars, ioVars, history
  <1>15. CASE TxReadChunk BY <1>15 DEF TxReadChunk, coVars, ioVars
  <1>16. CASE TxReadEof BY <1>16 DEF TxReadEof, coVars, ioVars, history
  <1>17. CASE TxReadError BY <1>17 DEF TxReadError, TxEndsWith, coVars, ioVars, history
  <1>18. CASE TxEchoLock BY <1>18 DEF TxEchoLock, coVars, history
  <1>19. CASE TxEchoReturn BY <1>19 DEF TxEchoReturn, TxEndsWith, coVars, history
  <1>20. CASE TxWriteCall BY <1>20 DEF TxWriteCall, coVars, ioVars, history
  <1>21. CASE TxWriteReturn BY <1>21, WriteFacts DEF coVars, ioVars, history
  <1>22. CASE TxSubmit BY <1>22 DEF TxSubmit, coVars, ioVars
  <1>23. CASE TxDrain BY <1>23, DrainFacts DEF coVars, ioVars
  <1>24. CASE TxSend BY <1>24 DEF TxSend, coVars, history
  <1>25. CASE TxPanic BY <1>25 DEF TxPanic, coVars, history
  <1>26. CASE RxCheck BY <1>26 DEF RxCheck, coVars, ioVars, history
  <1>27. CASE RxReadReturn
    BY <1>27 DEF RxReadReturn, Completions, Failures, RxFails, coVars, ioVars
  <1>28. CASE RxOutputLock BY <1>28 DEF RxOutputLock, coVars, history
  <1>29. CASE RxOutputReturn BY <1>29, OutputFacts DEF coVars, history
  <1>30. CASE RxSend BY <1>30 DEF RxSend, coVars, history
  <1>31. CASE RxPanic BY <1>31 DEF RxPanic, coVars, history
  <1>32. CASE CallerCancel BY <1>32 DEF CallerCancel, coVars
  <1>33. CASE Tick BY <1>33 DEF Tick, ioVars, history
  <1>34. CASE UNCHANGED vars BY <1>34 DEF vars, coVars, ioVars, history
  <1> QED
    BY <1>14, <1>15, <1>16, <1>17, <1>18, <1>19, <1>20, <1>21, <1>22, <1>23,
       <1>24, <1>25, <1>26, <1>27, <1>28, <1>29, <1>30, <1>31, <1>32, <1>33, <1>34
    DEF TxWorker, RxWorker

\* A session told to cancel before it began never comes to a success.
LEMMA RememberStep ==
  ASSUME TypeOK, Remembers, [Next]_vars
  PROVE  Remembers'
  <1> USE DEF Remembers
  <1>1. CASE CoStart
    <2>1. /\ co = "start" /\ stopReason' = stopReason /\ cancelled' = cancelled
          /\ co' = "spawn_rx" \/ (co' = "done" /\ result'.error = "observer")
      BY <1>1, StartFacts DEF ioVars
    <2> QED BY <2>1
  <1>2. CASE CoSpawnRx BY <1>2 DEF CoSpawnRx, Return, ioVars
  <1>3. CASE CoSpawnTx BY <1>3 DEF CoSpawnTx
  <1>4. CASE CoAbort BY <1>4 DEF CoAbort, Return, ioVars
  <1>5. CASE CoPoll BY <1>5 DEF CoPoll, TypeOK
  <1>6. CASE CoRecvDrained BY <1>6 DEF CoRecvDrained, Receive
  <1>7. CASE CoObserved
    <2>1. /\ co = "observe" /\ co' = "poll" /\ failure' \in {failure, "observer"}
          /\ cancelled' \in {cancelled, TRUE}
      BY <1>7, ObservedFacts DEF Shutdown
    <2> QED BY <2>1
  <1>8. CASE CoRecvError BY <1>8 DEF CoRecvError, Receive, Shutdown
  <1>9. CASE CoRecvStopped BY <1>9 DEF CoRecvStopped, Receive
  <1>10. CASE CoRecvActivity BY <1>10 DEF CoRecvActivity, Receive
  <1>11. CASE CoRecvNothing BY <1>11 DEF CoRecvNothing, ioVars
  <1>12. CASE CoJoin BY <1>12 DEF CoJoin, ioVars
  <1>13. CASE CoFinish
    <2>1. /\ co = "final" /\ co' = "done" /\ cancelled' = cancelled
          /\ result'.error \in {failure, "observer"}
      BY <1>13, FinishFacts DEF ioVars
    <2> QED BY <2>1
  <1>14. CASE TxWorker \/ RxWorker \/ CallerCancel \/ Tick \/ UNCHANGED vars
    BY <1>14, OthersFrame
  <1> QED
    BY <1>1, <1>2, <1>3, <1>4, <1>5, <1>6, <1>7, <1>8, <1>9, <1>10, <1>11, <1>12, <1>13,
       <1>14 DEF Next, Coordinator, Returned

\* How a session ends: with an error and without a Final record, or with the
\* error that the Final record was told.
LEMMA EndStep ==
  ASSUME TypeOK, LogInv, DoneInv, [Next]_vars, co # "done"
  PROVE  /\ Len(log') >= Len(log)
         /\ co' = "done" => \/ ~Told' /\ result'.error # "none"
                            \/ Told' /\ result'.error = failure
  <1> USE DEF Told, Final
  <1>0. Len(log) \in Nat BY DEF TypeOK
  <1>1. CASE CoStart
    <2>1. PICK ok \in BOOLEAN :
             /\ log' = Append(log, Event("running", "none", "none", ok))
             /\ co' = "spawn_rx" \/ (co' = "done" /\ result'.error = "observer")
      BY <1>1, StartFacts
    <2> DEFINE call == Event("running", "none", "none", ok)
    <2>2. call.phase = "running" BY DEF Event
    <2> HIDE DEF call
    <2>3. Len(log') = Len(log) + 1 /\ log'[Len(log')] = call BY <2>1, LogPush DEF call
    <2> QED BY <1>0, <2>1, <2>2, <2>3
  <1>2. CASE co = "final" /\ CoFinish
    <2>1. \/ observerFailed /\ log' = log /\ result'.error = failure
          \/ \E e : /\ log' = Append(log, e) /\ e.phase = "final"
                    /\ IF e.ok THEN result'.error = failure
                               ELSE result'.error = "observer"
      <3>1. \A reason, error : \A ok \in BOOLEAN :
               /\ Event("final", reason, error, ok).phase = "final"
               /\ Event("final", reason, error, ok).ok = ok
        BY DEF Event
      <3> QED BY <1>2, <3>1, FinishFacts
    <2>2. CASE observerFailed /\ log' = log /\ result'.error = failure
      <3>1. failure = "observer" BY <2>2 DEF LogInv
      <3>2. ~Told' BY <1>0, <2>2 DEF DoneInv
      <3> QED BY <1>0, <2>2, <3>1, <3>2
    <2>3. ASSUME NEW e, log' = Append(log, e), e.phase = "final",
                 IF e.ok THEN result'.error = failure ELSE result'.error = "observer"
          PROVE  /\ Len(log') >= Len(log)
                 /\ \/ ~Told' /\ result'.error # "none"
                    \/ Told' /\ result'.error = failure
      <3>1. Len(log') = Len(log) + 1 /\ log'[Len(log')] = e BY <2>3, LogPush
      <3> QED BY <1>0, <2>3, <3>1
    <2> QED BY <2>1, <2>2, <2>3
  <1>3. CASE CoSpawnRx
    <2>1. log' = log /\ co = "spawn_rx" /\ (co' = "done" => result'.error = "spawn")
      BY <1>3 DEF CoSpawnRx, Return
    <2> QED BY <1>0, <2>1 DEF DoneInv
  <1>4. CASE CoAbort
    <2>1. log' = log /\ co = "abort" /\ result'.error = "spawn"
      BY <1>4 DEF CoAbort, Return
    <2> QED BY <1>0, <2>1 DEF DoneInv
  <1>5. CASE CoObserved
    <2>1. PICK e : log' = Append(log, e) BY <1>5, ObservedFacts
    <2>2. co' = "poll" BY <1>5, ObservedFacts
    <2> QED BY <1>0, <2>1, <2>2, LogPush
  <1>6. CASE \/ CoSpawnTx \/ CoPoll \/ CoRecvDrained \/ CoRecvError \/ CoRecvStopped
             \/ CoRecvActivity \/ CoRecvNothing \/ CoJoin
    <2>1. log' = log /\ co' # "done"
      BY <1>6 DEF CoSpawnTx, CoPoll, CoRecvDrained, CoRecvError, CoRecvStopped,
                  CoRecvActivity, CoRecvNothing, CoJoin, history
    <2> QED BY <1>0, <2>1
  <1>7. CASE TxWorker \/ RxWorker \/ CallerCancel \/ Tick \/ UNCHANGED vars
    <2>1. log' = log /\ co' = co BY <1>7, OthersFrame
    <2> QED BY <1>0, <2>1
  <1>8. CoFinish => co = "final" BY DEF CoFinish
  <1> QED BY <1>1, <1>2, <1>3, <1>4, <1>5, <1>6, <1>7, <1>8 DEF Next, Coordinator, Returned

-----------------------------------------------------------------------------
(* The inductive invariant. *)

\* The two tables of exit codes agree, 0 means no error and only that.
LEMMA CodeFacts ==
  ASSUME NEW c \in Categories \cup {"none"}
  PROVE  /\ ErrorExitCode(c) = ExitCode(c)
         /\ ExitCode(c) \in {0, 2, 3, 4, 5, 6}
         /\ ExitCode(c) = 0 <=> c = "none"
  BY DEF Categories, ErrorExitCode, ExitCode

\* An error of the session has a category, and only an error has one.
LEMMA CategoryFacts ==
  ASSUME NEW error \in Errors \cup {"none"}, NEW c \in CategoriesOf(error)
  PROVE  c \in Categories \cup {"none"} /\ (c = "none" <=> error = "none")
  BY DEF CategoriesOf, Categories, Errors

LEMMA InitCommandIInv == CommandInit => CommandIInv
  <1> SUFFICES ASSUME CommandInit PROVE CommandIInv
    OBVIOUS
  <1>1. IInv /\ log = <<>> /\ co = "start" /\ stopReason = "none"
    BY InitIInv DEF CommandInit, Init
  <1>2. CommandTypeOK
    <2>1. 0 \in 0 .. Len(log) BY <1>1
    <2>2. recorded = NoCode /\ exit = NoCode /\ category = "none" /\ disk = 0
      BY DEF CommandInit
    <2> QED BY <2>1, <2>2 DEF CommandInit, CommandTypeOK
  <1>4. TerminalRestored BY DEF CommandInit, TerminalRestored
  <1>3. PhaseInv /\ FileInv /\ RecordInv /\ EarlyInv
    BY <1>1 DEF CommandInit, PhaseInv, FileInv, RecordInv, EarlyInv, BeforeSession, Finished
  <1> QED BY <1>1, <1>2, <1>3, <1>4 DEF CommandIInv, CommandInv

\* The steps before the session.
LEMMA BeforeStep ==
  ASSUME CommandIInv, IInv',
         Validate \/ InstallCtrlC \/ OpenLog \/ OpenPort \/ EnterRaw
  PROVE  CommandIInv'
  <1>1. /\ cmd \in {"validate", "handler", "log", "open", "raw"}
        /\ UNCHANGED <<vars, logging, disk, recorded, exit, early>>
        /\ \/ /\ category' = category
              /\ cmd' = IF cmd = "validate" THEN "handler" ELSE IF cmd = "handler" THEN "log"
                        ELSE IF cmd = "log" THEN "open" ELSE IF cmd = "open" THEN "raw"
                        ELSE "session"
              /\ raw' = IF cmd = "raw" THEN (Mode = "console") ELSE raw
           \/ /\ category' \in Categories /\ cmd' = "unwind"
              /\ raw' = IF cmd = "raw" THEN FALSE ELSE raw
    BY DEF Validate, InstallCtrlC, OpenLog, OpenPort, EnterRaw, Attempt, Fails, Categories
  <1>2. co = "start" /\ log = <<>> BY <1>1 DEF CommandIInv, PhaseInv, BeforeSession, IInv, LogInv
  <1>3. UNCHANGED <<co, log, failure, stopReason, cancelled, result>>
    BY <1>1 DEF vars, coVars, ioVars, history
  <1>4. CommandInv'
    <2>1. CommandTypeOK' BY <1>1, <1>3, ZenonT(60) DEF CommandIInv, CommandInv, CommandTypeOK
    <2>2. TerminalRestored' BY <1>1 DEF CommandIInv, CommandInv, TerminalRestored
    <2> QED BY <2>1, <2>2 DEF CommandInv
  <1>5. PhaseInv'
    BY <1>1, <1>2, <1>3 DEF CommandIInv, PhaseInv, BeforeSession
  <1>6. FileInv' /\ RecordInv'
    <2>1. ~Told' BY <1>2, <1>3 DEF Told, Final
    <2>2. FileInv' BY <1>1, <1>3 DEF CommandIInv, FileInv
    <2> QED BY <1>1, <2>1, <2>2 DEF RecordInv, Finished, Categories
  <1>7. EarlyInv'
    BY <1>1, <1>2, <1>3 DEF CommandIInv, EarlyInv, Remembers, Finished, Categories
  <1> QED BY <1>4, <1>5, <1>6, <1>7 DEF CommandIInv

\* SIGINT before the session.
LEMMA SignalStep ==
  ASSUME CommandIInv, IInv', Signal \/ SignalKills
  PROVE  CommandIInv'
  <1>1. CASE Signal
    <2>1. /\ cmd \in {"log", "open", "raw"} /\ early' /\ cancelled'
          /\ UNCHANGED <<cmd, logging, disk, recorded, raw, category, exit>>
          /\ UNCHANGED <<co, log, failure, stopReason, result>>
      BY <1>1 DEF Signal, CallerCancel, coVars
    <2>2. co = "start" /\ stopReason = "none"
      BY <2>1 DEF CommandIInv, PhaseInv, BeforeSession
    <2> QED BY <2>1, <2>2
      DEF CommandIInv, CommandInv, CommandTypeOK, TerminalRestored, PhaseInv, BeforeSession,
          FileInv, RecordInv, Finished, Told, Final, EarlyInv, Remembers
  <1>2. CASE SignalKills
    <2>1. /\ cmd \in {"validate", "handler"} /\ cmd' = "gone" /\ exit' = Killed
          /\ UNCHANGED <<logging, disk, recorded, raw, category, early>>
          /\ UNCHANGED <<co, log, failure, stopReason, cancelled, result>>
      BY <1>2 DEF SignalKills, vars, coVars, ioVars, history
    <2>2. log = <<>> /\ ~early
      BY <2>1 DEF CommandIInv, PhaseInv, BeforeSession, IInv, LogInv, EarlyInv, CommandInv,
                  CommandTypeOK
    <2> QED BY <2>1, <2>2
      DEF CommandIInv, CommandInv, CommandTypeOK, TerminalRestored, PhaseInv, BeforeSession,
          FileInv, RecordInv, Finished, Told, Final, EarlyInv
  <1> QED BY <1>1, <1>2

\* The steps of the session, with what the observer writes.
LEMMA SessionStep ==
  ASSUME CommandIInv, IInv', RunSession
  PROVE  CommandIInv'
  <1>1. /\ cmd = "session" /\ co # "done" /\ Observed /\ [Next]_vars
        /\ UNCHANGED <<logging, raw, exit, early>>
    BY DEF RunSession, Next
  <1>2. Len(log') >= Len(log) /\ Len(log) \in Nat /\ Len(log') \in Nat
    BY <1>1, EndStep DEF CommandIInv, IInv, TypeOK
  <1>3. /\ disk' \in 0 .. Len(log')
        /\ FileInv'
    BY <1>1, <1>2 DEF Observed, CommandIInv, CommandInv, CommandTypeOK, FileInv
  <1>4. EarlyInv => (early' => Remembers')
    BY <1>1, RememberStep DEF CommandIInv, IInv, EarlyInv
  <1>5. CASE co' # "done"
    <2>1. UNCHANGED <<recorded, category, cmd>> BY <1>5 DEF RunSession
    <2> QED BY <1>1, <1>3, <1>4, <1>5, <2>1
      DEF CommandIInv, CommandInv, CommandTypeOK, TerminalRestored, PhaseInv, BeforeSession,
          RecordInv, Finished, EarlyInv
  <1>6. CASE co' = "done"
    <2>1. Concludes /\ cmd' = "unwind" BY <1>6 DEF RunSession
    <2>2. PICK told \in CategoriesOf(failure) :
             /\ recorded' = IF Len(log') > 0 /\ log'[Len(log')].phase = "final"
                            THEN ErrorExitCode(told) ELSE NoCode
             /\ \/ result'.error = failure /\ category' = told
                \/ result'.error # failure /\ category' \in CategoriesOf(result'.error)
      BY <2>1 DEF Concludes
    <2>3. failure \in Errors \cup {"none"} /\ result'.error \in Errors \cup {"none"}
      BY DEF CommandIInv, IInv, TypeOK, Results
    <2>4. told \in Categories \cup {"none"} BY <2>2, <2>3, CategoryFacts
    <2>5. /\ category' \in Categories \cup {"none"}
          /\ category' = "none" <=> result'.error = "none"
      BY <2>2, <2>3, CategoryFacts
    <2>6. \/ ~Told' /\ result'.error # "none"
          \/ Told' /\ result'.error = failure
      BY <1>1, <1>6, EndStep DEF CommandIInv, IInv
    <2>7. RecordInv'
      BY <2>2, <2>5, <2>6 DEF RecordInv, Told, Final
    <2>8. CommandInv'
      <3>1. recorded' \in {NoCode, 0, 2, 3, 4, 5, 6} BY <2>2, <2>4, CodeFacts
      <3> QED BY <1>1, <1>3, <2>1, <2>5, <3>1
        DEF CommandIInv, CommandInv, CommandTypeOK, TerminalRestored
    <2>9. PhaseInv' BY <1>1, <2>1 DEF CommandIInv, PhaseInv, BeforeSession
    <2>10. EarlyInv'
      BY <1>1, <1>4, <1>6, <2>1, <2>5 DEF CommandIInv, EarlyInv, Remembers
    <2> QED BY <1>3, <2>7, <2>8, <2>9, <2>10 DEF CommandIInv
  <1> QED BY <1>5, <1>6

\* The steps after the session.
LEMMA AfterStep ==
  ASSUME CommandIInv, IInv', DropTerminal \/ DropObserver \/ Main
  PROVE  CommandIInv'
  <1>1. /\ UNCHANGED <<logging, recorded, category, early>>
        /\ UNCHANGED <<co, log, failure, stopReason, cancelled, result>>
    BY DEF DropTerminal, DropObserver, Main, vars, coVars, ioVars, history
  <1>2. \/ cmd = "unwind" /\ cmd' = "drop" /\ raw' = FALSE /\ UNCHANGED <<disk, exit>>
        \/ /\ cmd = "drop" /\ cmd' = "main" /\ UNCHANGED <<raw, exit>>
           /\ disk' = disk \/ disk' = (IF logging THEN Len(log) ELSE 0)
        \/ /\ cmd = "main" /\ cmd' = "gone" /\ exit' = ExitCode(category)
           /\ UNCHANGED <<disk, raw>>
    BY DEF DropTerminal, DropObserver, Main
  <1>3. Len(log) \in Nat BY DEF CommandIInv, IInv, TypeOK
  <1>4. ExitCode(category) \in {0, 2, 3, 4, 5, 6}
    BY CodeFacts DEF CommandIInv, CommandInv, CommandTypeOK
  <1>5. CommandInv'
    <2>1. CommandTypeOK'
      <3>1. /\ disk' \in {disk, Len(log), 0}
            /\ exit' \in {exit, ExitCode(category)} /\ raw' \in {raw, FALSE}
            /\ cmd' \in {"drop", "main", "gone"}
        BY <1>2
      <3>2. disk' \in 0 .. Len(log')
        BY <1>1, <1>3, <3>1 DEF CommandIInv, CommandInv, CommandTypeOK
      <3>3. exit' \in {NoCode, 0, 2, 3, 4, 5, 6, Killed}
        BY <1>4, <3>1 DEF CommandIInv, CommandInv, CommandTypeOK
      <3>4. CommandTypeOK BY DEF CommandIInv, CommandInv
      <3>5. raw' \in BOOLEAN BY <3>1, <3>4 DEF CommandTypeOK
      <3> QED BY <1>1, <3>1, <3>2, <3>3, <3>4, <3>5 DEF CommandTypeOK
    <2>2. TerminalRestored' BY <1>2 DEF CommandIInv, CommandInv, TerminalRestored
    <2> QED BY <2>1, <2>2 DEF CommandInv
  <1>6. PhaseInv' BY <1>1, <1>2 DEF CommandIInv, PhaseInv, BeforeSession
  <1>7. FileInv' BY <1>1, <1>2 DEF CommandIInv, FileInv
  <1>8. RecordInv'
    <2>1. exit = NoCode BY <1>2 DEF CommandIInv, PhaseInv
    <2> QED BY <1>1, <1>2, <2>1
      DEF CommandIInv, RecordInv, Finished, Told, Final, NoCode, Killed
  <1>9. EarlyInv' BY <1>1, <1>2 DEF CommandIInv, EarlyInv, Remembers, Finished
  <1> QED BY <1>5, <1>6, <1>7, <1>8, <1>9 DEF CommandIInv

\* CommandIInv is inductive.
LEMMA NextCommandIInv ==
  ASSUME CommandIInv, [CommandNext]_<<vars, commandVars>>
  PROVE  CommandIInv'
  <1>1. IInv' BY CommandStep, NextIInv DEF CommandIInv
  <1>2. CASE UNCHANGED <<vars, commandVars>>
    <2>1. /\ UNCHANGED commandVars
          /\ UNCHANGED <<co, log, failure, stopReason, cancelled, result>>
      BY <1>2 DEF vars, coVars, ioVars, history
    <2> QED BY <1>1, <2>1
      DEF CommandIInv, CommandInv, CommandTypeOK, TerminalRestored, PhaseInv, BeforeSession,
          FileInv, RecordInv, Finished, Told, Final, EarlyInv, Remembers, commandVars
  <1> QED
    BY <1>1, <1>2, BeforeStep, SignalStep, SessionStep, AfterStep DEF CommandNext, Exited

-----------------------------------------------------------------------------

(* The session of a command is a session: what is proved of Session holds
   within a command, whose session may be cancelled before it begins. *)
THEOREM CommandRunsSession == CommandSpec => Spec
  <1>1. CommandInit => Init BY DEF CommandInit
  <1>2. [CommandNext]_<<vars, commandVars>> => [Next]_vars BY CommandStep
  <1> QED BY <1>1, <1>2, PTL DEF CommandSpec, Spec

LEMMA CommandInvariance == CommandSpec => []CommandIInv
  <1>1. CommandInit => CommandIInv BY InitCommandIInv
  <1>2. CommandIInv /\ [CommandNext]_<<vars, commandVars>> => CommandIInv'
    BY NextCommandIInv
  <1> QED BY <1>1, <1>2, PTL DEF CommandSpec

(* The variables of the process keep their types, and the terminal is raw for
   the session of a console alone, whatever fails. *)
THEOREM TerminalIsRestored == CommandSpec => []CommandInv
  <1>1. CommandIInv => CommandInv BY DEF CommandIInv
  <1> QED BY <1>1, CommandInvariance, PTL

(* The Final record of the event log and the exit status of the process agree,
   and only a process with a whole log exits with 0. *)
THEOREM ExitAgreesWithLog == CommandSpec => []ExitMatchesLog
  <1>1. CommandIInv => ExitMatchesLog
    <2> SUFFICES ASSUME CommandIInv, cmd = "gone", logging
                 PROVE  /\ Final /\ log[Len(log)].ok => disk = Len(log) /\ recorded = exit
                        /\ exit = 0 => Final /\ disk = Len(log) /\ recorded = 0
      BY DEF ExitMatchesLog
    <2>1. category \in Categories \cup {"none"}
      BY DEF CommandIInv, CommandInv, CommandTypeOK
    <2>2. Told => disk = Len(log) BY DEF CommandIInv, FileInv, Told, Final
    <2>3. Told => recorded = ErrorExitCode(category) BY DEF CommandIInv, RecordInv, Finished
    <2>4. exit = ExitCode(category) \/ (exit = Killed /\ log = <<>>)
      BY DEF CommandIInv, PhaseInv
    <2>5. CASE exit = ExitCode(category)
      <3>1. exit = 0 => category = "none" /\ exit # Killed
        <4>1. ExitCode(category) = 0 => category = "none" BY <2>1, CodeFacts
        <4> QED BY <2>5, <4>1 DEF Killed
      <3>2. exit = 0 => Told BY <3>1 DEF CommandIInv, RecordInv, Finished
      <3> QED BY <2>1, <2>2, <2>3, <2>5, <3>2, CodeFacts DEF Told
    <2>6. CASE exit = Killed /\ log = <<>> BY <2>6 DEF Final, Killed
    <2> QED BY <2>4, <2>5, <2>6
  <1> QED BY <1>1, CommandInvariance, PTL

(* SIGINT between the installation of the handler and the session ends the
   process with an error of its own making, never with success. *)
THEOREM EarlySignalCounts == CommandSpec => []SignalIsRemembered
  <1>1. CommandIInv => SignalIsRemembered
    <2> SUFFICES ASSUME CommandIInv, cmd = "gone", early PROVE exit \notin {0, Killed}
      BY DEF SignalIsRemembered
    <2>1. category \in Categories /\ category # "none"
      BY DEF CommandIInv, CommandInv, CommandTypeOK, EarlyInv, Finished
    <2>2. exit = ExitCode(category) BY DEF CommandIInv, PhaseInv
    <2> QED BY <2>1, <2>2, CodeFacts DEF Killed
  <1> QED BY <1>1, CommandInvariance, PTL

=============================================================================
