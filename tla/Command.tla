------------------------------ MODULE Command -------------------------------
(***************************************************************************)
(* A console or stream command of c232uart and guart: main, run and the    *)
(* helpers of src/bin/common around one session.  The process installs its *)
(* signal handler, creates the event log, opens the port, puts the         *)
(* terminal into raw mode, runs the session of Session with the log as its *)
(* observer, and unwinds.  SIGINT comes at any time; opening the port and  *)
(* writing to files may fail.                                              *)
(***************************************************************************)
EXTENDS SessionInvariant

VARIABLES
    cmd,         \* the step of the process
    logging,     \* --event-log was given
    disk,        \* how many of the calls in log have their line in the file
    recorded,    \* exit_code of the Final record, or NoCode
    raw,         \* the terminal is in raw mode
    category,    \* the category of the error that run returns, or "none"
    exit,        \* the status of the process, or NoCode while it runs
    early        \* history: SIGINT came between the handler and the session

commandVars == <<cmd, logging, disk, recorded, raw, category, exit, early>>

NoCode == -1
Killed == 130   \* a shell's status for SIGINT

Categories == {"selection", "access", "protocol", "timeout", "validation"}

\* What the Error of a session may be: what the transport and its drain
\* return keeps its category.
CategoriesOf(error) ==
    CASE error \in {"cancelled", "join_timeout"} -> {"timeout"}
      [] error \in {"panic", "spawn"}            -> {"protocol"}
      [] error = "observer"                      -> {"access"}
      [] error = "rx_error"                      -> {"access", "protocol"}
      [] error = "tx_error"                      -> {"access", "protocol", "timeout"}
      [] OTHER                                   -> {"none"}

\* Mutant: the log counts a cancellation as a protocol error.
ErrorExitCodeOld(c) ==
    [none |-> 0, selection |-> 2, access |-> 3, protocol |-> 4, timeout |-> 4,
     validation |-> 6][c]

\* error_exit_code of the telemetry ...
ErrorExitCode(c) ==
    [none |-> 0, selection |-> 2, access |-> 3, protocol |-> 4, timeout |-> 5,
     validation |-> 6][c]

\* ... and exit_code of the commands.
ExitCode(c) ==
    CASE c = "none" -> 0 [] c = "selection" -> 2 [] c = "access" -> 3
      [] c = "protocol" -> 4 [] c = "timeout" -> 5 [] c = "validation" -> 6

CommandInit ==
    /\ Init
    /\ cmd = "validate" /\ logging \in BOOLEAN
    /\ disk = 0 /\ recorded = NoCode /\ raw = FALSE
    /\ category = "none" /\ exit = NoCode /\ early = FALSE

-----------------------------------------------------------------------------
(* Before the session. *)

\* run returns an error, dropping what it holds.
Fails(c) == cmd' = "unwind" /\ category' = c

\* A step ends well or with an error of one of these categories.
Attempt(next, categories) ==
    /\ \/ cmd' = next /\ UNCHANGED category
       \/ \E c \in categories : Fails(c)
    /\ UNCHANGED <<vars, logging, disk, recorded, exit, early>>

Validate == cmd = "validate" /\ Attempt("handler", {"selection"}) /\ UNCHANGED raw

InstallCtrlC == cmd = "handler" /\ Attempt("log", {"protocol"}) /\ UNCHANGED raw

\* CliObserver::open creates the log, or empties an old one.
OpenLog == /\ cmd = "log" /\ Attempt("open", IF logging THEN {"access"} ELSE {})
           /\ UNCHANGED raw

OpenPort == cmd = "open" /\ Attempt("raw", Categories) /\ UNCHANGED raw

EnterRaw ==
    /\ cmd = "raw" /\ Attempt("session", IF Mode = "console" THEN {"access"} ELSE {})
    /\ raw' = (Mode = "console" /\ cmd' = "session")

\* Mutant: the session is given a token of its own.
SignalLost ==
    /\ cmd \in {"log", "open", "raw"} /\ "cancel" \in Faults /\ early' = TRUE
    /\ UNCHANGED <<vars, cmd, logging, disk, recorded, raw, category, exit>>

\* SIGINT: the handler's clone of the token, or the end of the process.
Signal ==
    /\ cmd \in {"log", "open", "raw"} /\ CallerCancel /\ early' = TRUE
    /\ UNCHANGED <<cmd, logging, disk, recorded, raw, category, exit>>

SignalKills ==
    /\ cmd \in {"validate", "handler"} /\ "cancel" \in Faults
    /\ cmd' = "gone" /\ exit' = Killed
    /\ UNCHANGED <<vars, logging, disk, recorded, raw, category, early>>

-----------------------------------------------------------------------------
(* The session, with the log as its observer. *)

\* NdjsonObserver writes one line a call and flushes it; a line that fails
\* stays in the BufWriter.  NoopObserver never fails.
Observed ==
    IF log' = log THEN UNCHANGED disk
    ELSE LET ok == log'[Len(log')].ok
         IN  /\ ok \/ logging
             /\ disk' = IF ok /\ logging THEN Len(log') ELSE disk

\* The last step of the session fixes the Error that Final is told and the
\* one that is returned, which differ when the call for Final fails.
Concludes ==
    \E told \in CategoriesOf(failure) :
        /\ recorded' = IF Len(log') > 0 /\ log'[Len(log')].phase = "final"
                       THEN ErrorExitCode(told) ELSE NoCode
        /\ \/ result'.error = failure /\ category' = told
           \/ result'.error # failure /\ category' \in CategoriesOf(result'.error)

RunSession ==
    /\ cmd = "session" /\ co # "done"
    /\ Coordinator \/ TxWorker \/ RxWorker \/ CallerCancel \/ Tick
    /\ Observed
    /\ IF co' = "done" THEN Concludes /\ cmd' = "unwind"
                       ELSE UNCHANGED <<recorded, category, cmd>>
    /\ UNCHANGED <<logging, raw, exit, early>>

-----------------------------------------------------------------------------
(* After it: the locals of run are dropped in reverse order, and main exits. *)

\* Mutant: an error leaves without unwinding.
DropTerminalOnSuccess ==
    /\ cmd = "unwind" /\ cmd' = "drop" /\ raw' = (raw /\ category # "none")
    /\ UNCHANGED <<vars, logging, disk, recorded, category, exit, early>>

\* RawTerminalGuard::drop
DropTerminal ==
    /\ cmd = "unwind" /\ cmd' = "drop" /\ raw' = FALSE
    /\ UNCHANGED <<vars, logging, disk, recorded, category, exit, early>>

\* The BufWriter tries once more to write what it holds, and tells nobody.
DropObserver ==
    /\ cmd = "drop" /\ cmd' = "main"
    /\ disk' \in {disk, IF logging THEN Len(log) ELSE 0}
    /\ UNCHANGED <<vars, logging, recorded, raw, category, exit, early>>

Main ==
    /\ cmd = "main" /\ cmd' = "gone" /\ exit' = ExitCode(category)
    /\ UNCHANGED <<vars, logging, disk, recorded, raw, category, early>>

Exited == cmd = "gone" /\ UNCHANGED <<vars, commandVars>>

CommandNext ==
    \/ Validate \/ InstallCtrlC \/ OpenLog \/ OpenPort \/ EnterRaw
    \/ Signal \/ SignalKills \/ RunSession
    \/ DropTerminal \/ DropObserver \/ Main \/ Exited

CommandSpec == CommandInit /\ [][CommandNext]_<<vars, commandVars>>

-----------------------------------------------------------------------------
CommandTypeOK ==
    /\ cmd \in {"validate", "handler", "log", "open", "raw", "session", "unwind", "drop",
                "main", "gone"}
    /\ logging \in BOOLEAN /\ raw \in BOOLEAN /\ early \in BOOLEAN
    /\ disk \in 0 .. Len(log) /\ category \in Categories \cup {"none"}
    /\ recorded \in {NoCode, 0, 2, 3, 4, 5, 6}
    /\ exit \in {NoCode, 0, 2, 3, 4, 5, 6, Killed}

(* The terminal is raw for the session of a console alone, and cooked again
   when main prints the error and when the process ends, whatever failed. *)
TerminalRestored ==
    /\ cmd = "session" => raw = (Mode = "console")
    /\ cmd \notin {"session", "unwind"} => ~raw

CommandInv == CommandTypeOK /\ TerminalRestored

Final == Len(log) > 0 /\ log[Len(log)].phase = "final"

(* The event log and the exit status agree: a Final record that was written
   without an error holds the status of the process, through both tables of
   codes, and a process that exits with 0 has left a log that is whole and
   ends in a Final record that says so. *)
ExitMatchesLog ==
    cmd = "gone" /\ logging =>
        /\ Final /\ log[Len(log)].ok => disk = Len(log) /\ recorded = exit
        /\ exit = 0 => Final /\ disk = Len(log) /\ recorded = 0

(* SIGINT during the preparations is not lost: the session that starts later
   sees it and the process does not exit with success, though the flag is set
   before anyone looks at it and the workers may be the first who do. *)
SignalIsRemembered == cmd = "gone" /\ early => exit \notin {0, Killed}

=============================================================================
