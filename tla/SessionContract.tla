-------------------------- MODULE SessionContract --------------------------
(***************************************************************************)
(* What run_session_observed promises its caller and its observer, without *)
(* the threads: which events are observed, in which order and with which   *)
(* counters, and how the value returned follows from them.                 *)
(***************************************************************************)
EXTENDS Integers, Sequences

VARIABLES
    log,      \* the calls made to the observer, each [phase, stats, reason, error, ok]
    result,   \* the value returned, [reason, error, stats]
    closed    \* the call has returned

vars == <<log, result, closed>>

Zero == [accepted |-> 0, completed |-> 0, received |-> 0]

Init == /\ log = <<>> /\ closed = FALSE
        /\ result = [reason |-> "none", error |-> "none", stats |-> Zero]

\* The observer is called once more, never after a call that failed; the
\* counters of successive calls never go back.
Observes(phase) ==
    /\ Len(log') = Len(log) + 1
    /\ \A i \in 1 .. Len(log) : log'[i] = log[i] /\ log[i].ok
    /\ log'[Len(log')].phase = phase
    /\ \A i \in 1 .. Len(log) : \A c \in {"accepted", "completed", "received"} :
          log[i].stats[c] <= log'[Len(log')].stats[c]

Latest == log'[Len(log')]

Returns(reason, error) ==
    /\ closed' = TRUE
    /\ result'.reason = reason /\ result'.error = error

\* Running is the first event, before any byte moves.
Start ==
    /\ log = <<>> /\ Observes("running") /\ Latest.stats = Zero
    /\ IF Latest.ok THEN UNCHANGED <<result, closed>> ELSE Returns("none", "observer")

\* Draining comes at most once, with every accepted byte completed unless the
\* session was cancelled.
Drain ==
    /\ Len(log) = 1 /\ Observes("draining")
    /\ \/ Latest.reason = "cancelled"
       \/ Latest.stats.completed = Latest.stats.accepted
    /\ UNCHANGED <<result, closed>>

\* Final is the last event and decides the value returned.
Finish ==
    /\ Len(log) \in {1, 2} /\ Observes("final")
    /\ IF ~Latest.ok THEN Returns("none", "observer")
       ELSE IF Latest.error # "none" THEN Returns("none", Latest.error)
       ELSE Returns(Latest.reason, "none") /\ result'.stats = Latest.stats

\* Without a Final event the call fails: with the observer's own error, or
\* because a worker thread could not be started.
Abandon ==
    /\ UNCHANGED log
    /\ \/ Len(log) = 1 /\ log[1].ok /\ Returns("none", "spawn")
       \/ Len(log) = 2 /\ ~log[2].ok /\ Returns("none", "observer")

Next == ~closed /\ (Start \/ Drain \/ Finish \/ Abandon)

Spec == Init /\ [][Next]_vars

=============================================================================
