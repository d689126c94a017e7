----------------------------- MODULE Management -----------------------------
(***************************************************************************)
(* The management pipe of a Glasgow: Management::command of                *)
(* src/uart/glasgow/management.rs.  A command is written with a serial     *)
(* number and one answer is read with a timeout; an answer that comes too  *)
(* late stays in the pipe and is read by the next command.                 *)
(*                                                                         *)
(* The device works through the commands in order.  What it does with one  *)
(* and what the caller makes of the answer belongs to Glasgow.             *)
(***************************************************************************)
EXTENDS Integers, Sequences

CONSTANTS
    Period,          \* how many serial numbers there are: u8::MAX
    Ops, Results     \* the commands and the answers, of Glasgow

ASSUME PeriodAssumption == Period \in Nat \ {0}

VARIABLES
    serial,          \* Management.serial, of the next command
    call,            \* the command whose answer is awaited, or NoCommand
    wire,            \* commands the device has been sent and not yet answered
    answers,         \* answers in the pipe
    \* history
    number,          \* commands tried
    failures,        \* commands that ended without taking an answer
    accepted         \* the last answer accepted: for which command, and whose

pipeVars == <<serial, call, wire, answers, number, failures, accepted>>

NoCommand == [number |-> 0, serial |-> 0, op |-> "none"]
Commands  == [number : Nat, serial : Nat, op : Ops]
Answers   == [number : Nat, serial : Nat, result : Results]

PipeInit ==
    /\ serial = 1 /\ call = NoCommand
    /\ wire = <<>> /\ answers = <<>>
    /\ number = 0 /\ failures = 0 /\ accepted = [own |-> 0, got |-> 0]

NextSerial(s) == IF s = Period THEN 1 ELSE s + 1

Command(op) == [number |-> number + 1, serial |-> serial, op |-> op]

\* write_all and flush succeed.
Write(op) ==
    /\ call = NoCommand /\ call' = Command(op)
    /\ wire' = Append(wire, Command(op))
    /\ number' = number + 1 /\ serial' = NextSerial(serial)
    /\ UNCHANGED <<answers, failures, accepted>>

\* They fail: the device may have got the command or not.
WriteFails(op) ==
    /\ call = NoCommand
    /\ wire' \in {wire, Append(wire, Command(op))}
    /\ number' = number + 1 /\ serial' = NextSerial(serial)
    /\ failures' = failures + 1
    /\ UNCHANGED <<call, answers, accepted>>

\* The device answers its oldest command.
Answer(result) ==
    /\ wire # <<>> /\ wire' = Tail(wire)
    /\ answers' = Append(answers, [number |-> Head(wire).number,
                                   serial |-> Head(wire).serial, result |-> result])
    /\ UNCHANGED <<serial, call, number, failures, accepted>>

\* Mutant: the serial of the answer is not looked at.
MatchesAny == TRUE

\* The next answer in the pipe carries the serial of the command.
Matches == Head(answers).serial = call.serial

\* An answer is read; one with another serial is an error and is gone.
Receive ==
    /\ call # NoCommand /\ answers # <<>>
    /\ call' = NoCommand /\ answers' = Tail(answers)
    /\ accepted' = IF Matches THEN [own |-> call.number, got |-> Head(answers).number]
                              ELSE accepted
    /\ UNCHANGED <<serial, wire, number, failures>>

\* No answer arrives within COMMAND_TIMEOUT.
Timeout ==
    /\ call # NoCommand /\ answers = <<>>
    /\ call' = NoCommand /\ failures' = failures + 1
    /\ UNCHANGED <<serial, wire, answers, number, accepted>>

PipeNext == \/ \E op \in Ops : Write(op) \/ WriteFails(op)
            \/ \E result \in Results : Answer(result)
            \/ Receive \/ Timeout

PipeSpec == PipeInit /\ [][PipeNext]_pipeVars

-----------------------------------------------------------------------------
(* Properties. *)

PipeTypeOK ==
    /\ serial \in 1 .. Period
    /\ call \in Commands \cup {NoCommand}
    /\ wire \in Seq(Commands) /\ answers \in Seq(Answers)
    /\ number \in Nat /\ failures \in Nat
    /\ accepted \in [own : Nat, got : Nat]

(* However many answers came late, the answer a command accepts is its own, as
   long as fewer commands than there are serial numbers have ended without an
   answer. *)
AcceptedIsOwn == failures < Period => accepted.own = accepted.got

=============================================================================
