--------------------------- MODULE GlasgowProofs ---------------------------
(***************************************************************************)
(* Proofs about the management pipe for every number of serials, and that  *)
(* the steps of Glasgow use the pipe as Management says; then about the    *)
(* session and its device, from the list of devices to Drop.               *)
(*                                                                         *)
(* The serial of a command says which one it is only modulo Period.  The   *)
(* invariant bounds how far the pipe can lag behind: a command that is in  *)
(* the pipe is older than the newest by at most the number of commands     *)
(* that ended without taking an answer.                                    *)
(*                                                                         *)
(* A session's invariant says who holds the pipe and for what, that an     *)
(* answer in it is true of the device until it is read, and how far open,  *)
(* its guard and drain have come.                                          *)
(***************************************************************************)
EXTENDS Glasgow, TLAPS

\* Of n commands tried, and s the next serial: the serial of c, counted up from
\* c to the next command, is s.
Law(c, n, s) == /\ c.number \in 1 .. n /\ c.serial \in 1 .. Period
                /\ n - c.number < Period
                      => c.serial + (n + 1 - c.number) \in {s, s + Period}

\* c is behind by no more than f; by less when no answer is awaited.
Lag(c, n, f, idle) == n - c.number + (IF idle THEN 1 ELSE 0) <= f

Tracked(q) == \A i \in 1 .. Len(q) :
                 Law(q[i], number, serial) /\ Lag(q[i], number, failures, call = NoCommand)

Increasing(q) == \A i, j \in 1 .. Len(q) : i < j => q[i].number < q[j].number

\* The pipe is in the order of the commands.
Ordered ==
    /\ Increasing(answers) /\ Increasing(wire)
    /\ \A i \in 1 .. Len(answers), j \in 1 .. Len(wire) : answers[i].number < wire[j].number

Awaited == call # NoCommand => call.number = number /\ Law(call, number, serial)

\* The inductive invariant of the pipe.
PipeInv == PipeTypeOK /\ Tracked(answers) /\ Tracked(wire) /\ Ordered /\ Awaited /\ AcceptedIsOwn

-----------------------------------------------------------------------------
(* Sequences and serials. *)

(* What a pipe holds after a command or an answer is put in. *)
LEMMA AppendFacts ==
    ASSUME NEW S, NEW s \in Seq(S), NEW e \in S
    PROVE  /\ Append(s, e) \in Seq(S) /\ Len(Append(s, e)) = Len(s) + 1 /\ Len(s) \in Nat
           /\ \A i \in 1 .. Len(s) : Append(s, e)[i] = s[i]
           /\ Append(s, e)[Len(s) + 1] = e
OBVIOUS

(* And after the oldest is taken out. *)
LEMMA TailFacts ==
    ASSUME NEW S, NEW s \in Seq(S), s # <<>>
    PROVE  /\ Tail(s) \in Seq(S) /\ Len(Tail(s)) = Len(s) - 1 /\ Len(s) \in Nat \ {0}
           /\ Head(s) = s[1] /\ s[1] \in S
           /\ \A i \in 1 .. Len(s) - 1 : i + 1 \in 1 .. Len(s) /\ Tail(s)[i] = s[i + 1]
OBVIOUS

(* Two places in a sequence that has grown by one. *)
LEMMA IndexSplit ==
    ASSUME NEW n \in Nat, NEW m, m = n + 1, NEW i \in 1 .. m, NEW j \in 1 .. m, i < j
    PROVE  i \in 1 .. n /\ (j \in 1 .. n \/ j = n + 1)
OBVIOUS

(* The serial stays within its range. *)
LEMMA NextSerialType ==
    ASSUME NEW s \in 1 .. Period PROVE NextSerial(s) \in 1 .. Period
BY PeriodAssumption DEF NextSerial

(* Counting on keeps the law of a command that is already in the pipe. *)
LEMMA LawNext ==
    ASSUME NEW n \in Nat, NEW s \in 1 .. Period, NEW c, c.number \in Nat, Law(c, n, s)
    PROVE  Law(c, n + 1, NextSerial(s))
BY PeriodAssumption DEF Law, NextSerial

(* The command just numbered obeys it. *)
LEMMA LawNew ==
    ASSUME NEW n \in Nat, NEW s \in 1 .. Period, NEW c, c.number = n + 1, c.serial = s
    PROVE  Law(c, n + 1, NextSerial(s))
BY PeriodAssumption DEF Law, NextSerial

(* Fewer than Period behind, a serial tells one command from another. *)
LEMMA SerialTells ==
    ASSUME NEW n \in Nat, NEW s \in 1 .. Period, NEW c, NEW d, NEW f \in Nat,
           Law(c, n, s), Law(d, n, s), d.number = n,
           n - c.number <= f, f < Period, c.serial = d.serial
    PROVE  c.number = n
<1>1. c.number \in 1 .. n /\ c.serial \in 1 .. Period /\ n - c.number < Period
  BY PeriodAssumption DEF Law
<1>2. c.serial + (n + 1 - c.number) \in {s, s + Period}
  BY <1>1 DEF Law
<1>3. c.serial + 1 \in {s, s + Period}
  BY PeriodAssumption DEF Law
<1>. QED
  BY <1>1, <1>2, <1>3, PeriodAssumption

-----------------------------------------------------------------------------
(* The pipe's invariant. *)

(* A command is well typed and can be told from no command. *)
LEMMA CommandFacts ==
    ASSUME PipeTypeOK, NEW op \in Ops
    PROVE  /\ Command(op) \in Commands /\ Command(op) # NoCommand
           /\ Command(op).number = number + 1 /\ Command(op).serial = serial
           /\ number + 1 \in Nat /\ NextSerial(serial) \in 1 .. Period
<1>1. number \in Nat /\ serial \in 1 .. Period
  BY DEF PipeTypeOK
<1>2. serial \in Nat /\ NextSerial(serial) \in 1 .. Period
  BY <1>1, NextSerialType
<1>. QED
  BY <1>1, <1>2 DEF Command, Commands, NoCommand

(* The types and the bounds of what the pipe holds. *)
LEMMA PipeFacts ==
    ASSUME PipeInv
    PROVE  /\ number \in Nat /\ serial \in 1 .. Period /\ failures \in Nat
           /\ wire \in Seq(Commands) /\ answers \in Seq(Answers)
           /\ Len(wire) \in Nat /\ Len(answers) \in Nat
           /\ \A i \in 1 .. Len(wire) : wire[i].number \in Nat
           /\ \A i \in 1 .. Len(answers) : answers[i].number \in Nat
<1>1. wire \in Seq(Commands) /\ answers \in Seq(Answers)
  BY DEF PipeInv, PipeTypeOK
<1>2. \A i \in 1 .. Len(wire) : wire[i] \in Commands
  BY <1>1
<1>3. \A i \in 1 .. Len(answers) : answers[i] \in Answers
  BY <1>1
<1>. QED
  BY <1>1, <1>2, <1>3 DEF PipeInv, PipeTypeOK, Commands, Answers

(* Initially the pipe is empty. *)
LEMMA PipeInitInv == PipeInit => PipeInv
<1>1. SUFFICES ASSUME PipeInit PROVE PipeInv
  OBVIOUS
<1>2. PipeTypeOK
  BY <1>1, PeriodAssumption DEF PipeInit, PipeTypeOK
<1>. QED
  BY <1>1, <1>2 DEF PipeInit, PipeInv, Tracked, Ordered, Increasing, Awaited, AcceptedIsOwn

(* One more command is counted: everything in the pipe is one further behind. *)
LEMMA CountedOn ==
    ASSUME PipeInv, call = NoCommand
    PROVE  /\ \A i \in 1 .. Len(wire) :
                 /\ Law(wire[i], number + 1, NextSerial(serial))
                 /\ number + 1 - wire[i].number <= failures
                 /\ wire[i].number < number + 1
           /\ \A i \in 1 .. Len(answers) :
                 /\ Law(answers[i], number + 1, NextSerial(serial))
                 /\ number + 1 - answers[i].number <= failures
                 /\ answers[i].number < number + 1
<1>1. /\ \A i \in 1 .. Len(wire) : Law(wire[i], number, serial)
                                   /\ Lag(wire[i], number, failures, TRUE)
      /\ \A i \in 1 .. Len(answers) : Law(answers[i], number, serial)
                                      /\ Lag(answers[i], number, failures, TRUE)
  BY DEF PipeInv, Tracked
<1>2. /\ \A i \in 1 .. Len(wire) : Law(wire[i], number + 1, NextSerial(serial))
      /\ \A i \in 1 .. Len(answers) : Law(answers[i], number + 1, NextSerial(serial))
  BY <1>1, PipeFacts, LawNext
<1>. QED
  BY <1>1, <1>2, PipeFacts, SMTT(30) DEF Lag, Law

(* Write keeps the invariant. *)
LEMMA WriteInv == ASSUME PipeInv, NEW op \in Ops, Write(op) PROVE PipeInv'
<1>. DEFINE new == Command(op)
<1>1. /\ call = NoCommand /\ call' = new /\ wire' = Append(wire, new)
      /\ number' = number + 1 /\ serial' = NextSerial(serial)
      /\ answers' = answers /\ failures' = failures /\ accepted' = accepted
  BY DEF Write
<1>2. /\ new \in Commands /\ new # NoCommand /\ new.number = number + 1 /\ new.serial = serial
      /\ number + 1 \in Nat /\ NextSerial(serial) \in 1 .. Period
  BY CommandFacts DEF PipeInv
<1>3. Law(new, number + 1, NextSerial(serial))
  BY <1>2, LawNew, PipeFacts
<1>. HIDE DEF new
<1>4. /\ wire' \in Seq(Commands) /\ Len(wire') = Len(wire) + 1
      /\ \A i \in 1 .. Len(wire) : wire'[i] = wire[i]
      /\ wire'[Len(wire) + 1] = new
  BY <1>1, <1>2, PipeFacts, AppendFacts
<1>5. PipeTypeOK'
  BY <1>1, <1>2, <1>4 DEF PipeInv, PipeTypeOK
<1>6. Tracked(answers)'
  BY <1>1, <1>2, CountedOn, PipeFacts DEF Tracked, Lag
<1>7. Tracked(wire)'
  <2>. SUFFICES ASSUME NEW i \in 1 .. Len(wire')
                PROVE  Law(wire'[i], number', serial') /\ Lag(wire'[i], number', failures', FALSE)
    BY <1>1, <1>2 DEF Tracked
  <2>1. CASE i \in 1 .. Len(wire)
    BY <2>1, <1>1, <1>4, CountedOn, PipeFacts DEF Lag
  <2>2. CASE i = Len(wire) + 1
    BY <2>2, <1>1, <1>2, <1>3, <1>4, PipeFacts DEF Lag
  <2>3. i \in 1 .. Len(wire) \/ i = Len(wire) + 1
    BY <1>4, PipeFacts
  <2>. QED
    BY <2>1, <2>2, <2>3
<1>8. Ordered'
  <2>1. Increasing(wire)' /\ Increasing(answers)'
    BY <1>1, <1>2, <1>4, CountedOn, PipeFacts DEF PipeInv, Ordered, Increasing
  <2>2. \A i \in 1 .. Len(answers), j \in 1 .. Len(wire') : answers[i].number < wire'[j].number
    BY <1>1, <1>2, <1>4, CountedOn, PipeFacts DEF PipeInv, Ordered
  <2>. QED
    BY <1>1, <2>1, <2>2 DEF Ordered
<1>9. Awaited' /\ AcceptedIsOwn'
  BY <1>1, <1>2, <1>3 DEF PipeInv, Awaited, AcceptedIsOwn
<1>. QED
  BY <1>5, <1>6, <1>7, <1>8, <1>9 DEF PipeInv

(* WriteFails keeps it: the failure makes room for the lag. *)
LEMMA WriteFailsInv == ASSUME PipeInv, NEW op \in Ops, WriteFails(op) PROVE PipeInv'
<1>. DEFINE new == Command(op)
<1>1. /\ call = NoCommand /\ call' = NoCommand /\ wire' \in {wire, Append(wire, new)}
      /\ number' = number + 1 /\ serial' = NextSerial(serial)
      /\ answers' = answers /\ failures' = failures + 1 /\ accepted' = accepted
  BY DEF WriteFails
<1>2. /\ new \in Commands /\ new # NoCommand /\ new.number = number + 1 /\ new.serial = serial
      /\ number + 1 \in Nat /\ NextSerial(serial) \in 1 .. Period
  BY CommandFacts DEF PipeInv
<1>3. Law(new, number + 1, NextSerial(serial))
  BY <1>2, LawNew, PipeFacts
<1>. HIDE DEF new
<1>4. /\ wire' \in Seq(Commands) /\ Len(wire') \in {Len(wire), Len(wire) + 1}
      /\ \A i \in 1 .. Len(wire) : wire'[i] = wire[i]
      /\ Len(wire') = Len(wire) + 1 => wire'[Len(wire) + 1] = new
  <2>1. CASE wire' = wire
    BY <2>1, PipeFacts
  <2>2. CASE wire' = Append(wire, new)
    BY <2>2, <1>2, PipeFacts, AppendFacts
  <2>. QED
    BY <1>1, <2>1, <2>2
<1>5. PipeTypeOK'
  BY <1>1, <1>2, <1>4, PipeFacts DEF PipeInv, PipeTypeOK
<1>6. Tracked(answers)'
  <2>. SUFFICES ASSUME NEW i \in 1 .. Len(answers)
                PROVE  /\ Law(answers[i], number', serial')
                       /\ Lag(answers[i], number', failures', TRUE)
    BY <1>1 DEF Tracked
  <2>1. /\ Law(answers[i], number + 1, NextSerial(serial))
        /\ number + 1 - answers[i].number <= failures /\ answers[i].number \in Nat
    BY <1>1, CountedOn, PipeFacts
  <2>2. Lag(answers[i], number + 1, failures + 1, TRUE)
    BY <2>1, PipeFacts, SMTT(30) DEF Lag
  <2>. QED
    BY <2>1, <2>2, <1>1
<1>7. Tracked(wire)'
  <2>. SUFFICES ASSUME NEW i \in 1 .. Len(wire')
                PROVE  Law(wire'[i], number', serial') /\ Lag(wire'[i], number', failures', TRUE)
    BY <1>1 DEF Tracked
  <2>1. CASE i \in 1 .. Len(wire)
    <3>1. /\ wire'[i] = wire[i] /\ wire[i].number \in Nat
          /\ Law(wire[i], number + 1, NextSerial(serial))
          /\ number + 1 - wire[i].number <= failures
      BY <2>1, <1>1, <1>4, CountedOn, PipeFacts
    <3>2. Lag(wire[i], number + 1, failures + 1, TRUE)
      BY <3>1, PipeFacts, SMTT(30) DEF Lag
    <3>3. wire'[i] = wire[i] /\ number' = number + 1 /\ failures' = failures + 1
          /\ serial' = NextSerial(serial)
      BY <3>1, <1>1
    <3>. QED
      BY <3>1, <3>2, <3>3, Zenon
  <2>2. CASE i = Len(wire) + 1
    BY <2>2, <1>1, <1>2, <1>3, <1>4, PipeFacts DEF Lag
  <2>3. i \in 1 .. Len(wire) \/ i = Len(wire) + 1
    BY <1>4, PipeFacts
  <2>. QED
    BY <2>1, <2>2, <2>3
<1>8. Ordered'
  <2>. \A i \in 1 .. Len(wire') : i \in 1 .. Len(wire)
                                   \/ (i = Len(wire) + 1 /\ wire'[i] = new)
    BY <1>4, PipeFacts
  <2>1. Increasing(wire)'
    <3>. SUFFICES ASSUME NEW i \in 1 .. Len(wire'), NEW j \in 1 .. Len(wire'), i < j
                  PROVE  wire'[i].number < wire'[j].number
      BY DEF Increasing
    <3>1. i \in 1 .. Len(wire)
      BY <1>4, PipeFacts
    <3>2. CASE j \in 1 .. Len(wire)
      BY <3>1, <3>2, <1>4 DEF PipeInv, Ordered, Increasing
    <3>3. CASE j = Len(wire) + 1 /\ wire'[j] = new
      BY <3>1, <3>3, <1>1, <1>2, <1>4, CountedOn
    <3>. QED
      BY <3>2, <3>3
  <2>2. \A i \in 1 .. Len(answers), j \in 1 .. Len(wire') : answers[i].number < wire'[j].number
    <3>. TAKE i \in 1 .. Len(answers), j \in 1 .. Len(wire')
    <3>1. CASE j \in 1 .. Len(wire)
      BY <3>1, <1>4 DEF PipeInv, Ordered
    <3>2. CASE j = Len(wire) + 1 /\ wire'[j] = new
      BY <3>2, <1>1, <1>2, CountedOn
    <3>. QED
      BY <3>1, <3>2
  <2>. QED
    BY <1>1, <2>1, <2>2 DEF PipeInv, Ordered, Increasing
<1>9. Awaited' /\ AcceptedIsOwn'
  BY <1>1, PipeFacts, PeriodAssumption DEF PipeInv, Awaited, AcceptedIsOwn
<1>. QED
  BY <1>5, <1>6, <1>7, <1>8, <1>9 DEF PipeInv

(* The device's answer takes the place of its command. *)
LEMMA AnswerInv == ASSUME PipeInv, NEW result \in Results, Answer(result) PROVE PipeInv'
<1>. DEFINE head == Head(wire)
            new  == [number |-> head.number, serial |-> head.serial, result |-> result]
<1>1. /\ wire # <<>> /\ wire' = Tail(wire) /\ answers' = Append(answers, new)
      /\ serial' = serial /\ call' = call /\ number' = number
      /\ failures' = failures /\ accepted' = accepted
  BY DEF Answer
<1>2. /\ wire' \in Seq(Commands) /\ Len(wire') = Len(wire) - 1 /\ Len(wire) \in Nat \ {0}
      /\ head = wire[1] /\ head \in Commands
      /\ \A i \in 1 .. Len(wire) - 1 : i + 1 \in 1 .. Len(wire) /\ wire'[i] = wire[i + 1]
  BY <1>1, PipeFacts, TailFacts
<1>3. new \in Answers /\ new.number = wire[1].number /\ new.serial = wire[1].serial
  BY <1>2 DEF Commands, Answers
<1>4. /\ answers' \in Seq(Answers) /\ Len(answers') = Len(answers) + 1
      /\ \A i \in 1 .. Len(answers) : answers'[i] = answers[i]
      /\ answers'[Len(answers) + 1] = new
  <2>. HIDE DEF new
  <2>. QED
    BY <1>1, <1>3, PipeFacts, AppendFacts
<1>. HIDE DEF head, new
<1>5. PipeTypeOK'
  BY <1>1, <1>2, <1>4 DEF PipeInv, PipeTypeOK
<1>6. Tracked(wire)'
  BY <1>1, <1>2, PipeFacts DEF PipeInv, Tracked
<1>7. Tracked(answers)'
  <2>. SUFFICES ASSUME NEW i \in 1 .. Len(answers')
                PROVE  /\ Law(answers'[i], number, serial)
                       /\ Lag(answers'[i], number, failures, call = NoCommand)
    BY <1>1 DEF Tracked
  <2>1. CASE i \in 1 .. Len(answers)
    BY <2>1, <1>4 DEF PipeInv, Tracked
  <2>2. CASE i = Len(answers) + 1
    <3>1. Law(wire[1], number, serial) /\ Lag(wire[1], number, failures, call = NoCommand)
      BY <1>2 DEF PipeInv, Tracked
    <3>. QED
      BY <2>2, <3>1, <1>3, <1>4 DEF Law, Lag
  <2>. QED
    BY <2>1, <2>2, <1>4, PipeFacts
<1>8. Ordered'
  <2>1. Increasing(wire)'
    <3>. SUFFICES ASSUME NEW i \in 1 .. Len(wire'), NEW j \in 1 .. Len(wire'), i < j
                  PROVE  wire'[i].number < wire'[j].number
      BY DEF Increasing
    <3>1. /\ wire'[i] = wire[i + 1] /\ wire'[j] = wire[j + 1] /\ i + 1 < j + 1
          /\ i + 1 \in 1 .. Len(wire) /\ j + 1 \in 1 .. Len(wire)
      BY <1>2
    <3>2. Increasing(wire)
      BY DEF PipeInv, Ordered
    <3>. QED
      BY <3>1, <3>2 DEF Increasing
  <2>2. Increasing(answers)'
    <3>. SUFFICES ASSUME NEW i \in 1 .. Len(answers'), NEW j \in 1 .. Len(answers'), i < j
                  PROVE  answers'[i].number < answers'[j].number
      BY DEF Increasing
    <3>1. i \in 1 .. Len(answers) /\ (j \in 1 .. Len(answers) \/ j = Len(answers) + 1)
      <4>1. Len(answers) \in Nat /\ Len(answers') = Len(answers) + 1
        BY <1>4, PipeFacts
      <4>. QED
        BY <4>1, IndexSplit
    <3>2. CASE j \in 1 .. Len(answers)
      BY <3>1, <3>2, <1>4 DEF PipeInv, Ordered, Increasing
    <3>3. CASE j = Len(answers) + 1
      BY <3>1, <3>3, <1>2, <1>3, <1>4 DEF PipeInv, Ordered
    <3>. QED
      BY <3>1, <3>2, <3>3
  <2>3. \A i \in 1 .. Len(answers'), j \in 1 .. Len(wire') : answers'[i].number < wire'[j].number
    <3>. TAKE i \in 1 .. Len(answers'), j \in 1 .. Len(wire')
    <3>1. wire'[j] = wire[j + 1] /\ j + 1 \in 1 .. Len(wire) /\ 1 < j + 1 /\ 1 \in 1 .. Len(wire)
      BY <1>2
    <3>2. CASE i \in 1 .. Len(answers)
      BY <3>1, <3>2, <1>4 DEF PipeInv, Ordered
    <3>3. CASE i = Len(answers) + 1
      BY <3>1, <3>3, <1>3, <1>4 DEF PipeInv, Ordered, Increasing
    <3>. QED
      BY <3>2, <3>3, <1>4, PipeFacts
  <2>. QED
    BY <2>1, <2>2, <2>3 DEF Ordered
<1>9. Awaited' /\ AcceptedIsOwn'
  BY <1>1 DEF PipeInv, Awaited, AcceptedIsOwn
<1>. QED
  BY <1>5, <1>6, <1>7, <1>8, <1>9 DEF PipeInv

(* The oldest answer is taken: what is left is newer, and an accepted answer is
   the command's own. *)
LEMMA ReceiveInv == ASSUME PipeInv, Receive PROVE PipeInv'
<1>. DEFINE head == Head(answers)
<1>1. /\ call # NoCommand /\ answers # <<>> /\ call' = NoCommand /\ answers' = Tail(answers)
      /\ accepted' = IF Matches THEN [own |-> call.number, got |-> head.number] ELSE accepted
      /\ serial' = serial /\ wire' = wire /\ number' = number /\ failures' = failures
  BY DEF Receive
<1>2. /\ answers' \in Seq(Answers) /\ Len(answers') = Len(answers) - 1
      /\ Len(answers) \in Nat \ {0} /\ head = answers[1] /\ head \in Answers
      /\ \A i \in 1 .. Len(answers) - 1 :
            i + 1 \in 1 .. Len(answers) /\ answers'[i] = answers[i + 1]
  BY <1>1, PipeFacts, TailFacts
<1>3. Matches => head.serial = call.serial
  BY DEF Matches
<1>. HIDE DEF head
<1>4. /\ Law(head, number, serial) /\ Lag(head, number, failures, FALSE)
      /\ head.number \in Nat /\ call.number = number /\ Law(call, number, serial)
  <2>1. 1 \in 1 .. Len(answers) /\ (call = NoCommand) = FALSE
    BY <1>1, <1>2
  <2>2. Law(answers[1], number, serial) /\ Lag(answers[1], number, failures, FALSE)
    BY <2>1 DEF PipeInv, Tracked
  <2>. QED
    BY <2>1, <2>2, <1>1, <1>2, PipeFacts DEF PipeInv, Awaited
<1>5. number - head.number <= failures
  BY <1>4, PipeFacts DEF Lag
<1>6. PipeTypeOK'
  BY <1>1, <1>2, <1>4, PipeFacts DEF PipeInv, PipeTypeOK
<1>7. Tracked(answers)'
  <2>. SUFFICES ASSUME NEW i \in 1 .. Len(answers')
                PROVE  /\ Law(answers'[i], number, serial)
                       /\ Lag(answers'[i], number, failures, TRUE)
    BY <1>1 DEF Tracked
  <2>1. /\ answers'[i] = answers[i + 1] /\ i + 1 \in 1 .. Len(answers)
        /\ 1 < i + 1 /\ 1 \in 1 .. Len(answers)
    BY <1>2
  <2>2. head.number < answers[i + 1].number
    BY <2>1, <1>2 DEF PipeInv, Ordered, Increasing
  <2>3. Law(answers[i + 1], number, serial) /\ answers[i + 1].number \in Nat
    BY <2>1, PipeFacts DEF PipeInv, Tracked
  <2>4. number - answers[i + 1].number + 1 <= failures
    <3>1. head.number \in Nat /\ number \in Nat /\ failures \in Nat
      BY <1>2, PipeFacts
    <3>. QED
      BY <2>2, <2>3, <3>1, <1>5
  <2>5. Lag(answers[i + 1], number, failures, TRUE)
    BY <2>4 DEF Lag
  <2>. QED
    BY <2>1, <2>3, <2>5
<1>8. Tracked(wire)'
  <2>. SUFFICES ASSUME NEW i \in 1 .. Len(wire)
                PROVE  /\ Law(wire[i], number, serial)
                       /\ Lag(wire[i], number, failures, TRUE)
    BY <1>1 DEF Tracked
  <2>1. head.number < wire[i].number
    BY <1>2 DEF PipeInv, Ordered
  <2>2. Law(wire[i], number, serial) /\ wire[i].number \in Nat
    BY PipeFacts DEF PipeInv, Tracked
  <2>. QED
    BY <2>1, <2>2, <1>4, <1>5, PipeFacts DEF Lag
<1>9. Ordered'
  BY <1>1, <1>2, PipeFacts DEF PipeInv, Ordered, Increasing
<1>10. AcceptedIsOwn'
  <2>1. CASE Matches /\ failures < Period
    <3>1. head.number = number
      BY <2>1, <1>3, <1>4, <1>5, SerialTells, PipeFacts
    <3>. QED
      BY <3>1, <2>1, <1>1, <1>4 DEF AcceptedIsOwn
  <2>2. CASE ~(Matches /\ failures < Period)
    BY <2>2, <1>1 DEF PipeInv, AcceptedIsOwn
  <2>. QED
    BY <2>1, <2>2
<1>. QED
  BY <1>1, <1>6, <1>7, <1>8, <1>9, <1>10 DEF PipeInv, Awaited

(* A timeout gives up waiting, and is counted. *)
LEMMA TimeoutInv == ASSUME PipeInv, Timeout PROVE PipeInv'
<1>1. /\ call # NoCommand /\ answers = <<>> /\ call' = NoCommand /\ failures' = failures + 1
      /\ serial' = serial /\ wire' = wire /\ answers' = answers /\ number' = number
      /\ accepted' = accepted
  BY DEF Timeout
<1>2. PipeTypeOK'
  BY <1>1, PipeFacts DEF PipeInv, PipeTypeOK
<1>3. Tracked(wire)' /\ Tracked(answers)'
  <2>1. \A i \in 1 .. Len(wire) : Law(wire[i], number, serial)
                                  /\ Lag(wire[i], number, failures, FALSE)
    BY <1>1 DEF PipeInv, Tracked
  <2>. QED
    BY <2>1, <1>1, PipeFacts DEF Tracked, Lag
<1>4. Ordered' /\ Awaited' /\ AcceptedIsOwn'
  BY <1>1, PipeFacts, PeriodAssumption DEF PipeInv, Ordered, Increasing, Awaited, AcceptedIsOwn
<1>. QED
  BY <1>2, <1>3, <1>4 DEF PipeInv

(* The pipe's invariant holds for every number of serials. *)
THEOREM PipeInvariance == PipeSpec => []PipeInv
<1>1. ASSUME PipeInv, [PipeNext]_pipeVars PROVE PipeInv'
  <2>1. CASE UNCHANGED pipeVars
    BY <1>1, <2>1 DEF pipeVars, PipeInv, PipeTypeOK, Tracked, Ordered, Increasing, Awaited,
                      AcceptedIsOwn
  <2>2. CASE PipeNext
    BY <1>1, <2>2, WriteInv, WriteFailsInv, AnswerInv, ReceiveInv, TimeoutInv DEF PipeNext
  <2>. QED
    BY <1>1, <2>1, <2>2
<1>. QED
  BY <1>1, PipeInitInv, PTL DEF PipeSpec

(* The answer a command accepts is its own, however many answers were late,
   while fewer than Period commands have ended without one. *)
THEOREM AnswersAreOwn == PipeSpec => []AcceptedIsOwn
<1>1. PipeInv => AcceptedIsOwn
  BY DEF PipeInv
<1>. QED
  BY <1>1, PipeInvariance, PTL

-----------------------------------------------------------------------------
(* The steps of Glasgow on the pipe. *)

\* What the device's answers are made of.
DeviceOK == /\ counts \in [errors : Nat, overflow : Nat]
            /\ counts.errors + counts.overflow <= MaxCount
            /\ fifo \in 0 .. MaxTx /\ shifting \in BOOLEAN
            /\ fpga \in {Blank, Ours, Other}

(* Every answer of the device is one of the pipe's results. *)
LEMMA RepliesAreResults ==
    ASSUME DeviceOK, NEW op, NEW reply \in Replies(op)
    PROVE  reply \in Results
<1>1. Results = GlasgowResults /\ IdleBit \in Nat /\ MaxTx \in Nat /\ MaxCount < IdleBit
  BY PipeAssumption, GlasgowBounds
<1>2. CASE op = "status"
  BY <1>1, <1>2 DEF Replies, GlasgowResults, DeviceOK
<1>3. CASE op \in {"errors", "overflow"}
  <2>1. counts[op] \in Nat /\ counts[op] <= MaxCount
    BY <1>3, GlasgowBounds DEF DeviceOK
  <2>2. counts[op] \in Words
    BY <1>1, <2>1, GlasgowBounds DEF Words
  <2>. QED
    BY <1>1, <1>3, <2>2 DEF Replies, GlasgowResults
<1>4. CASE op = "tx_state"
  <2>1. \A v \in TxState : v \in Words
    BY <1>1 DEF TxState, Words, DeviceOK
  <2>. QED
    BY <1>1, <1>4, <2>1 DEF Replies, GlasgowResults
<1>5. CASE op \notin {"status", "errors", "overflow", "tx_state"}
  BY <1>1, <1>5 DEF Replies, GlasgowResults
<1>. QED
  BY <1>2, <1>3, <1>4, <1>5

(* The gateware's counters and FIFO stay within their bounds. *)
LEMMA DeviceStep == ASSUME DeviceOK, [Next]_vars PROVE DeviceOK'
<1>1. CASE UNCHANGED <<counts, fifo, shifting, fpga>>
  BY <1>1 DEF DeviceOK
<1>2. CASE Gateware
  <2>1. counts' \in [errors : Nat, overflow : Nat]
        /\ counts'.errors + counts'.overflow <= MaxCount
    <3>1. CASE UNCHANGED counts
      BY <3>1 DEF DeviceOK
    <3>2. ASSUME NEW k \in {"errors", "overflow"},
                 counts.errors + counts.overflow < MaxCount,
                 counts' = [counts EXCEPT ![k] = @ + 1]
          PROVE  /\ counts' \in [errors : Nat, overflow : Nat]
                 /\ counts'.errors + counts'.overflow = counts.errors + counts.overflow + 1
      BY <3>2 DEF DeviceOK
    <3>. QED
      BY <1>2, <3>1, <3>2, GlasgowBounds DEF Gateware, DeviceOK
  <2>2. fifo' \in 0 .. MaxTx /\ shifting' \in BOOLEAN /\ fpga' = fpga
    <3>1. MaxTx \in Nat /\ fifo \in 0 .. MaxTx /\ shifting \in BOOLEAN /\ fpga' = fpga
      BY <1>2, GlasgowBounds DEF Gateware, DeviceOK
    <3>2. \/ UNCHANGED <<fifo, shifting>>
          \/ fifo > 0 /\ fifo' = fifo - 1 /\ shifting' = TRUE
          \/ fifo' = fifo /\ shifting' = FALSE
      BY <1>2 DEF Gateware
    <3>3. fifo' \in 0 .. MaxTx
      BY <3>1, <3>2
    <3>4. shifting' \in BOOLEAN
      BY <3>1, <3>2, Zenon
    <3>. QED
      BY <3>1, <3>3, <3>4
  <2>. QED
    BY <2>1, <2>2 DEF DeviceOK
<1>3. CASE TxByte
  BY <1>3, GlasgowBounds DEF TxByte, DeviceOK
<1>4. CASE DeviceAnswers
  BY <1>4 DEF DeviceAnswers, Effect, DeviceOK
<1>5. CASE Firmware \/ Upload
  BY <1>5 DEF Firmware, Upload, DeviceOK
<1>6. CASE Open /\ ~(Firmware \/ Upload)
  BY <1>1, <1>6 DEF Open, Listing, Pipes, OpenCommand, OpenTimeout, OpenRejected, OpenStatus,
        OpenFinish, OpenProfile, Close, Drop, deviceVars
<1>7. CASE Refresh
  BY <1>1, <1>7 DEF Refresh, RefreshPoll, RefreshLock, RefreshCommand, RefreshTimeout,
        RefreshRejected, RefreshErrors, RefreshStore, deviceVars
<1>8. CASE TxWorker /\ ~TxByte
  BY <1>1, <1>8 DEF TxWorker, DrainFlush, DrainLock, DrainCommand, DrainFails, DrainState,
        deviceVars
<1>. QED
  BY <1>1, <1>2, <1>3, <1>4, <1>5, <1>6, <1>7, <1>8 DEF Next, Closed, vars, deviceVars

(* A step of Glasgow is a step of the pipe or leaves it alone. *)
LEMMA PipeStep == ASSUME DeviceOK, [Next]_vars PROVE [PipeNext]_pipeVars
<1>1. CASE UNCHANGED pipeVars
  BY <1>1
<1>2. Ops = GlasgowOps
  BY PipeAssumption
<1>3. ASSUME NEW op \in Ops, Write(op) \/ WriteFails(op) PROVE PipeNext
  BY <1>3 DEF PipeNext
<1>4. CASE Receive \/ Timeout
  BY <1>4 DEF PipeNext
<1>5. CASE OpenCommand
  <2>1. OpOf(life) \in Ops
    BY <1>2, <1>5 DEF OpenCommand, OpOf, Commanding, Guarded, TurnOff, GlasgowOps
  <2>. QED
    BY <1>3, <1>5, <2>1 DEF OpenCommand
<1>6. CASE Open /\ ~OpenCommand
  BY <1>1, <1>4, <1>6 DEF Open, Firmware, Listing, Upload, Pipes, OpenTimeout, OpenRejected,
        OpenStatus, OpenFinish, OpenProfile, Close, Drop
<1>7. CASE Refresh
  <2>. PICK c \in {"rx", "co"} : \/ RefreshPoll(c) \/ RefreshLock(c) \/ RefreshCommand(c)
                                 \/ RefreshTimeout(c) \/ RefreshRejected(c)
                                 \/ RefreshErrors(c) \/ RefreshStore(c)
    BY <1>7 DEF Refresh
  <2>1. CASE RefreshCommand(c)
    BY <1>2, <1>3, <2>1 DEF RefreshCommand, GlasgowOps
  <2>. QED
    BY <1>1, <1>4, <2>1 DEF RefreshPoll, RefreshLock, RefreshTimeout, RefreshRejected,
          RefreshErrors, RefreshStore
<1>8. CASE TxWorker
  <2>1. CASE DrainCommand
    BY <1>2, <1>3, <2>1 DEF DrainCommand, GlasgowOps
  <2>. QED
    BY <1>1, <1>4, <1>8, <2>1 DEF TxWorker, TxByte, DrainFlush, DrainLock, DrainFails, DrainState
<1>9. CASE DeviceAnswers
  <2>1. ASSUME NEW result \in Results, Answer(result) PROVE PipeNext
    BY <2>1 DEF PipeNext
  <2>2. Refuse \in Results /\ Wait \in Results
    BY PipeAssumption DEF GlasgowResults
  <2>3. \A reply \in Replies(Head(wire).op) : reply \in Results
    BY RepliesAreResults
  <2>. QED
    BY <1>9, <2>1, <2>2, <2>3 DEF DeviceAnswers
<1>. QED
  BY <1>1, <1>5, <1>6, <1>7, <1>8, <1>9 DEF Next, Gateware, Closed, vars

(* A session on a Glasgow uses the management pipe as Management specifies. *)
THEOREM UsesPipe == Spec => PipeSpec
<1>1. Init => DeviceOK /\ PipeInit
  <2>1. MaxCount \in Nat /\ MaxTx \in Nat
    BY GlasgowBounds
  <2>2. Init => /\ counts = [errors |-> 0, overflow |-> 0] /\ fifo = 0 /\ shifting = FALSE
                /\ fpga \in {Blank, Ours, Other} /\ PipeInit
    BY DEF Init
  <2>3. ASSUME Init PROVE DeviceOK
    <3>1. counts \in [errors : Nat, overflow : Nat] /\ counts.errors + counts.overflow <= MaxCount
      BY <2>1, <2>2, <2>3
    <3>2. fifo \in 0 .. MaxTx
      BY <2>1, <2>2, <2>3
    <3>3. shifting \in BOOLEAN /\ fpga \in {Blank, Ours, Other}
      BY <2>2, <2>3
    <3>. QED
      BY <3>1, <3>2, <3>3 DEF DeviceOK
  <2>. QED
    BY <2>2, <2>3
<1>. QED
  BY <1>1, DeviceStep, PipeStep, PTL DEF Spec, PipeSpec

(* So no register, status or acknowledgement of a session is another command's
   while fewer than Period commands have ended without an answer. *)
THEOREM SessionAnswersAreOwn == Spec => []AcceptedIsOwn
BY UsesPipe, AnswersAreOwn, PTL

-----------------------------------------------------------------------------
(* The session and its device. *)

\* Before open has returned; where the host waits for no answer yet or any more.
Setup  == {"firmware", "listing", "status", "upload", "finish", "check", "pipes"} \cup Guarded
Ending == TurnOff \cup {"close", "closed"}
Asking == {"errors", "overflow", "tx_state"}

HostTypeOK ==
    /\ life \in Setup \cup {"open"} \cup Ending
    /\ polls \in 0 .. MaxPolls /\ vio \in BOOLEAN
    /\ base \in [errors : Nat, overflow : Nat]
    /\ published \in [errors : Words, overflow : Words] /\ word \in Words
    /\ poll \in {"none", "rx", "co"} /\ mgmt \in {"none"} \cup Clients
    /\ firmware \in {"ours", "other"}
    /\ divisor \in BOOLEAN /\ supply \in BOOLEAN /\ pulls \in BOOLEAN /\ pipes \in BOOLEAN
    /\ offFailed \in BOOLEAN /\ lit \in {"no", "switched", "confirmed"}

\* The holder of the pipe is the client that asks, and there are clients only in
\* a session.
ClientInv ==
    /\ step \in [Clients -> {"idle", "poll", "errors", "overflow", "tx_state", "drained",
                             "failed"}]
    /\ step.rx \notin {"tx_state", "drained"} /\ step.co \notin {"tx_state", "drained"}
    /\ step.tx \notin {"errors", "overflow"}
    /\ \A c \in Clients : mgmt = c <=> step[c] \in Asking
    /\ life # "open" => \A c \in Clients : step[c] \in {"idle", "drained", "failed"}
    /\ life \in Setup => \A c \in Clients : step[c] = "idle"

\* The command whose answer is awaited is that of the step the host is in.
CallInv ==
    call # NoCommand => \/ life \in Commanding /\ call.op = OpOf(life)
                        \/ life = "open" /\ mgmt # "none" /\ call.op = step[mgmt]

\* What a good answer to an operation says of the device.
Truth(op, result) ==
    /\ op = "status" /\ result.kind = "id" => result.value = fpga
    /\ op = "finish" /\ result.kind = "ack" => fpga = Ours
    /\ op = "baud" /\ result.kind = "ack" => divisor
    /\ op = "volts_on" /\ result.kind = "ack" => supply
    /\ op = "pulls_on" /\ result.kind = "ack" => pulls
    /\ op \in {"errors", "overflow"} /\ result.kind = "word" => result.value <= counts[op]

OwnAnswer ==
    call # NoCommand =>
        /\ \A i \in 1 .. Len(wire) : wire[i].number = call.number => wire[i].op = call.op
        /\ \A i \in 1 .. Len(answers) : answers[i].number = call.number
                                            => Truth(call.op, answers[i].result)

\* Nothing has failed while open goes on, so that nothing is left in the pipe.
Undisturbed ==
    /\ life \in Setup => failures = 0 /\ published = [errors |-> 0, overflow |-> 0]
    /\ life \in {"firmware", "listing"} => number = 0
    /\ number > 0 \/ life \notin {"firmware", "listing", "closed"} => firmware = "ours"

\* What open has done by a step stays done until the supply is switched off.
Progress ==
    /\ life \in {"pipes", "open"} \cup Guarded => fpga = Ours
    /\ life \in {"open"} \cup Guarded => pipes
    /\ life \in {"volts_on", "pulls_on", "errors", "overflow", "open"} => divisor
    /\ life \in {"pulls_on", "errors", "overflow", "open"} => supply
    /\ life \in {"errors", "overflow", "open"} => pulls
    /\ base.errors <= counts.errors /\ base.overflow <= counts.overflow
    /\ \A i \in 1 .. Len(wire) : wire[i].op \in TurnOff => life \in Ending

\* A supply that the guard knows to be on is switched off on the way to the end.
SupplyInv ==
    /\ lit = "confirmed" => vio
    /\ life \in Setup \ {"errors", "overflow"} => ~vio
    /\ vio => \A i \in 1 .. Len(wire) : wire[i].op # "volts_on"
    /\ vio /\ \/ life \in {"pulls_off", "close", "closed"}
              \/ life = "volts_off" /\ call # NoCommand
          => offFailed \/ ~supply \/ \E i \in 1 .. Len(wire) : wire[i].op = "volts_off"

\* A register that says idle is about a transmitter that stays so.
IdleInv ==
    /\ step.tx = "drained" => fifo = 0 /\ ~shifting
    /\ \A i \in 1 .. Len(answers) : answers[i].result = Reg(IdleBit)
                                        => fifo = 0 /\ ~shifting /\ step.tx # "idle"
    /\ \A i \in 1 .. Len(wire) : wire[i].op = "tx_state" => step.tx # "idle"

WordInv == failures < Period => word <= counts.errors

GlasgowIInv ==
    /\ PipeInv /\ DeviceOK /\ HostTypeOK /\ ClientInv /\ CallInv /\ OwnAnswer /\ Undisturbed
    /\ Progress /\ SupplyInv /\ IdleInv /\ WordInv /\ CountersAreSinceOpen

-----------------------------------------------------------------------------
(* What is in the pipe after a step of it. *)

WireGrows(op) == \A i \in 1 .. Len(wire') : \/ \E j \in 1 .. Len(wire) : wire'[i] = wire[j]
                                            \/ wire'[i].op = op
WireKept      == \A i \in 1 .. Len(wire') : \E j \in 1 .. Len(wire) : wire'[i] = wire[j]
AnswersKept   == \A i \in 1 .. Len(answers') : \E j \in 1 .. Len(answers) : answers'[i] = answers[j]

(* A command that is tried adds at most itself. *)
LEMMA TriedPipe ==
    ASSUME PipeInv, NEW op \in Ops, Write(op) \/ WriteFails(op)
    PROVE  WireGrows(op) /\ answers' = answers /\ AnswersKept /\ call = NoCommand
<1>1. /\ wire' \in {wire, Append(wire, Command(op))} /\ answers' = answers /\ call = NoCommand
  BY DEF Write, WriteFails
<1>2. Command(op) \in Commands /\ Command(op).op = op /\ wire \in Seq(Commands)
  BY CommandFacts, PipeFacts DEF PipeInv, Command
<1>3. CASE wire' = wire
  BY <1>1, <1>3 DEF WireGrows, AnswersKept
<1>4. CASE wire' = Append(wire, Command(op))
  <2>. DEFINE new == Command(op)
  <2>1. new \in Commands /\ new.op = op
    BY <1>2
  <2>. HIDE DEF new
  <2>2. /\ Len(wire') = Len(wire) + 1 /\ Len(wire) \in Nat
        /\ \A i \in 1 .. Len(wire) : wire'[i] = wire[i]
        /\ wire'[Len(wire) + 1] = new
    BY <1>2, <1>4, <2>1, AppendFacts DEF new
  <2>3. \A i \in 1 .. Len(wire') : i \in 1 .. Len(wire) \/ i = Len(wire) + 1
    BY <2>2
  <2>. QED
    BY <1>1, <2>1, <2>2, <2>3 DEF WireGrows, AnswersKept
<1>. QED
  BY <1>1, <1>3, <1>4

(* An answer that is read, or not, leaves the others. *)
LEMMA TakenPipe ==
    ASSUME PipeInv, Receive \/ Timeout
    PROVE  /\ wire' = wire /\ AnswersKept /\ call # NoCommand /\ call' = NoCommand
           /\ number' = number /\ (failures' = failures \/ Timeout)
<1>1. CASE Receive
  <2>1. answers # <<>> /\ answers' = Tail(answers) /\ answers \in Seq(Answers)
    BY <1>1, PipeFacts DEF Receive
  <2>2. /\ Len(answers') = Len(answers) - 1
        /\ \A i \in 1 .. Len(answers) - 1 :
              i + 1 \in 1 .. Len(answers) /\ answers'[i] = answers[i + 1]
    BY <2>1, TailFacts
  <2>3. AnswersKept
    BY <2>2 DEF AnswersKept
  <2>. QED
    BY <1>1, <2>3 DEF Receive
<1>2. CASE Timeout
  BY <1>2 DEF Timeout, AnswersKept
<1>. QED
  BY <1>1, <1>2

(* The device takes the oldest command and adds its answer. *)
LEMMA AnsweredPipe ==
    ASSUME PipeInv, NEW result \in Results, Answer(result)
    PROVE  /\ wire # <<>> /\ WireKept /\ 1 \in 1 .. Len(wire) /\ Head(wire) = wire[1]
           /\ \A i \in 1 .. Len(wire) : i = 1 \/ \E j \in 1 .. Len(wire') : wire'[j] = wire[i]
           /\ \A i \in 1 .. Len(answers') :
                 \/ \E j \in 1 .. Len(answers) : answers'[i] = answers[j]
                 \/ answers'[i].result = result /\ answers'[i].number = wire[1].number
           /\ call' = call /\ number' = number /\ failures' = failures /\ serial' = serial
           /\ answers' # <<>>
<1>. DEFINE head == Head(wire)
            new  == [number |-> head.number, serial |-> head.serial, result |-> result]
<1>1. /\ wire # <<>> /\ wire' = Tail(wire) /\ answers' = Append(answers, new)
      /\ serial' = serial /\ call' = call /\ number' = number /\ failures' = failures
  BY DEF Answer
<1>2. /\ wire' \in Seq(Commands) /\ Len(wire') = Len(wire) - 1 /\ Len(wire) \in Nat \ {0}
      /\ head = wire[1] /\ head \in Commands
      /\ \A i \in 1 .. Len(wire) - 1 : i + 1 \in 1 .. Len(wire) /\ wire'[i] = wire[i + 1]
  BY <1>1, PipeFacts, TailFacts
<1>3. new \in Answers /\ new.number = wire[1].number /\ new.result = result
  BY <1>2 DEF Commands, Answers
<1>4. /\ answers' \in Seq(Answers) /\ Len(answers') = Len(answers) + 1 /\ Len(answers) \in Nat
      /\ \A i \in 1 .. Len(answers) : answers'[i] = answers[i]
      /\ answers'[Len(answers) + 1] = new
  <2>. HIDE DEF new
  <2>. QED
    BY <1>1, <1>3, PipeFacts, AppendFacts
<1>. HIDE DEF head, new
<1>5. \A i \in 1 .. Len(answers') : i \in 1 .. Len(answers) \/ i = Len(answers) + 1
  BY <1>4
<1>6. WireKept
  BY <1>2 DEF WireKept
<1>7. ASSUME NEW i \in 1 .. Len(wire), i # 1
      PROVE  \E j \in 1 .. Len(wire') : wire'[j] = wire[i]
  <2>1. i - 1 \in 1 .. Len(wire') /\ i - 1 \in 1 .. Len(wire) - 1 /\ (i - 1) + 1 = i
    BY <1>2, <1>7
  <2>. QED
    BY <1>2, <2>1
<1>8. answers' # <<>>
  BY <1>4
<1>. QED
  BY <1>1, <1>2, <1>3, <1>4, <1>5, <1>6, <1>7, <1>8 DEF head

(* A good answer of the right shape is what the device said, of a register a
   value that it can have. *)
LEMMA GoodAnswer ==
    ASSUME PipeInv, Receive, Good
    PROVE  /\ Head(answers) = answers[1] /\ 1 \in 1 .. Len(answers) /\ Matches
           /\ Head(answers).result \in GlasgowResults
           /\ Head(answers).result.kind = Shape(call.op)
           /\ Shape(call.op) = "word" => Value \in Words /\ Head(answers).result = Reg(Value)
<1>1. answers # <<>> /\ answers \in Seq(Answers) /\ Results = GlasgowResults
  BY PipeFacts, PipeAssumption DEF Receive
<1>2. Head(answers) = answers[1] /\ answers[1] \in Answers /\ Len(answers) \in Nat \ {0}
  BY <1>1, TailFacts
<1>3. Head(answers).result \in GlasgowResults
  BY <1>1, <1>2 DEF Answers
<1>4. Matches /\ Head(answers).result.kind = Shape(call.op)
  BY DEF Good, Accepts
<1>5. ASSUME Head(answers).result.kind = "word"
      PROVE  Value \in Words /\ Head(answers).result = Reg(Value)
  <2>1. /\ Ack.kind = "ack" /\ Wait.kind = "wait" /\ Refuse.kind = "error"
        /\ \A f : Id(f).kind = "id"
    BY DEF Ack, Wait, Refuse, Id
  <2>2. Head(answers).result \in {Reg(v) : v \in Words}
    BY <1>3, <1>5, <2>1 DEF GlasgowResults
  <2>3. PICK v \in Words : Head(answers).result = Reg(v)
    BY <2>2
  <2>4. Reg(v).value = v
    BY DEF Reg
  <2>. QED
    BY <2>3, <2>4 DEF Value
<1>. QED
  BY <1>2, <1>3, <1>4, <1>5

(* An answer that is accepted while few commands have failed tells the truth. *)
LEMMA OwnTruth ==
    ASSUME PipeInv, OwnAnswer, Receive, Good, failures < Period
    PROVE  Truth(call.op, Head(answers).result)
<1>1. PipeInv'
  BY ReceiveInv
<1>2. /\ call # NoCommand /\ failures' = failures
      /\ accepted' = [own |-> call.number, got |-> Head(answers).number]
  BY GoodAnswer DEF Receive
<1>3. call.number = Head(answers).number
  BY <1>1, <1>2 DEF PipeInv, AcceptedIsOwn
<1>. QED
  BY <1>2, <1>3, GoodAnswer DEF OwnAnswer

(* While open goes on, the pipe holds the command that is awaited or its answer,
   and nothing else. *)
LEMMA SetupPipe ==
    ASSUME PipeInv, Undisturbed, life \in Setup
    PROVE  /\ failures < Period
           /\ call = NoCommand => wire = <<>> /\ answers = <<>>
           /\ \A i \in 1 .. Len(wire) : wire[i].number = call.number
           /\ \A i \in 1 .. Len(answers) : answers[i].number = call.number
<1>1. failures = 0 /\ failures < Period
  BY PeriodAssumption DEF Undisturbed
<1>2. /\ \A i \in 1 .. Len(wire) : wire[i].number \in 1 .. number
                                   /\ Lag(wire[i], number, 0, call = NoCommand)
      /\ \A i \in 1 .. Len(answers) : answers[i].number \in 1 .. number
                                      /\ Lag(answers[i], number, 0, call = NoCommand)
  BY <1>1 DEF PipeInv, Tracked, Law
<1>3. CASE call = NoCommand
  <2>1. Len(wire) = 0 /\ Len(answers) = 0
    <3>1. \A i \in 1 .. Len(wire) : FALSE
      BY <1>2, <1>3, PipeFacts DEF Lag
    <3>2. \A i \in 1 .. Len(answers) : FALSE
      BY <1>2, <1>3, PipeFacts DEF Lag
    <3>. QED
      BY <3>1, <3>2, PipeFacts
  <2>. QED
    BY <1>1, <2>1, PipeFacts
<1>4. CASE call # NoCommand
  <2>1. call.number = number
    BY <1>4 DEF PipeInv, Awaited
  <2>. QED
    BY <1>1, <1>2, <1>4, <2>1, PipeFacts DEF Lag
<1>. QED
  BY <1>3, <1>4

-----------------------------------------------------------------------------
(* Who changes what. *)

(* open, its cleanup and Drop leave the clients and most of the device alone. *)
LEMMA OpenFrame ==
    ASSUME Open
    PROVE  UNCHANGED <<step, poll, mgmt, word, published, divisor, supply, pulls, counts, fifo,
                       shifting>>
BY DEF Open, Firmware, Listing, Upload, Pipes, OpenCommand, OpenTimeout, OpenRejected,
       OpenStatus, OpenFinish, OpenProfile, Close, Drop, clientVars, deviceVars

(* The clients of a session leave the guard and the device alone. *)
LEMMA ClientFrame ==
    ASSUME Refresh \/ TxWorker
    PROVE  /\ UNCHANGED <<life, polls, vio, base, firmware, fpga, divisor, supply, pulls, pipes,
                          counts, shifting, offFailed, lit>>
           /\ TxByte \/ fifo' = fifo
BY DEF Refresh, RefreshPoll, RefreshLock, RefreshCommand, RefreshTimeout, RefreshRejected,
       RefreshErrors, RefreshStore, TxWorker, TxByte, DrainFlush, DrainLock, DrainCommand,
       DrainFails, DrainState, profileVars, deviceVars, hostVars, history

(* The device leaves the host alone. *)
LEMMA DeviceFrame ==
    ASSUME DeviceAnswers \/ Gateware
    PROVE  UNCHANGED <<life, polls, vio, base, step, poll, mgmt, word, published, firmware, pipes>>
BY DEF DeviceAnswers, Gateware, hostVars

(* Where open goes: never back, and to a session from the last register only. *)
LEMMA OpenMoves ==
    ASSUME HostTypeOK, Open
    PROVE  /\ life' \in Setup \cup {"open"} \cup Ending
           /\ life' \in Setup => life \in Setup
           /\ life' = "open" => life = "overflow"
           /\ life = "open" <=> Drop
           /\ life \in Ending => life' \in Ending
           /\ life # "closed"
<1>1. CASE Firmware \/ Listing \/ Upload \/ Pipes \/ Close \/ Drop
  BY <1>1 DEF HostTypeOK, Firmware, Listing, Upload, Pipes, Close, Drop, Setup, Ending, Guarded,
              TurnOff
<1>2. CASE OpenCommand \/ OpenTimeout \/ OpenRejected
  BY <1>2 DEF HostTypeOK, OpenCommand, OpenTimeout, OpenRejected, Drop, Setup, Ending, Guarded,
              TurnOff, Commanding, Broken
<1>3. CASE OpenStatus \/ OpenFinish
  BY <1>3 DEF HostTypeOK, OpenStatus, OpenFinish, Drop, Setup, Ending, Guarded, TurnOff
<1>4. CASE OpenProfile
  BY <1>4 DEF HostTypeOK, OpenProfile, Drop, Setup, Ending, Guarded, TurnOff, After
<1>. QED
  BY <1>1, <1>2, <1>3, <1>4 DEF Open

(* How a client moves. *)
ClientMoves(c, s, t) == step[c] = s /\ step' = [step EXCEPT ![c] = t]

LEMMA ClientSteps ==
    ASSUME ClientInv, Refresh \/ TxWorker
    PROVE  \E c \in Clients :
             /\ life = "open"
             /\ \/ UNCHANGED <<step, mgmt>>
                \/ \E t \in {"poll", "failed"} : ClientMoves(c, "idle", t) /\ mgmt' = mgmt
                \/ \E t \in Asking : /\ ClientMoves(c, "poll", t) /\ mgmt = "none" /\ mgmt' = c
                                     /\ (c = "tx" <=> t = "tx_state")
                \/ ClientMoves(c, "errors", "overflow") /\ mgmt' = mgmt
                \/ \E s \in Asking, t \in {"idle", "failed", "poll", "drained"} :
                      /\ ClientMoves(c, s, t) /\ mgmt' = "none"
                      /\ c # "tx" => t \in {"idle", "failed"}
                      /\ c = "tx" => t # "idle"
<1>0. /\ \A c \in Clients : step[c] \notin {"idle", "drained", "failed"} => life = "open"
      /\ Clients = {"rx", "co", "tx"}
  BY DEF ClientInv, Clients
<1>1. CASE Refresh
  <2>. PICK c \in {"rx", "co"} : \/ RefreshPoll(c) \/ RefreshLock(c) \/ RefreshCommand(c)
                                 \/ RefreshTimeout(c) \/ RefreshRejected(c)
                                 \/ RefreshErrors(c) \/ RefreshStore(c)
    BY <1>1 DEF Refresh
  <2>1. c \in Clients /\ c # "tx"
    BY <1>0
  <2>2. CASE RefreshPoll(c)
    BY <2>1, <2>2 DEF RefreshPoll, Goto, ClientMoves
  <2>3. CASE RefreshLock(c)
    BY <1>0, <2>1, <2>3 DEF RefreshLock, Goto, ClientMoves, Asking
  <2>4. CASE RefreshCommand(c) \/ RefreshTimeout(c) \/ RefreshRejected(c)
    BY <1>0, <2>1, <2>4 DEF RefreshCommand, RefreshTimeout, RefreshRejected, RefreshEnds, Goto,
                            ClientMoves, Asking
  <2>5. CASE RefreshErrors(c)
    BY <1>0, <2>1, <2>5 DEF RefreshErrors, Goto, ClientMoves
  <2>6. CASE RefreshStore(c)
    BY <1>0, <2>1, <2>6 DEF RefreshStore, RefreshEnds, Goto, ClientMoves, Asking
  <2>. QED
    BY <2>2, <2>3, <2>4, <2>5, <2>6
<1>2. CASE TxWorker
  <2>1. CASE TxByte \/ DrainFlush
    BY <1>0, <2>1 DEF TxByte, DrainFlush, Goto, ClientMoves, hostVars
  <2>2. CASE DrainLock
    BY <1>0, <2>2 DEF DrainLock, Goto, ClientMoves, Asking
  <2>3. CASE DrainCommand
    BY <1>0, <2>3 DEF DrainCommand, Goto, ClientMoves, Asking
  <2>4. CASE DrainFails \/ DrainState
    BY <1>0, <2>4 DEF DrainFails, DrainState, Goto, ClientMoves, Asking
  <2>. QED
    BY <1>2, <2>1, <2>2, <2>3, <2>4 DEF TxWorker
<1>. QED
  BY <1>1, <1>2

-----------------------------------------------------------------------------
(* Each part of the invariant. *)

(* The clients hold the pipe exactly while they ask. *)
LEMMA ClientInvStep == ASSUME GlasgowIInv, [Next]_vars PROVE ClientInv'
<1>0. ClientInv /\ HostTypeOK
  BY DEF GlasgowIInv
<1>1. ASSUME UNCHANGED <<step, mgmt, life>> PROVE ClientInv'
  BY <1>0, <1>1 DEF ClientInv
<1>2. CASE Open
  <2>1. step' = step /\ mgmt' = mgmt
    BY <1>2, OpenFrame
  <2>2. (life' \in Setup => life \in Setup) /\ (life' # "open" => life # "open" \/ Drop)
    BY <1>0, <1>2, OpenMoves
  <2>3. Drop => \A c \in Clients : step[c] \in {"idle", "drained", "failed"}
    BY DEF Drop, Clients
  <2>. QED
    BY <1>0, <2>1, <2>2, <2>3 DEF ClientInv
<1>3. CASE Refresh \/ TxWorker
  <2>1. life' = life
    BY <1>3, ClientFrame
  <2>2. PICK c \in Clients :
             /\ life = "open"
             /\ \/ UNCHANGED <<step, mgmt>>
                \/ \E t \in {"poll", "failed"} : ClientMoves(c, "idle", t) /\ mgmt' = mgmt
                \/ \E t \in Asking : /\ ClientMoves(c, "poll", t) /\ mgmt = "none" /\ mgmt' = c
                                     /\ (c = "tx" <=> t = "tx_state")
                \/ ClientMoves(c, "errors", "overflow") /\ mgmt' = mgmt
                \/ \E s \in Asking, t \in {"idle", "failed", "poll", "drained"} :
                      /\ ClientMoves(c, s, t) /\ mgmt' = "none"
                      /\ c # "tx" => t \in {"idle", "failed"}
                      /\ c = "tx" => t # "idle"
    BY <1>0, <1>3, ClientSteps
  <2>3. life' = "open" /\ life' \notin Setup /\ Clients = {"rx", "co", "tx"}
    BY <2>1, <2>2 DEF Setup, Guarded, Clients
  <2>4. CASE UNCHANGED <<step, mgmt>>
    BY <1>1, <2>1, <2>4
  <2>5. ASSUME NEW t \in {"poll", "failed"}, ClientMoves(c, "idle", t), mgmt' = mgmt
        PROVE  ClientInv'
    BY <1>0, <2>3, <2>5 DEF ClientInv, ClientMoves, Asking
  <2>6. ASSUME NEW t \in Asking, ClientMoves(c, "poll", t), mgmt = "none", mgmt' = c,
               c = "tx" <=> t = "tx_state"
        PROVE  ClientInv'
    BY <1>0, <2>3, <2>6 DEF ClientInv, ClientMoves, Asking
  <2>7. CASE ClientMoves(c, "errors", "overflow") /\ mgmt' = mgmt
    BY <1>0, <2>3, <2>7 DEF ClientInv, ClientMoves, Asking
  <2>8. ASSUME NEW s \in Asking, NEW t \in {"idle", "failed", "poll", "drained"},
               ClientMoves(c, s, t), mgmt' = "none",
               c # "tx" => t \in {"idle", "failed"}
        PROVE  ClientInv'
    BY <1>0, <2>3, <2>8 DEF ClientInv, ClientMoves, Asking
  <2>. QED
    BY <2>2, <2>4, <2>5, <2>6, <2>7, <2>8
<1>4. CASE DeviceAnswers \/ Gateware
  BY <1>1, <1>4, DeviceFrame
<1>. QED
  BY <1>1, <1>2, <1>3, <1>4 DEF Next, Closed, vars, hostVars

(* The numbers that a register and its baseline make. *)
LEMMA WordFacts ==
    ASSUME NEW v \in Words, NEW b \in Nat
    PROVE  v \in Nat /\ 0 \in Words /\ Since(v, b) \in Words
<1>1. IdleBit + MaxTx \in Nat
  BY GlasgowBounds
<1>. QED
  BY <1>1 DEF Words, Since

\* The answer that completes a step of the guard's part of open.
LEMMA ProfileAnswer ==
    ASSUME GlasgowIInv, life \in Commanding, Receive, Good
    PROVE  /\ call.op = OpOf(life)
           /\ life \in {"errors", "overflow"} => Value \in Words /\ Value \in Nat
           /\ life \in Setup => Truth(call.op, Head(answers).result)
<1>1. PipeInv /\ CallInv /\ OwnAnswer /\ Undisturbed /\ call # NoCommand
  BY DEF GlasgowIInv, Receive
<1>2. call.op = OpOf(life)
  BY <1>1 DEF CallInv, Commanding, Guarded, TurnOff
<1>3. ASSUME life \in {"errors", "overflow"} PROVE Value \in Words /\ Value \in Nat
  <2>1. Shape(call.op) = "word"
    BY <1>2, <1>3 DEF OpOf, Shape
  <2>2. Value \in Words
    BY <1>1, <2>1, GoodAnswer
  <2>. QED
    BY <2>2, WordFacts
<1>4. life \in Setup => failures < Period
  BY <1>1, SetupPipe
<1>. QED
  BY <1>1, <1>2, <1>3, <1>4, OwnTruth

(* The host's state stays within its types. *)
LEMMA HostTypeStep == ASSUME GlasgowIInv, [Next]_vars PROVE HostTypeOK'
<1>0. HostTypeOK /\ PipeInv /\ MaxPolls \in Nat
  BY GlasgowBounds DEF GlasgowIInv
<1>1. CASE Open
  <2>1. /\ word' = word /\ published' = published /\ poll' = poll /\ mgmt' = mgmt
        /\ divisor' = divisor /\ supply' = supply /\ pulls' = pulls
        /\ life' \in Setup \cup {"open"} \cup Ending
    BY <1>0, <1>1, OpenFrame, OpenMoves
  <2>2. polls' \in 0 .. MaxPolls
    <3>1. polls \in 0 .. MaxPolls
      BY <1>0 DEF HostTypeOK
    <3>2. CASE Listing \/ OpenStatus \/ OpenFinish
      BY <1>0, <3>1, <3>2 DEF Listing, OpenStatus, OpenFinish, PollAgain
    <3>3. CASE Firmware \/ Upload
      BY <1>0, <3>3 DEF Firmware, Upload
    <3>4. CASE ~(Listing \/ OpenStatus \/ OpenFinish \/ Firmware \/ Upload)
      <4>1. polls' = polls
        BY <1>1, <3>4 DEF Open, Pipes, OpenCommand, OpenTimeout, OpenRejected, OpenProfile,
              Close, Drop
      <4>. QED
        BY <3>1, <4>1
    <3>. QED
      BY <3>2, <3>3, <3>4
  <2>3. /\ firmware' \in {"ours", "other"} /\ pipes' \in BOOLEAN
    BY <1>0, <1>1 DEF Open, Firmware, Listing, Upload, Pipes, OpenCommand, OpenTimeout,
          OpenRejected, OpenStatus, OpenFinish, OpenProfile, Close, Drop, HostTypeOK, deviceVars
  <2>4. offFailed' \in BOOLEAN
    <3>1. offFailed' = offFailed \/ offFailed' = (offFailed \/ OpOf(life) = "volts_off")
      BY <1>1 DEF Open, Firmware, Listing, Upload, Pipes, OpenCommand, OpenTimeout,
            OpenRejected, OpenStatus, OpenFinish, OpenProfile, Close, Drop, OffLost, history
    <3>. QED
      BY <1>0, <3>1, Zenon DEF HostTypeOK
  <2>5. CASE OpenProfile
    <3>1. vio' = (vio \/ SupplyKnown(life)) /\ vio' \in BOOLEAN
      BY <2>5, Zenon DEF OpenProfile
    <3>2. lit' \in {"no", "switched", "confirmed"}
      BY <1>0, <2>5 DEF OpenProfile, HostTypeOK
    <3>3. base' \in [errors : Nat, overflow : Nat]
      <4>1. life \in {"errors", "overflow"} => Value \in Nat
        BY <2>5, ProfileAnswer DEF OpenProfile, Commanding
      <4>2. base' = IF life \in {"errors", "overflow"} THEN [base EXCEPT ![life] = Value] ELSE base
        BY <2>5 DEF OpenProfile
      <4>. QED
        BY <1>0, <4>1, <4>2 DEF HostTypeOK
    <3>. QED
      BY <1>0, <2>1, <2>2, <2>3, <2>4, <3>1, <3>2, <3>3 DEF HostTypeOK
  <2>6. CASE ~OpenProfile
    <3>1. vio' = vio /\ base' = base /\ lit' = lit
      BY <1>1, <2>6 DEF Open, Firmware, Listing, Upload, Pipes, OpenCommand, OpenTimeout,
            OpenRejected, OpenStatus, OpenFinish, Close, Drop, profileVars, history
    <3>. QED
      BY <1>0, <2>1, <2>2, <2>3, <2>4, <3>1 DEF HostTypeOK
  <2>. QED
    BY <2>5, <2>6
<1>2. CASE Refresh \/ TxWorker
  <2>1. UNCHANGED <<life, polls, vio, base, firmware, fpga, divisor, supply, pulls, pipes,
                    offFailed, lit>>
    BY <1>2, ClientFrame
  <2>2. CASE TxWorker
    <3>1. /\ word' = word /\ published' = published /\ poll' = poll
          /\ mgmt' \in {mgmt, "none", "tx"}
      BY <2>2 DEF TxWorker, TxByte, DrainFlush, DrainLock, DrainCommand, DrainFails, DrainState,
                  hostVars
    <3>. QED
      BY <1>0, <2>1, <3>1 DEF HostTypeOK, Clients
  <2>3. CASE Refresh
    <3>. PICK c \in {"rx", "co"} : \/ RefreshPoll(c) \/ RefreshLock(c) \/ RefreshCommand(c)
                                   \/ RefreshTimeout(c) \/ RefreshRejected(c)
                                   \/ RefreshErrors(c) \/ RefreshStore(c)
      BY <2>3 DEF Refresh
    <3>1. poll' \in {poll, "none", c} /\ mgmt' \in {mgmt, "none", c}
      BY DEF RefreshPoll, RefreshLock, RefreshCommand, RefreshTimeout, RefreshRejected,
             RefreshErrors, RefreshStore, RefreshEnds
    <3>2. ASSUME Receive, Good, step[c] \in {"errors", "overflow"} PROVE Value \in Words
      <4>1. mgmt = c /\ life = "open" /\ call # NoCommand
        BY <3>2 DEF GlasgowIInv, ClientInv, Asking, Clients, Receive
      <4>2. call.op = step[c]
        BY <4>1 DEF GlasgowIInv, CallInv, Commanding, Guarded, TurnOff
      <4>3. Shape(call.op) = "word"
        BY <3>2, <4>2 DEF Shape
      <4>. QED
        BY <1>0, <3>2, <4>3, GoodAnswer
    <3>3. CASE RefreshErrors(c)
      <4>1. word' \in Words /\ published' = published
        BY <3>2, <3>3 DEF RefreshErrors
      <4>. QED
        BY <1>0, <2>1, <3>1, <4>1 DEF HostTypeOK, Clients
    <3>4. CASE RefreshStore(c)
      <4>1. Value \in Words /\ word' = word
            /\ published' = [errors |-> Since(word, base.errors),
                             overflow |-> Since(Value, base.overflow)]
        BY <3>2, <3>4 DEF RefreshStore
      <4>2. word \in Words /\ base.errors \in Nat /\ base.overflow \in Nat
        BY <1>0 DEF HostTypeOK
      <4>3. published' \in [errors : Words, overflow : Words]
        BY <4>1, <4>2, WordFacts
      <4>. QED
        BY <1>0, <2>1, <3>1, <4>1, <4>3 DEF HostTypeOK, Clients
    <3>5. CASE ~(RefreshErrors(c) \/ RefreshStore(c))
      <4>1. word' = word /\ published' = published
        BY <3>5 DEF RefreshPoll, RefreshLock, RefreshCommand, RefreshTimeout, RefreshRejected
      <4>. QED
        BY <1>0, <2>1, <3>1, <4>1 DEF HostTypeOK, Clients
    <3>. QED
      BY <3>3, <3>4, <3>5
  <2>. QED
    BY <1>2, <2>2, <2>3
<1>3. CASE DeviceAnswers \/ Gateware
  <2>1. UNCHANGED <<life, polls, vio, base, step, poll, mgmt, word, published, firmware, pipes>>
    BY <1>3, DeviceFrame
  <2>2. divisor' \in BOOLEAN /\ supply' \in BOOLEAN /\ pulls' \in BOOLEAN /\ offFailed' \in BOOLEAN
    <3>1. divisor \in BOOLEAN /\ supply \in BOOLEAN /\ pulls \in BOOLEAN /\ offFailed \in BOOLEAN
      BY <1>0 DEF HostTypeOK
    <3>2. CASE Gateware
      BY <3>1, <3>2 DEF Gateware, history
    <3>3. CASE DeviceAnswers
      <4>. DEFINE op == Head(wire).op
      <4>1. \/ UNCHANGED <<divisor, supply, pulls>>
            \/ /\ divisor' = (divisor \/ op = "baud")
               /\ supply' = (op = "volts_on" \/ (supply /\ op # "volts_off"))
               /\ pulls' = (op = "pulls_on" \/ (pulls /\ op # "pulls_off"))
        BY <3>3 DEF DeviceAnswers, Effect
      <4>2. offFailed' = offFailed \/ offFailed' = (offFailed \/ op = "volts_off")
        BY <3>3 DEF DeviceAnswers, OffLost, history
      <4>3. divisor' \in BOOLEAN
        BY <3>1, <4>1, Zenon
      <4>4. supply' \in BOOLEAN
        BY <3>1, <4>1, Zenon
      <4>5. pulls' \in BOOLEAN
        BY <3>1, <4>1, Zenon
      <4>6. offFailed' \in BOOLEAN
        BY <3>1, <4>2, Zenon
      <4>. QED
        BY <4>3, <4>4, <4>5, <4>6
    <3>. QED
      BY <1>3, <3>2, <3>3
  <2>3. lit' \in {"no", "switched", "confirmed"}
    BY <1>0, <1>3 DEF HostTypeOK, DeviceAnswers, Gateware, Effect, history
  <2>. QED
    BY <1>0, <2>1, <2>2, <2>3 DEF HostTypeOK
<1>4. CASE UNCHANGED vars
  BY <1>0, <1>4 DEF HostTypeOK, vars, hostVars, deviceVars, history
<1>. QED
  BY <1>1, <1>2, <1>3, <1>4 DEF Next, Closed

(* The command awaited is that of the host's step. *)
LEMMA CallInvStep == ASSUME GlasgowIInv, [Next]_vars PROVE CallInv'
<1>0. CallInv /\ ClientInv /\ HostTypeOK /\ PipeInv
  BY DEF GlasgowIInv
<1>1. ASSUME call' = call, UNCHANGED <<life, step, mgmt>> PROVE CallInv'
  BY <1>0, <1>1 DEF CallInv, OpOf
<1>2. ASSUME call' = NoCommand PROVE CallInv'
  BY <1>2 DEF CallInv
<1>3. ASSUME NEW op, Write(op) PROVE call'.op = op /\ call = NoCommand
  BY <1>3 DEF Write, Command
<1>4. CASE Open
  <2>1. CASE OpenTimeout \/ OpenRejected \/ OpenStatus \/ OpenFinish \/ OpenProfile
    BY <1>2, <2>1 DEF OpenTimeout, OpenRejected, OpenStatus, OpenFinish, OpenProfile, Receive,
                      Timeout
  <2>2. CASE OpenCommand
    <3>1. CASE Write(OpOf(life)) /\ life' = life
      BY <1>3, <2>2, <3>1 DEF OpenCommand, CallInv, OpOf
    <3>2. CASE WriteFails(OpOf(life))
      BY <1>2, <3>2 DEF WriteFails
    <3>. QED
      BY <2>2, <3>1, <3>2 DEF OpenCommand
  <2>3. CASE Firmware \/ Listing \/ Upload \/ Pipes \/ Close \/ Drop
    <3>1. call' = call
      BY <2>3 DEF Firmware, Listing, Upload, Pipes, Close, Drop, pipeVars
    <3>2. life \notin Commanding
      BY <2>3 DEF Firmware, Listing, Upload, Pipes, Close, Drop, Commanding, Guarded, TurnOff
    <3>3. life = "open" => mgmt = "none"
      BY <1>0, <2>3 DEF Firmware, Listing, Upload, Pipes, Close, Drop, ClientInv, HostTypeOK,
                        Clients, Asking
    <3>4. call = NoCommand
      BY <1>0, <3>2, <3>3 DEF CallInv
    <3>. QED
      BY <1>2, <3>1, <3>4
  <2>. QED
    BY <1>4, <2>1, <2>2, <2>3 DEF Open
<1>5. CASE Refresh
  <2>. PICK c \in {"rx", "co"} : \/ RefreshPoll(c) \/ RefreshLock(c) \/ RefreshCommand(c)
                                 \/ RefreshTimeout(c) \/ RefreshRejected(c)
                                 \/ RefreshErrors(c) \/ RefreshStore(c)
    BY <1>5 DEF Refresh
  <2>0. life' = life /\ c \in Clients /\ (life = "open" => life \notin Commanding)
    BY <1>5, ClientFrame DEF Clients, Commanding, Guarded, TurnOff
  <2>1. CASE RefreshTimeout(c) \/ RefreshRejected(c) \/ RefreshErrors(c) \/ RefreshStore(c)
    BY <1>2, <2>1 DEF RefreshTimeout, RefreshRejected, RefreshErrors, RefreshStore, Receive,
                      Timeout
  <2>2. CASE RefreshPoll(c)
    <3>1. /\ life = "open" /\ mgmt' = mgmt /\ call' = call /\ step[c] = "idle"
          /\ step' = [step EXCEPT ![c] = "poll"]
      BY <2>2 DEF RefreshPoll, Goto, pipeVars
    <3>2. mgmt # c
      BY <1>0, <2>0, <3>1 DEF ClientInv, Asking
    <3>3. mgmt # "none" => step'[mgmt] = step[mgmt]
      BY <1>0, <3>1, <3>2 DEF ClientInv, HostTypeOK
    <3>. QED
      BY <1>0, <2>0, <3>1, <3>3 DEF CallInv
  <2>3. CASE RefreshLock(c)
    <3>1. mgmt = "none" /\ call' = call /\ life = "open"
      BY <1>0, <2>0, <2>3 DEF RefreshLock, pipeVars, ClientInv
    <3>2. call = NoCommand
      BY <1>0, <2>0, <3>1 DEF CallInv
    <3>. QED
      BY <1>2, <3>1, <3>2
  <2>4. CASE RefreshCommand(c)
    <3>1. CASE Write(step[c]) /\ UNCHANGED <<step, poll, mgmt>>
      <4>1. mgmt = c /\ life = "open"
        BY <1>0, <2>0, <2>4 DEF RefreshCommand, ClientInv, Asking
      <4>. QED
        BY <1>3, <2>0, <3>1, <4>1 DEF CallInv, Clients
    <3>2. CASE WriteFails(step[c])
      BY <1>2, <3>2 DEF WriteFails
    <3>. QED
      BY <2>4, <3>1, <3>2 DEF RefreshCommand
  <2>. QED
    BY <2>1, <2>2, <2>3, <2>4
<1>6. CASE TxWorker
  <2>0. life' = life /\ "tx" \in Clients /\ (life = "open" => life \notin Commanding)
    BY <1>6, ClientFrame DEF Clients, Commanding, Guarded, TurnOff
  <2>1. CASE DrainFails \/ DrainState
    BY <1>2, <2>1 DEF DrainFails, DrainState, Receive, Timeout
  <2>2. CASE TxByte
    BY <1>1, <2>2 DEF TxByte, hostVars, pipeVars
  <2>3. CASE DrainFlush
    <3>1. /\ life = "open" /\ mgmt' = mgmt /\ call' = call /\ step["tx"] = "idle"
          /\ \E t \in {"poll", "failed"} : step' = [step EXCEPT !["tx"] = t]
      BY <2>3 DEF DrainFlush, Goto, pipeVars
    <3>2. mgmt # "tx"
      BY <1>0, <2>0, <3>1 DEF ClientInv, Asking
    <3>3. mgmt # "none" => step'[mgmt] = step[mgmt]
      BY <1>0, <3>1, <3>2 DEF ClientInv, HostTypeOK
    <3>. QED
      BY <1>0, <2>0, <3>1, <3>3 DEF CallInv
  <2>4. CASE DrainLock
    <3>1. mgmt = "none" /\ call' = call /\ life = "open"
      BY <1>0, <2>0, <2>4 DEF DrainLock, pipeVars, ClientInv
    <3>2. call = NoCommand
      BY <1>0, <2>0, <3>1 DEF CallInv
    <3>. QED
      BY <1>2, <3>1, <3>2
  <2>5. CASE DrainCommand
    <3>1. CASE Write("tx_state") /\ UNCHANGED <<step, mgmt>>
      <4>1. mgmt = "tx" /\ life = "open" /\ step["tx"] = "tx_state"
        BY <1>0, <2>0, <2>5 DEF DrainCommand, ClientInv, Asking
      <4>. QED
        BY <1>3, <2>0, <3>1, <4>1 DEF CallInv, Clients
    <3>2. CASE WriteFails("tx_state")
      BY <1>2, <3>2 DEF WriteFails
    <3>. QED
      BY <2>5, <3>1, <3>2 DEF DrainCommand
  <2>. QED
    BY <1>6, <2>1, <2>2, <2>3, <2>4, <2>5 DEF TxWorker
<1>7. CASE DeviceAnswers \/ Gateware
  <2>1. call' = call
    BY <1>7 DEF DeviceAnswers, Gateware, Answer, pipeVars
  <2>. QED
    BY <1>1, <1>7, <2>1, DeviceFrame
<1>. QED
  BY <1>1, <1>4, <1>5, <1>6, <1>7 DEF Next, Closed, vars, hostVars, pipeVars

(* The device's answer to a command is the truth. *)
LEMMA ReplyTruth ==
    ASSUME DeviceOK, DeviceAnswers, NEW op, op = Head(wire).op
    PROVE  \E result \in Results : /\ Answer(result) /\ Truth(op, result)'
                                   /\ result = Reg(IdleBit) =>
                                         op = "tx_state" /\ fifo = 0 /\ ~shifting
<1>0. /\ counts' = counts /\ fifo' = fifo /\ shifting' = shifting
      /\ counts.errors \in Nat /\ counts.overflow \in Nat
      /\ counts.errors < IdleBit /\ counts.overflow < IdleBit
      /\ fifo \in Nat /\ fifo < IdleBit /\ IdleBit \in Nat
  BY GlasgowBounds DEF DeviceAnswers, DeviceOK
<1>1. Refuse \in Results /\ Wait \in Results
  BY PipeAssumption DEF GlasgowResults
<1>2. /\ Refuse.kind = "error" /\ Wait.kind = "wait" /\ Ack.kind = "ack"
      /\ \A f : Id(f).kind = "id" /\ Id(f).value = f
      /\ \A v : Reg(v).kind = "word" /\ Reg(v).value = v
  BY DEF Refuse, Wait, Ack, Id, Reg
<1>3. CASE Answer(Refuse)
  BY <1>1, <1>2, <1>3 DEF Truth
<1>4. CASE Answer(Wait)
  BY <1>1, <1>2, <1>4 DEF Truth
<1>5. ASSUME NEW reply \in Replies(op), Answer(reply), Effect(op)
      PROVE  /\ reply \in Results /\ Truth(op, reply)'
             /\ reply = Reg(IdleBit) => op = "tx_state" /\ fifo = 0 /\ ~shifting
  <2>1. reply \in Results
    BY RepliesAreResults
  <2>2. CASE op = "status"
    <3>1. reply = Id(fpga) /\ fpga' = fpga
      BY <1>5, <2>2 DEF Replies, Effect
    <3>. QED
      BY <1>2, <2>1, <2>2, <3>1 DEF Truth
  <2>3. CASE op \in {"errors", "overflow"}
    <3>1. reply = Reg(counts[op]) /\ counts[op] <= counts'[op] /\ counts[op] # IdleBit
      BY <1>0, <2>3 DEF Replies
    <3>. QED
      BY <1>2, <2>1, <2>3, <3>1 DEF Truth
  <2>4. CASE op = "tx_state"
    <3>1. PICK v \in TxState : reply = Reg(v)
      BY <2>4 DEF Replies
    <3>2. v = IdleBit => fifo = 0 /\ ~shifting
      BY <1>0, <3>1 DEF TxState
    <3>. QED
      BY <1>2, <2>1, <2>4, <3>1, <3>2 DEF Truth
  <2>5. CASE op \notin {"status", "errors", "overflow", "tx_state"}
    <3>1. reply = Ack
      BY <2>5 DEF Replies
    <3>2. /\ op = "finish" => fpga' = Ours
          /\ op = "baud" => divisor'
          /\ op = "volts_on" => supply'
          /\ op = "pulls_on" => pulls'
      BY <1>5 DEF Effect
    <3>. QED
      BY <1>2, <2>1, <2>5, <3>1, <3>2 DEF Truth
  <2>. QED
    BY <2>2, <2>3, <2>4, <2>5
<1>. QED
  BY <1>3, <1>4, <1>5 DEF DeviceAnswers

(* The gateware's counters only grow. *)
LEMMA CountsGrow ==
    ASSUME DeviceOK, [Next]_vars
    PROVE  /\ counts.errors <= counts'.errors /\ counts.overflow <= counts'.overflow
           /\ counts.errors \in Nat /\ counts.overflow \in Nat
           /\ counts'.errors \in Nat /\ counts'.overflow \in Nat
<1>1. /\ counts.errors \in Nat /\ counts.overflow \in Nat
      /\ counts'.errors \in Nat /\ counts'.overflow \in Nat
  BY DeviceStep DEF DeviceOK
<1>2. CASE Gateware
  BY <1>1, <1>2 DEF Gateware, DeviceOK
<1>3. CASE ~Gateware
  <2>1. counts' = counts
    BY <1>3, OpenFrame, ClientFrame DEF Next, DeviceAnswers, Closed, vars, deviceVars
  <2>. QED
    BY <1>1, <2>1
<1>. QED
  BY <1>2, <1>3

(* A new command is the only one with its number. *)
LEMMA OwnAnswerNew ==
    ASSUME PipeInv, NEW op \in Ops, Write(op) PROVE OwnAnswer'
<1>. DEFINE new == Command(op)
<1>1. /\ wire' = Append(wire, new) /\ answers' = answers /\ call' = new /\ call = NoCommand
  BY DEF Write
<1>2. /\ new \in Commands /\ new.op = op /\ new.number = number + 1
  BY CommandFacts DEF PipeInv, Command
<1>. HIDE DEF new
<1>3. /\ Len(wire') = Len(wire) + 1 /\ \A i \in 1 .. Len(wire) : wire'[i] = wire[i]
      /\ wire'[Len(wire) + 1] = new /\ Len(wire) \in Nat
  BY <1>1, <1>2, PipeFacts, AppendFacts
<1>4. /\ \A i \in 1 .. Len(wire) : wire[i].number < number + 1
      /\ \A i \in 1 .. Len(answers) : answers[i].number < number + 1
  BY <1>1, CountedOn
<1>5. \A i \in 1 .. Len(wire') : i \in 1 .. Len(wire) \/ i = Len(wire) + 1
  BY <1>3
<1>6. \A i \in 1 .. Len(wire') : wire'[i].number = call'.number => wire'[i].op = call'.op
  BY <1>1, <1>2, <1>3, <1>4, <1>5, PipeFacts
<1>7. \A i \in 1 .. Len(answers') : answers'[i].number # call'.number
  BY <1>1, <1>2, <1>4, PipeFacts
<1>. QED
  BY <1>6, <1>7 DEF OwnAnswer

(* The answer to the command awaited tells the truth when it is read. *)
LEMMA OwnAnswerStep == ASSUME GlasgowIInv, [Next]_vars PROVE OwnAnswer'
<1>0. PipeInv /\ DeviceOK /\ CallInv /\ OwnAnswer
  BY DEF GlasgowIInv
<1>1. CASE DeviceAnswers
  <2>. SUFFICES ASSUME call' # NoCommand PROVE OwnAnswer'
    BY DEF OwnAnswer
  <2>1. PICK op : op = Head(wire).op
    OBVIOUS
  <2>2. PICK result \in Results : Answer(result) /\ Truth(op, result)'
    BY <1>0, <1>1, <2>1, ReplyTruth
  <2>3. /\ wire # <<>> /\ WireKept /\ 1 \in 1 .. Len(wire) /\ Head(wire) = wire[1] /\ call' = call
        /\ \A i \in 1 .. Len(answers') :
              \/ \E j \in 1 .. Len(answers) : answers'[i] = answers[j]
              \/ answers'[i].result = result /\ answers'[i].number = wire[1].number
    BY <1>0, <2>2, AnsweredPipe
  <2>4. \A j \in 1 .. Len(answers) : answers[j].number # call.number
    <3>1. call.number = number /\ wire[1].number <= number
      BY <1>0, <2>3, PipeFacts DEF PipeInv, Awaited, Tracked, Law
    <3>2. \A j \in 1 .. Len(answers) : answers[j].number < wire[1].number
      BY <1>0, <2>3 DEF PipeInv, Ordered
    <3>. QED
      BY <1>0, <2>3, <3>1, <3>2, PipeFacts
  <2>5. \A i \in 1 .. Len(wire') : wire'[i].number = call'.number => wire'[i].op = call'.op
    BY <1>0, <2>3 DEF WireKept, OwnAnswer
  <2>6. ASSUME NEW i \in 1 .. Len(answers'), answers'[i].number = call'.number
        PROVE  Truth(call.op, answers[i].result)'
    <3>1. answers'[i].result = result /\ wire[1].number = call.number
      BY <2>3, <2>4, <2>6
    <3>2. call'.op = op
      BY <1>0, <2>1, <2>3, <3>1 DEF OwnAnswer
    <3>. QED
      BY <2>2, <3>1, <3>2 DEF Truth
  <2>. QED
    BY <2>5, <2>6 DEF OwnAnswer
<1>2. ASSUME call' = NoCommand PROVE OwnAnswer'
  BY <1>2 DEF OwnAnswer
<1>3. ASSUME UNCHANGED pipeVars, ~(Firmware \/ Upload), ~DeviceAnswers PROVE OwnAnswer'
  <2>1. fpga' = fpga /\ divisor' = divisor /\ supply' = supply /\ pulls' = pulls
    <3>1. CASE Open
      BY <1>3, <3>1 DEF Open, Listing, Pipes, OpenCommand, OpenTimeout, OpenRejected, OpenStatus,
            OpenFinish, OpenProfile, Close, Drop, deviceVars
    <3>. QED
      BY <1>3, <3>1, ClientFrame DEF Next, Gateware, Closed, vars, deviceVars
  <2>2. counts.errors <= counts'.errors /\ counts.overflow <= counts'.overflow
        /\ counts.errors \in Nat /\ counts.overflow \in Nat
        /\ counts'.errors \in Nat /\ counts'.overflow \in Nat
    BY <1>0, CountsGrow
  <2>3. ASSUME NEW i \in 1 .. Len(answers), Truth(call.op, answers[i].result), call # NoCommand
        PROVE  Truth(call.op, answers[i].result)'
    <3>1. UNCHANGED <<call, answers>>
      BY <1>3 DEF pipeVars
    <3>2. ASSUME call.op \in {"errors", "overflow"}, answers[i].result.kind = "word"
          PROVE  answers[i].result.value <= counts'[call.op]
      <4>1. answers[i].result.value <= counts[call.op]
        BY <2>3, <3>2 DEF Truth
      <4>2. answers[i].result.value \in Nat
        <5>1. answers[i].result \in GlasgowResults
          <6>1. answers \in Seq(Answers) /\ Results = GlasgowResults
            BY <1>0, PipeFacts, PipeAssumption
          <6>2. answers[i] \in Answers
            BY <6>1
          <6>. QED
            BY <6>1, <6>2 DEF Answers
        <5>2. answers[i].result.value \in Nat
          BY <5>1, WordFacts DEF GlasgowResults, Ack, Wait, Refuse, Id, Reg, Blank, Ours, Other
        <5>. QED
          BY <5>2
      <4>. QED
        BY <2>2, <3>2, <4>1, <4>2
    <3>. QED
      BY <2>1, <2>3, <3>1, <3>2 DEF Truth
  <2>. QED
    BY <1>0, <1>3, <2>3 DEF OwnAnswer, pipeVars
<1>4. CASE Firmware \/ Upload
  <2>1. call' = call /\ life \notin Commanding /\ life # "open"
    BY <1>4 DEF Firmware, Upload, pipeVars, Commanding, Guarded, TurnOff
  <2>2. call = NoCommand
    BY <1>0, <2>1 DEF CallInv
  <2>. QED
    BY <1>2, <2>1, <2>2
<1>5. CASE ~DeviceAnswers /\ ~(Firmware \/ Upload)
  <2>1. [PipeNext]_pipeVars
    BY <1>0, PipeStep
  <2>2. ASSUME NEW op \in Ops, Write(op) \/ WriteFails(op) PROVE OwnAnswer'
    BY <1>0, <1>2, <2>2, OwnAnswerNew DEF WriteFails
  <2>3. CASE Receive \/ Timeout
    BY <1>2, <2>3 DEF Receive, Timeout
  <2>4. CASE UNCHANGED pipeVars
    BY <1>3, <1>5, <2>4
  <2>5. ASSUME NEW result \in Results, Answer(result) PROVE FALSE
    <3>1. number' = number /\ wire # <<>> /\ wire' = Tail(wire)
      BY <2>5 DEF Answer
    <3>2. wire' # wire
      <4>1. Len(wire') = Len(wire) - 1 /\ Len(wire) \in Nat
        BY <1>0, <3>1, PipeFacts, TailFacts
      <4>2. Len(wire') # Len(wire)
        BY <4>1
      <4>. QED
        BY <4>2, Zenon
    <3>3. ASSUME NEW op \in Ops, Write(op) \/ WriteFails(op) PROVE FALSE
      BY <1>0, <3>1, <3>3, PipeFacts DEF Write, WriteFails
    <3>4. ~Receive /\ ~Timeout
      BY <3>2 DEF Receive, Timeout
    <3>5. ~UNCHANGED pipeVars
      BY <3>2 DEF pipeVars
    <3>6. CASE Open
      <4>1. Write(OpOf(life)) \/ WriteFails(OpOf(life))
        BY <3>4, <3>5, <3>6 DEF Open, Firmware, Listing, Upload, Pipes, OpenCommand, OpenTimeout,
              OpenRejected, OpenStatus, OpenFinish, OpenProfile, Close, Drop
      <4>. QED
        BY <1>0, <3>1, <4>1, PipeFacts DEF Write, WriteFails
    <3>7. CASE Refresh
      <4>1. \E c \in {"rx", "co"} : Write(step[c]) \/ WriteFails(step[c])
        BY <3>4, <3>5, <3>7 DEF Refresh, RefreshPoll, RefreshLock, RefreshCommand, RefreshTimeout,
              RefreshRejected, RefreshErrors, RefreshStore
      <4>. QED
        BY <1>0, <3>1, <4>1, PipeFacts DEF Write, WriteFails
    <3>8. CASE TxWorker
      <4>1. Write("tx_state") \/ WriteFails("tx_state")
        BY <3>4, <3>5, <3>8 DEF TxWorker, TxByte, DrainFlush, DrainLock, DrainCommand, DrainFails,
              DrainState
      <4>. QED
        BY <1>0, <3>1, <4>1, PipeFacts DEF Write, WriteFails
    <3>. QED
      BY <1>5, <3>5, <3>6, <3>7, <3>8 DEF Next, Gateware, Closed, vars
  <2>. QED
    BY <2>1, <2>2, <2>3, <2>4, <2>5 DEF PipeNext
<1>. QED
  BY <1>1, <1>4, <1>5

(* What is new in the pipe. *)
LEMMA WireStep ==
    ASSUME GlasgowIInv, [Next]_vars
    PROVE  /\ \A i \in 1 .. Len(wire') :
                 \/ \E j \in 1 .. Len(wire) : wire'[i] = wire[j]
                 \/ OpenCommand /\ wire'[i].op = OpOf(life)
                 \/ Refresh /\ wire'[i].op \in {"errors", "overflow"}
                 \/ DrainCommand /\ wire'[i].op = "tx_state"
           /\ \A i \in 1 .. Len(answers') :
                 \/ \E j \in 1 .. Len(answers) : answers'[i] = answers[j]
                 \/ /\ DeviceAnswers /\ wire # <<>>
                    /\ answers'[i].result = Reg(IdleBit)
                          => Head(wire).op = "tx_state" /\ fifo = 0 /\ ~shifting
<1>0. PipeInv /\ DeviceOK /\ Ops = GlasgowOps
  BY PipeAssumption DEF GlasgowIInv
<1>1. CASE UNCHANGED pipeVars \/ Receive \/ Timeout
  BY <1>0, <1>1, TakenPipe DEF pipeVars, AnswersKept
<1>2. CASE DeviceAnswers
  <2>1. PICK op : op = Head(wire).op
    OBVIOUS
  <2>2. PICK result \in Results : /\ Answer(result)
                                  /\ result = Reg(IdleBit) =>
                                        op = "tx_state" /\ fifo = 0 /\ ~shifting
    BY <1>0, <1>2, <2>1, ReplyTruth
  <2>3. /\ wire # <<>> /\ WireKept
        /\ \A i \in 1 .. Len(answers') :
              \/ \E j \in 1 .. Len(answers) : answers'[i] = answers[j]
              \/ answers'[i].result = result /\ answers'[i].number = wire[1].number
    BY <1>0, <2>2, AnsweredPipe
  <2>. QED
    BY <1>2, <2>1, <2>2, <2>3 DEF WireKept
<1>3. CASE Open
  <2>1. OpOf(life) \in Ops \/ ~OpenCommand
    BY <1>0 DEF OpenCommand, OpOf, Commanding, Guarded, TurnOff, GlasgowOps
  <2>2. CASE OpenCommand
    <3>1. WireGrows(OpOf(life)) /\ AnswersKept
      BY <1>0, <2>1, <2>2, TriedPipe DEF OpenCommand
    <3>. QED
      BY <2>2, <3>1 DEF WireGrows, AnswersKept
  <2>3. CASE ~OpenCommand
    BY <1>1, <1>3, <2>3 DEF Open, Firmware, Listing, Upload, Pipes, OpenTimeout, OpenRejected,
          OpenStatus, OpenFinish, OpenProfile, Close, Drop
  <2>. QED
    BY <2>2, <2>3
<1>4. CASE Refresh
  <2>. PICK c \in {"rx", "co"} : \/ RefreshPoll(c) \/ RefreshLock(c) \/ RefreshCommand(c)
                                 \/ RefreshTimeout(c) \/ RefreshRejected(c)
                                 \/ RefreshErrors(c) \/ RefreshStore(c)
    BY <1>4 DEF Refresh
  <2>1. CASE RefreshCommand(c)
    <3>1. step[c] \in Ops /\ step[c] \in {"errors", "overflow"}
      BY <1>0, <2>1 DEF RefreshCommand, GlasgowOps
    <3>2. WireGrows(step[c]) /\ AnswersKept
      BY <1>0, <2>1, <3>1, TriedPipe DEF RefreshCommand
    <3>. QED
      BY <1>4, <3>1, <3>2 DEF WireGrows, AnswersKept
  <2>2. CASE ~RefreshCommand(c)
    BY <1>1, <2>2 DEF RefreshPoll, RefreshLock, RefreshTimeout, RefreshRejected, RefreshErrors,
          RefreshStore
  <2>. QED
    BY <2>1, <2>2
<1>5. CASE TxWorker
  <2>1. CASE DrainCommand
    <3>1. "tx_state" \in Ops
      BY <1>0 DEF GlasgowOps
    <3>2. WireGrows("tx_state") /\ AnswersKept
      BY <1>0, <2>1, <3>1, TriedPipe DEF DrainCommand
    <3>. QED
      BY <2>1, <3>2 DEF WireGrows, AnswersKept
  <2>2. CASE ~DrainCommand
    BY <1>1, <1>5, <2>2 DEF TxWorker, TxByte, DrainFlush, DrainLock, DrainFails, DrainState
  <2>. QED
    BY <2>1, <2>2
<1>. QED
  BY <1>1, <1>2, <1>3, <1>4, <1>5 DEF Next, Gateware, Closed, vars

(* open goes on only while nothing fails, and only on our firmware. *)
LEMMA UndisturbedStep == ASSUME GlasgowIInv, [Next]_vars PROVE Undisturbed'
<1>0. Undisturbed /\ HostTypeOK /\ number \in Nat
  BY PipeFacts DEF GlasgowIInv
<1>1. CASE Firmware
  <2>1. UNCHANGED <<published, number, failures>> /\ number = 0 /\ life \in Setup
    BY <1>0, <1>1 DEF Firmware, clientVars, pipeVars, Undisturbed, Setup
  <2>2. life' \in {"listing", "closed"} \/ (life' = "status" /\ firmware' = "ours")
    BY <1>1 DEF Firmware
  <2>. QED
    BY <1>0, <2>1, <2>2 DEF Undisturbed
<1>2. CASE Listing
  <2>1. UNCHANGED <<published, number, failures, firmware>> /\ number = 0 /\ life \in Setup
    BY <1>0, <1>2 DEF Listing, clientVars, pipeVars, deviceVars, Undisturbed, Setup
  <2>2. life' \in {"listing", "closed"} \/ (life' = "status" /\ firmware = "ours")
    BY <1>2 DEF Listing, Compatible
  <2>. QED
    BY <1>0, <2>1, <2>2 DEF Undisturbed
<1>3. CASE Open /\ ~(Firmware \/ Listing)
  <2>1. /\ published' = published /\ firmware' = firmware
        /\ life \notin {"firmware", "listing"} /\ life' \notin {"firmware", "listing"}
    <3>1. CASE Upload \/ Pipes \/ Close \/ Drop
      BY <3>1 DEF Upload, Pipes, Close, Drop, clientVars, deviceVars
    <3>2. CASE OpenCommand \/ OpenTimeout \/ OpenRejected
      BY <3>2 DEF OpenCommand, OpenTimeout, OpenRejected, clientVars, deviceVars, Commanding,
                  Guarded, TurnOff, Broken
    <3>3. CASE OpenStatus \/ OpenFinish
      BY <3>3 DEF OpenStatus, OpenFinish, clientVars, deviceVars
    <3>4. CASE OpenProfile
      BY <3>4 DEF OpenProfile, clientVars, deviceVars, Guarded, TurnOff, After
    <3>. QED
      BY <1>3, <3>1, <3>2, <3>3, <3>4 DEF Open
  <2>2. life # "closed"
    BY <1>0, <1>3, OpenMoves
  <2>3. firmware = "ours"
    BY <1>0, <2>1, <2>2 DEF Undisturbed
  <2>4. life' \in Setup => failures' = failures /\ life \in Setup
    <3>1. life' \in Setup => life \in Setup
      BY <1>0, <1>3, OpenMoves
    <3>2. CASE OpenCommand \/ OpenTimeout
      <4>1. failures' = failures \/ life' = Broken(life)
        BY <3>2 DEF OpenCommand, OpenTimeout, Write
      <4>2. life \in Commanding /\ Broken(life) \notin Setup
        BY <3>2 DEF OpenCommand, OpenTimeout, Broken, Setup, Guarded, TurnOff
      <4>. QED
        BY <3>1, <4>1, <4>2
    <3>3. CASE ~(OpenCommand \/ OpenTimeout)
      BY <1>3, <3>1, <3>3 DEF Open, Upload, Pipes, OpenRejected, OpenStatus, OpenFinish,
            OpenProfile, Close, Drop, Receive, pipeVars
    <3>. QED
      BY <3>2, <3>3
  <2>. QED
    BY <1>0, <2>1, <2>3, <2>4 DEF Undisturbed
<1>4. CASE Refresh \/ TxWorker
  <2>1. life = "open" /\ life' = life /\ firmware' = firmware
    BY <1>4, ClientFrame, ClientSteps DEF GlasgowIInv
  <2>2. "open" \notin Setup
    BY DEF Setup, Guarded
  <2>. QED
    BY <1>0, <2>1, <2>2 DEF Undisturbed
<1>5. CASE DeviceAnswers \/ Gateware
  <2>1. life' = life /\ firmware' = firmware /\ published' = published
    BY <1>5, DeviceFrame
  <2>2. number' = number /\ failures' = failures
    BY <1>5 DEF DeviceAnswers, Gateware, Answer, pipeVars
  <2>. QED
    BY <1>0, <2>1, <2>2 DEF Undisturbed
<1>6. CASE UNCHANGED vars
  BY <1>0, <1>6 DEF Undisturbed, vars, hostVars, deviceVars, pipeVars
<1>. QED
  BY <1>1, <1>2, <1>3, <1>4, <1>5, <1>6 DEF Next, Closed

(* What open has set stays set until the supply is switched off. *)
LEMMA ProgressStep == ASSUME GlasgowIInv, [Next]_vars PROVE Progress'
<1>0. /\ Progress /\ HostTypeOK /\ PipeInv /\ base.errors \in Nat /\ base.overflow \in Nat
      /\ counts.errors <= counts'.errors /\ counts.overflow <= counts'.overflow
      /\ counts.errors \in Nat /\ counts.overflow \in Nat
      /\ counts'.errors \in Nat /\ counts'.overflow \in Nat
  BY CountsGrow DEF GlasgowIInv, HostTypeOK
<1>1. \A i \in 1 .. Len(wire') : wire'[i].op \in TurnOff => life' \in Ending
  <2>. SUFFICES ASSUME NEW i \in 1 .. Len(wire'), wire'[i].op \in TurnOff
                PROVE  life' \in Ending
    OBVIOUS
  <2>1. life \in Ending => life' \in Ending
    <3>1. CASE Open
      BY <1>0, <3>1, OpenMoves
    <3>. QED
      BY <3>1, ClientFrame, DeviceFrame DEF Next, Closed, vars, hostVars
  <2>2. CASE \E j \in 1 .. Len(wire) : wire'[i] = wire[j]
    BY <1>0, <2>1, <2>2 DEF Progress
  <2>3. CASE OpenCommand /\ wire'[i].op = OpOf(life)
    <3>1. life \in TurnOff
      BY <2>3 DEF OpOf, TurnOff
    <3>. QED
      BY <2>1, <3>1 DEF Ending
  <2>4. wire'[i].op \notin {"errors", "overflow", "tx_state"}
    BY DEF TurnOff
  <2>. QED
    BY <2>2, <2>3, <2>4, WireStep
<1>2. ASSUME life' = life, base' = base, fpga' = fpga \/ fpga' = Ours, pipes' = pipes,
             divisor => divisor', life \notin Ending => (supply => supply') /\ (pulls => pulls')
      PROVE  Progress'
  <2>1. life \in {"pulls_on", "errors", "overflow", "open"} => life \notin Ending
    BY DEF Ending, TurnOff
  <2>. QED
    BY <1>0, <1>1, <1>2, <2>1 DEF Progress
<1>3. CASE Open
  <2>0. UNCHANGED <<divisor, supply, pulls, counts>>
    BY <1>3, OpenFrame
  <2>1. CASE OpenProfile
    <3>1. /\ life \in Commanding /\ Receive /\ Good /\ life' = After[life]
          /\ base' = IF life \in {"errors", "overflow"} THEN [base EXCEPT ![life] = Value]
                     ELSE base
          /\ life \in Guarded \cup TurnOff /\ fpga' = fpga /\ pipes' = pipes
      BY <2>1 DEF OpenProfile, Commanding, deviceVars
    <3>2. /\ call.op = OpOf(life)
          /\ life \in {"errors", "overflow"} => Value \in Nat
          /\ life \in Setup => Truth(call.op, Head(answers).result)
      BY <3>1, ProfileAnswer
    <3>3. Head(answers).result.kind = Shape(call.op) /\ Value = Head(answers).result.value
      BY <1>0, <3>1, GoodAnswer DEF Value
    <3>4. /\ life = "baud" => divisor
          /\ life = "volts_on" => supply
          /\ life = "pulls_on" => pulls
          /\ life \in {"errors", "overflow"} => Value <= counts[life]
      BY <3>2, <3>3 DEF Truth, OpOf, Shape, Setup, Guarded
    <3>5. base'.errors <= counts'.errors /\ base'.overflow <= counts'.overflow
      BY <1>0, <2>0, <3>1, <3>2, <3>4 DEF HostTypeOK, Progress
    <3>. QED
      BY <1>0, <1>1, <2>0, <3>1, <3>4, <3>5 DEF Progress, After, Guarded, TurnOff
  <2>2. CASE OpenStatus
    <3>1. /\ life \in Commanding /\ Receive /\ Good /\ life \in Setup
          /\ UNCHANGED <<base, fpga, pipes>> /\ life \in {"status", "check"}
          /\ life' = "pipes" => Value = Ours
          /\ life' \in {"pipes", "upload", "check", "closed"}
      BY <2>2 DEF OpenStatus, Commanding, Setup, profileVars, deviceVars
    <3>2. call.op = "status" /\ Truth(call.op, Head(answers).result)
      BY <3>1, ProfileAnswer DEF OpOf
    <3>3. Head(answers).result.kind = "id" /\ Value = Head(answers).result.value
      BY <1>0, <3>1, <3>2, GoodAnswer DEF Value, Shape
    <3>4. life' = "pipes" => fpga = Ours
      BY <3>1, <3>2, <3>3 DEF Truth
    <3>. QED
      BY <1>0, <1>1, <2>0, <3>1, <3>4 DEF Progress, Guarded
  <2>3. CASE Pipes
    <3>1. /\ UNCHANGED <<base, fpga>> /\ life = "pipes"
          /\ (life' = "baud" /\ pipes' = TRUE) \/ life' = "close"
      BY <2>3 DEF Pipes, profileVars
    <3>. QED
      BY <1>0, <1>1, <2>0, <3>1 DEF Progress, Guarded
  <2>4. CASE Firmware \/ Listing \/ Upload \/ OpenFinish \/ Close \/ Drop
    <3>1. /\ base' = base
          /\ life' \in {"status", "listing", "closed", "finish", "check", "volts_off"}
      BY <2>4 DEF Firmware, Listing, Upload, OpenFinish, Close, Drop, profileVars, Compatible
    <3>. QED
      BY <1>0, <1>1, <2>0, <3>1 DEF Progress, Guarded
  <2>5. CASE OpenCommand \/ OpenTimeout \/ OpenRejected
    <3>1. /\ UNCHANGED <<base, fpga, pipes>>
          /\ life' = life \/ life' \in {"volts_off", "close", "closed"}
      BY <2>5 DEF OpenCommand, OpenTimeout, OpenRejected, Broken, profileVars, deviceVars
    <3>. QED
      BY <1>0, <1>1, <2>0, <3>1 DEF Progress, Guarded
  <2>. QED
    BY <1>3, <2>1, <2>2, <2>3, <2>4, <2>5 DEF Open
<1>4. CASE Refresh \/ TxWorker
  BY <1>2, <1>4, ClientFrame
<1>5. CASE DeviceAnswers
  <2>1. UNCHANGED <<life, base, pipes>>
    BY <1>5, DeviceFrame
  <2>2. PICK op : op = Head(wire).op
    OBVIOUS
  <2>3. \/ UNCHANGED <<divisor, supply, pulls, fpga>>
        \/ Effect(op)
    BY <1>5, <2>2 DEF DeviceAnswers
  <2>4. life \notin Ending => op \notin TurnOff
    <3>1. wire # <<>> /\ 1 \in 1 .. Len(wire) /\ Head(wire) = wire[1]
      <4>1. wire # <<>> /\ wire \in Seq(Commands)
        BY <1>0, <1>5, PipeFacts DEF DeviceAnswers
      <4>. QED
        BY <4>1, TailFacts
    <3>. QED
      BY <1>0, <2>2, <3>1 DEF Progress
  <2>5. /\ fpga' = fpga \/ fpga' = Ours
        /\ divisor => divisor'
        /\ life \notin Ending => (supply => supply') /\ (pulls => pulls')
    <3>1. life \notin Ending => op # "volts_off" /\ op # "pulls_off"
      BY <2>4 DEF TurnOff
    <3>2. fpga' = fpga \/ fpga' = Ours
      BY <2>3 DEF Effect
    <3>3. divisor => divisor'
      BY <2>3, Zenon DEF Effect
    <3>4. life \notin Ending => (supply => supply')
      BY <2>3, <3>1, Zenon DEF Effect
    <3>5. life \notin Ending => (pulls => pulls')
      BY <2>3, <3>1, Zenon DEF Effect
    <3>. QED
      BY <3>2, <3>3, <3>4, <3>5
  <2>. QED
    BY <1>2, <2>1, <2>5
<1>6. CASE Gateware
  BY <1>2, <1>6, DeviceFrame DEF Gateware
<1>7. CASE UNCHANGED vars
  BY <1>2, <1>7 DEF vars, hostVars, deviceVars
<1>. QED
  BY <1>3, <1>4, <1>5, <1>6, <1>7 DEF Next, Closed

(* A command that is tried leaves the others in the pipe; one that is written is
   there. *)
LEMMA TriedKeeps ==
    ASSUME PipeInv, NEW op \in Ops, Write(op) \/ WriteFails(op)
    PROVE  /\ \A j \in 1 .. Len(wire) : \E i \in 1 .. Len(wire') : wire'[i] = wire[j]
           /\ Write(op) => \E i \in 1 .. Len(wire') : wire'[i].op = op
<1>1. /\ wire' \in {wire, Append(wire, Command(op))}
      /\ Write(op) => wire' = Append(wire, Command(op))
  BY DEF Write, WriteFails
<1>2. CASE wire' = wire /\ ~Write(op)
  BY <1>2
<1>3. CASE wire' = Append(wire, Command(op))
  <2>. DEFINE new == Command(op)
  <2>1. new \in Commands /\ new.op = op /\ wire \in Seq(Commands)
    BY CommandFacts, PipeFacts DEF PipeInv, Command
  <2>. HIDE DEF new
  <2>2. /\ Len(wire') = Len(wire) + 1 /\ Len(wire) \in Nat
        /\ \A i \in 1 .. Len(wire) : wire'[i] = wire[i]
        /\ wire'[Len(wire) + 1] = new
    BY <1>3, <2>1, AppendFacts DEF new
  <2>3. Len(wire) + 1 \in 1 .. Len(wire') /\ \A j \in 1 .. Len(wire) : j \in 1 .. Len(wire')
    BY <2>2
  <2>. QED
    BY <2>1, <2>2, <2>3
<1>. QED
  BY <1>1, <1>2, <1>3

\* The supply is off, or the command is on its way or lost.
SwitchedOff == offFailed \/ ~supply \/ \E i \in 1 .. Len(wire) : wire[i].op = "volts_off"

(* What is being done about the supply stays done. *)
LEMMA SwitchedOffStep ==
    ASSUME GlasgowIInv, [Next]_vars, vio, SwitchedOff
    PROVE  SwitchedOff'
<1>0. PipeInv /\ DeviceOK /\ SupplyInv
  BY DEF GlasgowIInv
<1>1. CASE ~DeviceAnswers
  <2>1. supply' = supply
    BY <1>1, OpenFrame, ClientFrame DEF Next, Gateware, Closed, vars, deviceVars
  <2>2. offFailed => offFailed'
    <3>1. offFailed' = offFailed \/ offFailed' = (offFailed \/ OpOf(life) = "volts_off")
      BY <1>1, ClientFrame DEF Next, Gateware, Closed, vars, Open, Firmware, Listing, Upload,
            Pipes, OpenCommand, OpenTimeout, OpenRejected, OpenStatus, OpenFinish, OpenProfile,
            Close, Drop, OffLost, history
    <3>. QED
      BY <3>1, Zenon
  <2>3. \A j \in 1 .. Len(wire) : \E i \in 1 .. Len(wire') : wire'[i] = wire[j]
    <3>1. CASE UNCHANGED pipeVars \/ Receive \/ Timeout
      BY <1>0, <3>1, TakenPipe DEF pipeVars
    <3>2. ASSUME NEW op \in Ops, Write(op) \/ WriteFails(op)
          PROVE  \A j \in 1 .. Len(wire) : \E i \in 1 .. Len(wire') : wire'[i] = wire[j]
      BY <1>0, <3>2, TriedKeeps
    <3>3. CASE Open
      <4>1. OpOf(life) \in Ops \/ ~OpenCommand
        BY PipeAssumption DEF OpenCommand, OpOf, Commanding, Guarded, TurnOff, GlasgowOps
      <4>2. CASE OpenCommand
        BY <3>2, <4>1, <4>2 DEF OpenCommand
      <4>3. CASE ~OpenCommand
        BY <3>1, <3>3, <4>3 DEF Open, Firmware, Listing, Upload, Pipes, OpenTimeout,
              OpenRejected, OpenStatus, OpenFinish, OpenProfile, Close, Drop
      <4>. QED
        BY <4>2, <4>3
    <3>4. CASE Refresh
      <4>. PICK c \in {"rx", "co"} : \/ RefreshPoll(c) \/ RefreshLock(c) \/ RefreshCommand(c)
                                     \/ RefreshTimeout(c) \/ RefreshRejected(c)
                                     \/ RefreshErrors(c) \/ RefreshStore(c)
        BY <3>4 DEF Refresh
      <4>1. CASE RefreshCommand(c)
        <5>1. step[c] \in Ops
          BY <4>1, PipeAssumption DEF RefreshCommand, GlasgowOps
        <5>. QED
          BY <3>2, <4>1, <5>1 DEF RefreshCommand
      <4>2. CASE ~RefreshCommand(c)
        BY <3>1, <4>2 DEF RefreshPoll, RefreshLock, RefreshTimeout, RefreshRejected,
              RefreshErrors, RefreshStore
      <4>. QED
        BY <4>1, <4>2
    <3>5. CASE TxWorker
      <4>1. "tx_state" \in Ops
        BY PipeAssumption DEF GlasgowOps
      <4>2. CASE DrainCommand
        BY <3>2, <4>1, <4>2 DEF DrainCommand
      <4>3. CASE ~DrainCommand
        BY <3>1, <3>5, <4>3 DEF TxWorker, TxByte, DrainFlush, DrainLock, DrainFails, DrainState
      <4>. QED
        BY <4>2, <4>3
    <3>. QED
      BY <1>1, <3>1, <3>3, <3>4, <3>5 DEF Next, Gateware, Closed, vars
  <2>. QED
    BY <2>1, <2>2, <2>3 DEF SwitchedOff
<1>2. CASE DeviceAnswers
  <2>1. PICK op : op = Head(wire).op
    OBVIOUS
  <2>2. PICK result \in Results : Answer(result)
    BY <1>0, <1>2, <2>1, ReplyTruth
  <2>3. /\ 1 \in 1 .. Len(wire) /\ Head(wire) = wire[1]
        /\ \A i \in 1 .. Len(wire) : i = 1 \/ \E j \in 1 .. Len(wire') : wire'[j] = wire[i]
    BY <1>0, <2>2, AnsweredPipe
  <2>4. op # "volts_on"
    BY <1>0, <2>1, <2>3 DEF SupplyInv
  <2>5. \/ Effect(op) /\ offFailed' = offFailed
        \/ supply' = supply /\ offFailed' = (offFailed \/ op = "volts_off")
        \/ supply' = supply /\ offFailed' = offFailed /\ op = "finish"
    BY <1>2, <2>1 DEF DeviceAnswers, OffLost, history
  <2>6. offFailed => offFailed'
    BY <2>5, Zenon
  <2>7. ~supply => ~supply'
    BY <2>4, <2>5, Zenon DEF Effect
  <2>8. ASSUME op = "volts_off" PROVE offFailed' \/ ~supply'
    <3>1. op # "volts_on" /\ op # "finish"
      BY <2>8
    <3>. QED
      BY <2>5, <2>8, <3>1, Zenon DEF Effect
  <2>9. ASSUME NEW i \in 1 .. Len(wire), wire[i].op = "volts_off"
        PROVE  SwitchedOff'
    <3>1. CASE i = 1
      BY <2>1, <2>3, <2>8, <2>9, <3>1 DEF SwitchedOff
    <3>2. CASE i # 1
      BY <2>3, <2>9, <3>2 DEF SwitchedOff
    <3>. QED
      BY <3>1, <3>2
  <2>. QED
    BY <2>6, <2>7, <2>9 DEF SwitchedOff
<1>. QED
  BY <1>1, <1>2

(* The guard's knowledge of the supply, and what it does about it. *)
LEMMA SupplyInvStep == ASSUME GlasgowIInv, [Next]_vars PROVE SupplyInv'
<1>0. /\ SupplyInv /\ HostTypeOK /\ PipeInv /\ ClientInv /\ CallInv /\ OwnAnswer /\ Undisturbed
      /\ (vio /\ (life \in {"pulls_off", "close", "closed"}
                  \/ (life = "volts_off" /\ call # NoCommand)) => SwitchedOff)
  BY DEF GlasgowIInv, SupplyInv, SwitchedOff
<1>1. SupplyInv' <=>
        /\ lit' = "confirmed" => vio'
        /\ life' \in Setup \ {"errors", "overflow"} => ~vio'
        /\ vio' => \A i \in 1 .. Len(wire') : wire'[i].op # "volts_on"
        /\ vio' /\ (life' \in {"pulls_off", "close", "closed"}
                    \/ (life' = "volts_off" /\ call' # NoCommand)) => SwitchedOff'
  BY DEF SupplyInv, SwitchedOff
<1>2. vio /\ SwitchedOff => SwitchedOff'
  BY SwitchedOffStep
\* Where the guard's knowledge is what it was.
<1>3. ASSUME vio' = vio, lit' = lit \/ lit' # "confirmed",
             life' \in Setup \ {"errors", "overflow"}
                 => life \in Setup \ {"errors", "overflow"}
      PROVE  /\ lit' = "confirmed" => vio'
             /\ life' \in Setup \ {"errors", "overflow"} => ~vio'
             /\ vio' => \A i \in 1 .. Len(wire') : wire'[i].op # "volts_on"
  <2>1. ASSUME vio, NEW i \in 1 .. Len(wire') PROVE wire'[i].op # "volts_on"
    <3>1. OpenCommand => OpOf(life) # "volts_on"
      <4>1. life = "volts_on" => life \in Setup \ {"errors", "overflow"}
        BY DEF Setup, Guarded
      <4>. QED
        BY <1>0, <2>1, <4>1 DEF SupplyInv, OpOf
    <3>. QED
      BY <1>0, <2>1, <3>1, WireStep DEF SupplyInv
  <2>. QED
    BY <1>0, <1>3, <2>1 DEF SupplyInv
<1>4. CASE Open
  <2>1. CASE OpenProfile
    <3>1. /\ life \in Guarded \cup TurnOff /\ Receive /\ Good /\ life' = After[life]
          /\ vio' = (vio \/ SupplyKnown(life))
          /\ lit' = IF life = "pulls_on" THEN "confirmed" ELSE lit
          /\ call # NoCommand /\ wire' = wire
      BY <2>1 DEF OpenProfile, Receive
    <3>2. CASE life = "pulls_on"
      <4>1. vio' /\ life' = "errors" /\ life \in Setup /\ life \in Commanding
        BY <3>1, <3>2 DEF SupplyKnown, After, Setup, Guarded, Commanding
      <4>2. call.op = "pulls_on"
        BY <3>1, <3>2, <4>1, ProfileAnswer DEF OpOf
      <4>3. \A i \in 1 .. Len(wire) : wire[i].op = call.op
        BY <1>0, <3>1, <4>1, SetupPipe DEF OwnAnswer
      <4>. QED
        BY <1>1, <3>1, <4>1, <4>2, <4>3 DEF Setup
    <3>3. CASE life # "pulls_on"
      <4>1. vio' = vio
        <5>1. ~SupplyKnown(life) /\ vio \in BOOLEAN
          BY <1>0, <3>3 DEF SupplyKnown, HostTypeOK
        <5>. QED
          BY <3>1, <5>1, Zenon
      <4>2. lit' = lit
        BY <3>1, <3>3
      <4>3. /\ life' \in Setup \ {"errors", "overflow"} => life \in Setup \ {"errors", "overflow"}
            /\ life' \in {"pulls_off", "close", "closed"} => life \in TurnOff
            /\ life' # "volts_off"
        BY <3>1, <3>3 DEF After, Setup, Guarded, TurnOff
      <4>. QED
        BY <1>0, <1>1, <1>2, <1>3, <3>1, <4>1, <4>2, <4>3 DEF TurnOff
    <3>. QED
      BY <3>2, <3>3
  <2>2. CASE OpenCommand
    <3>1. /\ vio' = vio /\ lit' = lit /\ life \in Commanding
          /\ \/ Write(OpOf(life)) /\ life' = life
             \/ WriteFails(OpOf(life)) /\ life' = Broken(life)
                /\ offFailed' = (offFailed \/ OpOf(life) = "volts_off")
      BY <2>2 DEF OpenCommand, profileVars, history, OffLost
    <3>2. OpOf(life) \in Ops
      BY <3>1, PipeAssumption DEF OpOf, Commanding, Guarded, TurnOff, GlasgowOps
    <3>3. life' = life \/ life' \in {"volts_off", "close", "closed"}
      BY <3>1 DEF Broken
    <3>4. life' \in Setup \ {"errors", "overflow"} => life \in Setup \ {"errors", "overflow"}
      BY <3>3 DEF Setup, Guarded
    <3>5. ASSUME vio, life' \in {"pulls_off", "close", "closed"}
                      \/ (life' = "volts_off" /\ call' # NoCommand)
          PROVE  SwitchedOff'
      <4>1. CASE Write(OpOf(life)) /\ life' = life
        <5>1. CASE life = "volts_off"
          <6>1. \E i \in 1 .. Len(wire') : wire'[i].op = "volts_off"
            BY <1>0, <3>2, <4>1, <5>1, TriedKeeps DEF OpOf
          <6>. QED
            BY <6>1 DEF SwitchedOff
        <5>2. CASE life # "volts_off"
          BY <1>0, <1>2, <3>5, <4>1, <5>2
        <5>. QED
          BY <5>1, <5>2
      <4>2. CASE WriteFails(OpOf(life)) /\ life' = Broken(life)
        <5>1. life' # "volts_off" \/ call' = NoCommand
          BY <4>2 DEF WriteFails
        <5>2. CASE life = "volts_off"
          <6>1. OpOf(life) = "volts_off" /\ ~(Write(OpOf(life)) /\ life' = life)
            BY <4>2, <5>2 DEF OpOf, Broken, Guarded, TurnOff
          <6>2. offFailed'
            BY <3>1, <6>1, Zenon
          <6>. QED
            BY <6>2 DEF SwitchedOff
        <5>3. CASE life = "pulls_off"
          BY <1>0, <1>2, <3>5, <5>3
        <5>4. CASE life \in Guarded
          <6>1. life' = "volts_off"
            BY <3>5, <4>2, <5>4 DEF Broken
          <6>. QED
            BY <3>5, <5>1, <6>1
        <5>5. CASE life \in {"status", "finish", "check"}
          BY <1>0, <3>5, <5>5 DEF SupplyInv, Setup
        <5>. QED
          BY <3>1, <5>2, <5>3, <5>4, <5>5 DEF Commanding, TurnOff
      <4>. QED
        BY <3>1, <4>1, <4>2
    <3>. QED
      BY <1>1, <1>3, <3>1, <3>4, <3>5
  <2>3. CASE OpenTimeout \/ OpenRejected
    <3>1. /\ vio' = vio /\ lit' = lit /\ life \in Commanding /\ life' = Broken(life)
          /\ call # NoCommand /\ call' = NoCommand
      BY <2>3 DEF OpenTimeout, OpenRejected, profileVars, history, Receive, Timeout
    <3>2. life' \notin Setup
      BY <3>1 DEF Broken, Setup, Guarded
    <3>3. ASSUME vio, life' \in {"pulls_off", "close", "closed"} PROVE SwitchedOff'
      <4>1. CASE life \in TurnOff
        BY <1>0, <1>2, <3>1, <3>3, <4>1 DEF TurnOff
      <4>2. CASE life \in Guarded
        BY <3>1, <3>3, <4>2 DEF Broken
      <4>3. CASE life \in {"status", "finish", "check"}
        BY <1>0, <3>3, <4>3 DEF SupplyInv, Setup
      <4>. QED
        BY <3>1, <4>1, <4>2, <4>3 DEF Commanding
    <3>. QED
      BY <1>1, <1>3, <3>1, <3>2, <3>3
  <2>4. CASE Firmware \/ Listing \/ Upload \/ Pipes \/ OpenStatus \/ OpenFinish
    <3>1. /\ vio' = vio /\ lit' = lit
          /\ life \in Setup \ {"errors", "overflow"}
      BY <2>4 DEF Firmware, Listing, Upload, Pipes, OpenStatus, OpenFinish, profileVars, history,
                  Setup
    <3>2. ~vio
      BY <1>0, <3>1 DEF SupplyInv
    <3>. QED
      BY <1>1, <1>3, <3>1, <3>2
  <2>5. CASE Close
    <3>1. vio' = vio /\ lit' = lit /\ life = "close" /\ life' = "closed"
      BY <2>5 DEF Close, profileVars, history
    <3>. QED
      BY <1>0, <1>1, <1>2, <1>3, <3>1 DEF Setup, Guarded
  <2>6. CASE Drop
    <3>1. /\ vio' = vio /\ lit' = lit /\ life = "open" /\ life' = "volts_off" /\ call' = call
          /\ \A c \in Clients : step[c] \notin Asking
      BY <2>6 DEF Drop, profileVars, history, pipeVars, Clients, Asking
    <3>2. mgmt = "none"
      BY <1>0, <3>1 DEF ClientInv, HostTypeOK
    <3>3. call' = NoCommand
      BY <1>0, <3>1, <3>2 DEF CallInv, Commanding, Guarded, TurnOff
    <3>. QED
      BY <1>1, <1>3, <3>1, <3>3 DEF Setup, Guarded
  <2>. QED
    BY <1>4, <2>1, <2>2, <2>3, <2>4, <2>5, <2>6 DEF Open
<1>5. CASE Refresh \/ TxWorker
  <2>1. vio' = vio /\ lit' = lit /\ life' = life /\ life = "open"
    BY <1>0, <1>5, ClientFrame, ClientSteps
  <2>. QED
    BY <1>1, <1>3, <2>1 DEF Setup, Guarded
<1>6. CASE DeviceAnswers \/ Gateware
  <2>1. vio' = vio /\ life' = life
    BY <1>6, DeviceFrame
  <2>2. call' = call
    BY <1>6 DEF DeviceAnswers, Gateware, Answer, pipeVars
  <2>3. lit' = lit \/ lit' # "confirmed"
    BY <1>6 DEF DeviceAnswers, Gateware, Effect, history
  <2>. QED
    BY <1>0, <1>1, <1>2, <1>3, <2>1, <2>2, <2>3
<1>7. CASE UNCHANGED vars
  <2>1. vio' = vio /\ life' = life /\ call' = call /\ lit' = lit
    BY <1>7 DEF vars, hostVars, pipeVars, history
  <2>. QED
    BY <1>0, <1>1, <1>2, <1>3, <2>1
<1>. QED
  BY <1>4, <1>5, <1>6, <1>7 DEF Next, Closed

(* What a client of a session is told by a good answer. *)
LEMMA ClientAnswer ==
    ASSUME GlasgowIInv, NEW c \in Clients, step[c] \in Asking, Receive, Good
    PROVE  /\ call.op = step[c] /\ Value \in Words /\ Head(answers).result = Reg(Value)
           /\ Head(answers) = answers[1] /\ 1 \in 1 .. Len(answers)
           /\ failures < Period /\ step[c] \in {"errors", "overflow"} => Value <= counts[step[c]]
<1>1. PipeInv /\ ClientInv /\ CallInv /\ OwnAnswer
  BY DEF GlasgowIInv
<1>2. mgmt = c /\ life = "open" /\ call # NoCommand /\ mgmt # "none"
  BY <1>1 DEF ClientInv, Asking, Receive, Clients
<1>3. call.op = step[c]
  BY <1>1, <1>2 DEF CallInv, Commanding, Guarded, TurnOff
<1>4. Shape(call.op) = "word"
  BY <1>3 DEF Shape, Asking
<1>5. /\ Value \in Words /\ Head(answers).result = Reg(Value) /\ Head(answers) = answers[1]
      /\ 1 \in 1 .. Len(answers) /\ Head(answers).result.kind = "word"
  BY <1>1, <1>4, GoodAnswer
<1>6. ASSUME failures < Period, step[c] \in {"errors", "overflow"}
      PROVE  Value <= counts[step[c]]
  <2>1. Truth(call.op, Head(answers).result)
    BY <1>1, <1>6, OwnTruth
  <2>. QED
    BY <1>3, <1>5, <1>6, <2>1 DEF Truth, Value
<1>. QED
  BY <1>3, <1>5, <1>6

(* A transmitter that is empty after the last byte stays so, and what says that
   it is empty says so from then on. *)
LEMMA IdleInvStep == ASSUME GlasgowIInv, [Next]_vars PROVE IdleInv'
<1>0. IdleInv /\ ClientInv /\ DeviceOK
  BY DEF GlasgowIInv
<1>1. step.tx # "idle" => step'.tx # "idle"
  <2>1. CASE Refresh \/ TxWorker
    BY <1>0, <2>1, ClientSteps DEF ClientMoves, ClientInv, Clients, Asking
  <2>2. CASE ~(Refresh \/ TxWorker)
    <3>1. step' = step
      BY <2>2, OpenFrame, DeviceFrame DEF Next, Closed, vars, hostVars
    <3>. QED
      BY <3>1
  <2>. QED
    BY <2>1, <2>2
<1>2. fifo = 0 /\ ~shifting /\ step.tx # "idle" => fifo' = 0 /\ ~shifting' /\ step'.tx # "idle"
  <2>. SUFFICES ASSUME fifo = 0, ~shifting, step.tx # "idle" PROVE fifo' = 0 /\ ~shifting'
    BY <1>1
  <2>1. CASE Gateware
    BY <2>1 DEF Gateware
  <2>2. CASE ~Gateware
    <3>1. ~TxByte
      BY DEF TxByte
    <3>2. fifo' = fifo /\ shifting' = shifting
      BY <2>2, <3>1, OpenFrame, ClientFrame DEF Next, DeviceAnswers, Closed, vars, deviceVars
    <3>. QED
      BY <3>2
  <2>. QED
    BY <2>1, <2>2
<1>3. ASSUME NEW i \in 1 .. Len(wire'), wire'[i].op = "tx_state" PROVE step'.tx # "idle"
  <2>1. ~(OpenCommand /\ wire'[i].op = OpOf(life))
    BY <1>3 DEF OpenCommand, OpOf, Commanding, Guarded, TurnOff
  <2>2. CASE \E j \in 1 .. Len(wire) : wire'[i] = wire[j]
    BY <1>0, <1>1, <1>3, <2>2 DEF IdleInv
  <2>3. CASE DrainCommand
    BY <1>1, <2>3 DEF DrainCommand
  <2>. QED
    BY <1>3, <2>1, <2>2, <2>3, WireStep
<1>4. ASSUME NEW i \in 1 .. Len(answers'), answers'[i].result = Reg(IdleBit)
      PROVE  fifo' = 0 /\ ~shifting' /\ step'.tx # "idle"
  <2>1. CASE \E j \in 1 .. Len(answers) : answers'[i] = answers[j]
    BY <1>0, <1>2, <1>4, <2>1 DEF IdleInv
  <2>2. CASE /\ DeviceAnswers /\ wire # <<>> /\ Head(wire).op = "tx_state"
             /\ fifo = 0 /\ ~shifting
    <3>1. 1 \in 1 .. Len(wire) /\ Head(wire) = wire[1]
      <4>1. wire \in Seq(Commands)
        BY PipeFacts DEF GlasgowIInv
      <4>. QED
        BY <2>2, <4>1, TailFacts
    <3>2. step.tx # "idle"
      BY <1>0, <2>2, <3>1 DEF IdleInv
    <3>. QED
      BY <1>2, <2>2, <3>2
  <2>. QED
    BY <1>4, <2>1, <2>2, WireStep
<1>5. ASSUME step'.tx = "drained" PROVE fifo' = 0 /\ ~shifting'
  <2>1. CASE step.tx = "drained"
    BY <1>0, <1>2, <2>1 DEF IdleInv
  <2>2. CASE step.tx # "drained"
    <3>1. DrainState /\ TxIdle(Value)
      <4>1. CASE Refresh
        <5>. PICK c \in {"rx", "co"} : \/ RefreshPoll(c) \/ RefreshLock(c) \/ RefreshCommand(c)
                                       \/ RefreshTimeout(c) \/ RefreshRejected(c)
                                       \/ RefreshErrors(c) \/ RefreshStore(c)
          BY <4>1 DEF Refresh
        <5>1. step' = step \/ \E s : step' = [step EXCEPT ![c] = s]
          BY DEF RefreshPoll, RefreshLock, RefreshCommand, RefreshTimeout, RefreshRejected,
                 RefreshErrors, RefreshStore, RefreshEnds, Goto
        <5>2. step'.tx = step.tx
          BY <1>0, <5>1 DEF ClientInv, Clients
        <5>. QED
          BY <1>5, <2>2, <5>2
      <4>2. CASE TxWorker
        BY <1>0, <1>5, <2>2, <4>2 DEF TxWorker, TxByte, DrainFlush, DrainLock, DrainCommand,
              DrainFails, DrainState, Goto, hostVars, ClientInv, Clients
      <4>3. CASE ~(Refresh \/ TxWorker)
        <5>1. step' = step
          BY <4>3, OpenFrame, DeviceFrame DEF Next, Closed, vars, hostVars
        <5>. QED
          BY <1>5, <2>2, <5>1
      <4>. QED
        BY <4>1, <4>2, <4>3
    <3>2. /\ step["tx"] \in Asking /\ "tx" \in Clients /\ Receive /\ Good /\ Value = IdleBit
          /\ step["tx"] # "idle"
      BY <3>1 DEF DrainState, TxIdle, Asking, Clients
    <3>3. answers[1].result = Reg(IdleBit) /\ 1 \in 1 .. Len(answers)
      BY <3>2, ClientAnswer
    <3>. QED
      BY <1>0, <1>2, <3>3 DEF IdleInv
  <2>. QED
    BY <2>1, <2>2
<1>. QED
  BY <1>3, <1>4, <1>5 DEF IdleInv

(* Failures are counted, never forgotten. *)
LEMMA FailuresGrow ==
    ASSUME GlasgowIInv, [Next]_vars
    PROVE  failures' < Period => failures < Period
<1>1. [PipeNext]_pipeVars /\ failures \in Nat /\ Period \in Nat
  BY PipeStep, PipeFacts, PeriodAssumption DEF GlasgowIInv
<1>2. failures' = failures \/ failures' = failures + 1
  BY <1>1 DEF PipeNext, Write, WriteFails, Answer, Receive, Timeout, pipeVars
<1>. QED
  BY <1>1, <1>2

(* The register that a refresh keeps is one the gateware has had. *)
LEMMA WordInvStep == ASSUME GlasgowIInv, [Next]_vars PROVE WordInv'
<1>. SUFFICES ASSUME failures' < Period PROVE word' <= counts'.errors
  BY DEF WordInv
<1>0. /\ failures < Period /\ word <= counts.errors /\ word \in Words
      /\ counts.errors <= counts'.errors /\ counts.errors \in Nat /\ counts'.errors \in Nat
  BY FailuresGrow, CountsGrow DEF GlasgowIInv, HostTypeOK, WordInv
<1>1. CASE word' = word
  <2>1. word \in Nat
    BY <1>0, WordFacts
  <2>. QED
    BY <1>0, <1>1, <2>1
<1>2. ASSUME NEW c \in {"rx", "co"}, RefreshErrors(c) PROVE word' <= counts'.errors
  <2>1. c \in Clients /\ step[c] = "errors" /\ Receive /\ Good /\ word' = Value
    BY <1>2 DEF RefreshErrors, Clients
  <2>2. Value \in Words /\ Value <= counts.errors
    BY <1>0, <2>1, ClientAnswer DEF Asking
  <2>3. Value \in Nat
    BY <2>2, WordFacts
  <2>. QED
    BY <1>0, <2>1, <2>2, <2>3
<1>3. ASSUME ~\E c \in {"rx", "co"} : RefreshErrors(c) PROVE word' = word
  <2>1. CASE Refresh
    BY <1>3, <2>1 DEF Refresh, RefreshPoll, RefreshLock, RefreshCommand, RefreshTimeout,
          RefreshRejected, RefreshStore
  <2>2. CASE TxWorker
    BY <2>2 DEF TxWorker, TxByte, DrainFlush, DrainLock, DrainCommand, DrainFails, DrainState,
          hostVars
  <2>. QED
    BY <2>1, <2>2, OpenFrame, DeviceFrame DEF Next, Closed, vars, hostVars
<1>. QED
  BY <1>1, <1>2, <1>3

(* What a register says since its baseline. *)
LEMMA SinceBound ==
    ASSUME NEW v \in Nat, NEW n \in Nat, NEW b \in Nat, v <= n, b <= n
    PROVE  Since(v, b) <= n - b
BY DEF Since

(* The counters that are reported have been counted since open. *)
LEMMA CountersStep == ASSUME GlasgowIInv, [Next]_vars PROVE CountersAreSinceOpen'
<1>. SUFFICES ASSUME failures' < Period
              PROVE  /\ published'.errors <= counts'.errors - base'.errors
                     /\ published'.overflow <= counts'.overflow - base'.overflow
  BY DEF CountersAreSinceOpen
<1>0. /\ failures < Period /\ WordInv /\ HostTypeOK /\ Undisturbed /\ CountersAreSinceOpen
      /\ counts.errors <= counts'.errors /\ counts.overflow <= counts'.overflow
      /\ counts.errors \in Nat /\ counts.overflow \in Nat
      /\ counts'.errors \in Nat /\ counts'.overflow \in Nat
  BY FailuresGrow, CountsGrow DEF GlasgowIInv
<1>1. /\ base.errors \in Nat /\ base.overflow \in Nat
      /\ base'.errors \in Nat /\ base'.overflow \in Nat
      /\ base.errors <= counts.errors /\ base.overflow <= counts.overflow
      /\ base'.errors <= counts'.errors /\ base'.overflow <= counts'.overflow
  BY HostTypeStep, ProgressStep DEF GlasgowIInv, HostTypeOK, Progress
<1>2. published.errors \in Nat /\ published.overflow \in Nat /\ word \in Nat
  <2>1. published.errors \in Words /\ published.overflow \in Words /\ word \in Words
    BY <1>0 DEF HostTypeOK
  <2>. QED
    BY <2>1, WordFacts
<1>3. CASE published' = published /\ base' = base
  BY <1>0, <1>1, <1>2, <1>3 DEF CountersAreSinceOpen
<1>4. CASE OpenProfile
  <2>1. published' = published /\ (base' = base \/ life \in Setup)
    BY <1>4 DEF OpenProfile, clientVars, Setup, Guarded
  <2>2. CASE life \in Setup
    <3>1. published'.errors = 0 /\ published'.overflow = 0
      BY <1>0, <2>1, <2>2 DEF Undisturbed
    <3>. QED
      BY <1>1, <1>0, <3>1
  <2>. QED
    BY <1>3, <2>1, <2>2
<1>5. ASSUME NEW c \in {"rx", "co"}, RefreshStore(c)
      PROVE  /\ published'.errors <= counts'.errors - base'.errors
             /\ published'.overflow <= counts'.overflow - base'.overflow
  <2>1. /\ c \in Clients /\ step[c] = "overflow" /\ Receive /\ Good /\ base' = base
        /\ published' = [errors |-> Since(word, base.errors),
                         overflow |-> Since(Value, base.overflow)]
    BY <1>5 DEF RefreshStore, Clients, profileVars
  <2>2. Value \in Words /\ Value <= counts.overflow
    BY <1>0, <2>1, ClientAnswer DEF Asking
  <2>3. Value \in Nat /\ word <= counts.errors
    BY <1>0, <2>2, WordFacts DEF WordInv
  <2>4. /\ Since(word, base.errors) <= counts.errors - base.errors
        /\ Since(Value, base.overflow) <= counts.overflow - base.overflow
    BY <1>0, <1>1, <1>2, <2>2, <2>3, SinceBound
  <2>5. Since(word, base.errors) \in Int /\ Since(Value, base.overflow) \in Int
    BY <1>1, <1>2, <2>3 DEF Since
  <2>. QED
    BY <1>0, <1>1, <2>1, <2>4, <2>5
<1>6. ASSUME ~OpenProfile, ~\E c \in {"rx", "co"} : RefreshStore(c)
      PROVE  published' = published /\ base' = base
  <2>1. CASE Open
    BY <1>6, <2>1, OpenFrame DEF Open, Firmware, Listing, Upload, Pipes, OpenCommand,
          OpenTimeout, OpenRejected, OpenStatus, OpenFinish, Close, Drop, profileVars
  <2>2. CASE Refresh
    BY <1>6, <2>2 DEF Refresh, RefreshPoll, RefreshLock, RefreshCommand, RefreshTimeout,
          RefreshRejected, RefreshErrors, profileVars
  <2>3. CASE TxWorker
    BY <2>3 DEF TxWorker, TxByte, DrainFlush, DrainLock, DrainCommand, DrainFails, DrainState,
          hostVars, profileVars
  <2>. QED
    BY <2>1, <2>2, <2>3, DeviceFrame DEF Next, Closed, vars, hostVars
<1>. QED
  BY <1>3, <1>4, <1>5, <1>6

-----------------------------------------------------------------------------
(* The invariant of a session and what follows from it. *)

(* A session begins with nothing done, asked or counted. *)
LEMMA GlasgowInitInv == ASSUME Init PROVE GlasgowIInv
<1>0. /\ PipeInit /\ life = "firmware" /\ polls = 0 /\ vio = FALSE
      /\ base = [errors |-> 0, overflow |-> 0] /\ step = [c \in Clients |-> "idle"]
      /\ poll = "none" /\ mgmt = "none" /\ word = 0 /\ published = [errors |-> 0, overflow |-> 0]
      /\ firmware \in {"ours", "other"} /\ fpga \in {Blank, Ours, Other}
      /\ divisor = FALSE /\ supply \in BOOLEAN /\ pulls = FALSE /\ pipes = FALSE
      /\ counts = [errors |-> 0, overflow |-> 0] /\ fifo = 0 /\ shifting = FALSE
      /\ offFailed = FALSE /\ lit = "no"
      /\ MaxCount \in Nat /\ MaxTx \in Nat /\ MaxPolls \in Nat /\ 0 \in Words
  <2>1. 0 \in Words
    BY WordFacts, GlasgowBounds DEF Words
  <2>. QED
    BY <2>1, GlasgowBounds DEF Init
<1>1. /\ call = NoCommand /\ wire = <<>> /\ answers = <<>> /\ number = 0 /\ failures = 0
      /\ Len(wire) = 0 /\ Len(answers) = 0
  BY <1>0 DEF PipeInit
<1>2. PipeInv
  BY <1>0, PipeInitInv
<1>3. DeviceOK
  <2>1. counts \in [errors : Nat, overflow : Nat] /\ counts.errors + counts.overflow <= MaxCount
    BY <1>0
  <2>2. fifo \in 0 .. MaxTx
    BY <1>0
  <2>3. shifting \in BOOLEAN /\ fpga \in {Blank, Ours, Other}
    BY <1>0
  <2>. QED
    BY <2>1, <2>2, <2>3 DEF DeviceOK
<1>4. HostTypeOK
  <2>1. /\ divisor \in BOOLEAN /\ supply \in BOOLEAN /\ pulls \in BOOLEAN
        /\ pipes \in BOOLEAN /\ offFailed \in BOOLEAN /\ vio \in BOOLEAN
    BY <1>0
  <2>2. /\ base \in [errors : Nat, overflow : Nat] /\ word \in Words
        /\ published \in [errors : Words, overflow : Words] /\ polls \in 0 .. MaxPolls
    BY <1>0
  <2>3. /\ life \in Setup \cup {"open"} \cup Ending /\ firmware \in {"ours", "other"}
        /\ poll \in {"none", "rx", "co"} /\ mgmt \in {"none"} \cup Clients
        /\ lit \in {"no", "switched", "confirmed"}
    BY <1>0 DEF Setup
  <2>. QED
    BY <2>1, <2>2, <2>3 DEF HostTypeOK
<1>5. ClientInv
  BY <1>0 DEF ClientInv, Clients, Asking
<1>6. CallInv /\ OwnAnswer
  BY <1>1 DEF CallInv, OwnAnswer
<1>7. Undisturbed
  BY <1>0, <1>1 DEF Undisturbed, Setup, Guarded
<1>8. Progress
  BY <1>0, <1>1 DEF Progress, Guarded
<1>9. SupplyInv
  BY <1>0, <1>1 DEF SupplyInv
<1>10. IdleInv
  BY <1>0, <1>1 DEF IdleInv, Clients
<1>11. WordInv /\ CountersAreSinceOpen
  BY <1>0 DEF WordInv, CountersAreSinceOpen
<1>. QED
  BY <1>2, <1>3, <1>4, <1>5, <1>6, <1>7, <1>8, <1>9, <1>10, <1>11 DEF GlasgowIInv

(* Every step of a session keeps it. *)
LEMMA GlasgowStep == ASSUME GlasgowIInv, [Next]_vars PROVE GlasgowIInv'
<1>1. PipeInv /\ DeviceOK
  BY DEF GlasgowIInv
<1>2. PipeInv'
  <2>1. [PipeNext]_pipeVars
    BY <1>1, PipeStep
  <2>2. CASE UNCHANGED pipeVars
    BY <1>1, <2>2 DEF pipeVars, PipeInv, PipeTypeOK, Tracked, Law, Lag, Ordered, Increasing,
          Awaited, AcceptedIsOwn
  <2>. QED
    BY <1>1, <2>1, <2>2, WriteInv, WriteFailsInv, AnswerInv, ReceiveInv, TimeoutInv DEF PipeNext
<1>3. DeviceOK'
  BY <1>1, DeviceStep
<1>. QED
  BY <1>2, <1>3, HostTypeStep, ClientInvStep, CallInvStep, OwnAnswerStep, UndisturbedStep,
     ProgressStep, SupplyInvStep, IdleInvStep, WordInvStep, CountersStep DEF GlasgowIInv

(* The inductive invariant of a session on a Glasgow. *)
THEOREM GlasgowInvariance == Spec => []GlasgowIInv
<1>1. Init => GlasgowIInv
  BY GlasgowInitInv
<1>2. GlasgowIInv /\ [Next]_vars => GlasgowIInv'
  BY GlasgowStep
<1>. QED
  BY <1>1, <1>2, PTL DEF Spec

(* The state stays within its types from the list of devices to Drop, and nothing
   is written to a firmware with another API. *)
THEOREM SetupCorrect == Spec => []SetupInv
<1>1. ASSUME GlasgowIInv PROVE SetupInv
  <2>0. PipeInv /\ DeviceOK /\ HostTypeOK /\ ClientInv /\ Undisturbed /\ Progress
    BY <1>1 DEF GlasgowIInv
  <2>1. MaxCount \in Nat /\ number \in Nat
    BY <2>0, GlasgowBounds, PipeFacts
  <2>2. base \in Counts /\ counts \in Counts
    <3>1. /\ counts \in [errors : Nat, overflow : Nat] /\ base \in [errors : Nat, overflow : Nat]
          /\ counts.errors + counts.overflow <= MaxCount
          /\ base.errors <= counts.errors /\ base.overflow <= counts.overflow
      BY <2>0 DEF DeviceOK, HostTypeOK, Progress
    <3>2. /\ counts.errors \in 0 .. MaxCount /\ counts.overflow \in 0 .. MaxCount
          /\ base.errors \in 0 .. MaxCount /\ base.overflow \in 0 .. MaxCount
      BY <2>1, <3>1
    <3>. QED
      BY <3>1, <3>2 DEF Counts
  <2>3. life \in {"firmware", "listing", "upload", "pipes", "open", "close", "closed"}
                 \cup Commanding
    BY <2>0 DEF HostTypeOK, Setup, Ending, Commanding, Guarded, TurnOff
  <2>4. TypeOK
    BY <2>0, <2>2, <2>3 DEF TypeOK, PipeInv, DeviceOK, HostTypeOK, ClientInv
  <2>5. FirmwareFirst
    BY <2>0 DEF FirmwareFirst, Undisturbed
  <2>. QED
    BY <2>4, <2>5 DEF SetupInv
<1>. QED
  BY <1>1, GlasgowInvariance, PTL

(* A session that is open is on a device with our firmware, our bitstream and the
   whole profile. *)
THEOREM OpenIsConfigured == Spec => []ReadyMeansConfigured
<1>1. ASSUME GlasgowIInv PROVE ReadyMeansConfigured
  BY <1>1 DEF GlasgowIInv, ReadyMeansConfigured, Undisturbed, Progress
<1>. QED
  BY <1>1, GlasgowInvariance, PTL

(* A supply that the profile has switched on is switched off by every way out. *)
THEOREM SupplyIsOff == Spec => []SupplyOffAtEnd
<1>1. ASSUME GlasgowIInv PROVE SupplyOffAtEnd
  <2>. SUFFICES ASSUME life = "closed", wire = <<>>, lit = "confirmed", supply PROVE offFailed
    BY DEF SupplyOffAtEnd
  <2>1. Len(wire) = 0 /\ vio
    BY <1>1 DEF GlasgowIInv, SupplyInv
  <2>. QED
    BY <1>1, <2>1 DEF GlasgowIInv, SupplyInv
<1>. QED
  BY <1>1, GlasgowInvariance, PTL

(* A drain that succeeds leaves no byte in the FIFO or on the line. *)
THEOREM DrainIsIdle == Spec => []DrainMeansIdle
<1>1. ASSUME GlasgowIInv PROVE DrainMeansIdle
  BY <1>1 DEF GlasgowIInv, IdleInv, DrainMeansIdle
<1>. QED
  BY <1>1, GlasgowInvariance, PTL

(* The counters a session reports are its own while fewer than Period commands
   have ended without an answer. *)
THEOREM CountersCorrect == Spec => []CountersAreSinceOpen
<1>1. GlasgowIInv => CountersAreSinceOpen
  BY DEF GlasgowIInv
<1>. QED
  BY <1>1, GlasgowInvariance, PTL

=============================================================================
