------------------------------ MODULE Transmit ------------------------------
(***************************************************************************)
(* The transmit side of the direct-USB backend of the C232HD: clones of a  *)
(* Port write, submit, drain and cancel through UsbTransport of            *)
(* src/uart/c232/usb.rs, and the last one to go drops it.                  *)
(*                                                                         *)
(* nusb's EndpointWrite, the USB stack and the FT232H are environment: a   *)
(* buffer that is submitted as a transfer when it is full, transfers that  *)
(* complete in order, a FIFO and a shift register.  A byte is its number   *)
(* in the order in which write accepted it.                                *)
(***************************************************************************)
EXTENDS Integers, Sequences, SequencesExt

CONSTANTS
    Clones,        \* the clones of the Port, each used by one thread
    BufferSize,    \* USB_TRANSFER_SIZE
    Transfers,     \* USB_TRANSFER_COUNT
    FifoDepth,     \* the bytes the FT232H takes before it stops the host
    Sizes,         \* data.len() of a write
    MaxCalls,      \* bound: calls of all clones
    Faults         \* which failures of the environment may happen

ASSUME SizeAssumption  == /\ BufferSize \in Nat \ {0} /\ Transfers \in Nat \ {0}
                          /\ FifoDepth \in Nat /\ FifoDepth >= BufferSize
                          /\ Sizes \subseteq Nat \ {0}
ASSUME LockAssumption  == "free" \notin Clones
ASSUME BoundAssumption == MaxCalls \in Nat
ASSUME FaultAssumption == Faults \subseteq {"transfer", "control"}

VARIABLES
    step,          \* program counter of each clone
    target,        \* its data.len(), or the bytes accepted when its drain began
    lock,          \* the holder of UsbTransport.write
    patience,      \* the write timeout: IO_TIMEOUT or the caller's of drain
    cancelled,     \* UsbTransport.cancelled
    buffer,        \* EndpointWrite's buffer
    pending,       \* its transfers, oldest first, each [bytes, status]
    fifo, shift,   \* the FT232H's transmitter
    wire,          \* bytes sent
    \* history
    accepted,      \* bytes that write has accepted
    submitted,     \* of these, by the last submit_tx that has returned
    covered,       \* of these, when a drain began that has returned Ok
    lost,          \* bytes that will not be sent
    reported,      \* of these, those of a transfer whose error a call has returned
    calls          \* calls so far

cloneVars  == <<step, target>>
hostVars   == <<buffer, pending>>
deviceVars == <<fifo, shift, wire>>
history    == <<accepted, submitted, covered, lost, reported, calls>>
vars       == <<cloneVars, lock, patience, cancelled, hostVars, deviceVars, history>>

Init ==
    /\ step = [c \in Clones |-> "idle"] /\ target = [c \in Clones |-> 0]
    /\ lock = "free" /\ patience = "io" /\ cancelled = FALSE
    /\ buffer = <<>> /\ pending = <<>>
    /\ fifo = <<>> /\ shift = <<>> /\ wire = <<>>
    /\ accepted = 0 /\ submitted = 0 /\ covered = 0
    /\ lost = {} /\ reported = {} /\ calls = 0

Goto(c, s) == step' = [step EXCEPT ![c] = s]
Returns(c) == Goto(c, "idle") /\ target' = [target EXCEPT ![c] = 0]
Calls(c)   == step[c] = "idle" /\ calls < MaxCalls /\ calls' = calls + 1

\* EndpointWrite submits its buffer.
Queued == IF buffer = <<>> THEN pending
          ELSE Append(pending, [bytes |-> buffer, status |-> "busy"])

\* The call returns the error of the oldest transfer.
Reports == reported' = reported \cup (ToSet(Head(pending).bytes) \cap lost)

\* The oldest transfer has completed with this status.
Completed(status) == pending # <<>> /\ Head(pending).status = status

-----------------------------------------------------------------------------
(* UsbTransport::write *)

\* The flag is looked at before the lock is taken.
WriteCall(c) ==
    /\ Calls(c)
    /\ \E n \in Sizes :
          IF cancelled THEN UNCHANGED cloneVars
          ELSE Goto(c, "write") /\ target' = [target EXCEPT ![c] = n]
    /\ UNCHANGED <<lock, patience, cancelled, hostVars, deviceVars, accepted, submitted,
                   covered, lost, reported>>

\* write and submit_tx and drain take the lock.
Lock(c) ==
    /\ lock = "free" /\ lock' = c
    /\ \/ step[c] = "write" /\ Goto(c, "writing") /\ UNCHANGED patience
       \/ step[c] = "submit" /\ Goto(c, "submitting") /\ UNCHANGED patience
       \/ step[c] = "drain" /\ Goto(c, "flush") /\ patience' = "drain"
    /\ UNCHANGED <<target, cancelled, hostVars, deviceVars, history>>

\* With as many transfers as there may be, write waits for the oldest, whose
\* failure is this call's error ...
WriteReaps(c) ==
    /\ step[c] = "writing" /\ Len(pending) = Transfers
    /\ \/ Completed("done") /\ UNCHANGED <<cloneVars, lock, reported>>
       \/ Completed("failed") /\ Returns(c) /\ lock' = "free" /\ Reports
    /\ pending' = Tail(pending)
    /\ UNCHANGED <<patience, cancelled, buffer, deviceVars, accepted, submitted, covered,
                   lost, calls>>

\* Mutant: a write that timed out counts as a completion.
WriteTimeoutCounts(c) ==
    /\ step[c] = "writing" /\ Len(pending) = Transfers /\ Completed("busy")
    /\ Returns(c) /\ lock' = "free"
    /\ accepted' = accepted + target[c]
    /\ UNCHANGED <<patience, cancelled, hostVars, deviceVars, submitted, covered, lost,
                   reported, calls>>

\* ... or for as long as the timeout.
WriteTimeout(c) ==
    /\ step[c] = "writing" /\ Len(pending) = Transfers /\ Completed("busy")
    /\ Returns(c) /\ lock' = "free"
    /\ UNCHANGED <<patience, cancelled, hostVars, deviceVars, history>>

\* What fits the buffer is accepted; a full buffer is submitted.
WriteAccepts(c) ==
    LET room == BufferSize - Len(buffer)
        n    == IF target[c] < room THEN target[c] ELSE room
        next == buffer \o [i \in 1 .. n |-> accepted + i]
    IN  /\ step[c] = "writing" /\ Len(pending) < Transfers
        /\ accepted' = accepted + n
        /\ IF n < room THEN buffer' = next /\ UNCHANGED pending
           ELSE /\ buffer' = <<>>
                /\ pending' = Append(pending, [bytes |-> next, status |-> "busy"])
        /\ Returns(c) /\ lock' = "free"
        /\ UNCHANGED <<patience, cancelled, deviceVars, submitted, covered, lost, reported,
                       calls>>

-----------------------------------------------------------------------------
(* submit_tx, by Port::flush *)

SubmitCall(c) ==
    /\ Calls(c) /\ Goto(c, "submit")
    /\ UNCHANGED <<target, lock, patience, cancelled, hostVars, deviceVars, accepted,
                   submitted, covered, lost, reported>>

\* Mutant: the default of the trait.
SubmitNothing(c) ==
    /\ step[c] = "submitting" /\ Returns(c) /\ lock' = "free"
    /\ submitted' = accepted
    /\ UNCHANGED <<patience, cancelled, hostVars, deviceVars, accepted, covered, lost,
                   reported, calls>>

Submit(c) ==
    /\ step[c] = "submitting" /\ Returns(c) /\ lock' = "free"
    /\ pending' = Queued /\ buffer' = <<>> /\ submitted' = accepted
    /\ UNCHANGED <<patience, cancelled, deviceVars, accepted, covered, lost, reported, calls>>

-----------------------------------------------------------------------------
(* drain *)

DrainCall(c) ==
    /\ Calls(c) /\ Goto(c, "drain") /\ target' = [target EXCEPT ![c] = accepted]
    /\ UNCHANGED <<lock, patience, cancelled, hostVars, deviceVars, accepted, submitted,
                   covered, lost, reported>>

\* flush submits the buffer ...
FlushSubmits(c) ==
    /\ step[c] = "flush" /\ Goto(c, "flushing")
    /\ pending' = Queued /\ buffer' = <<>>
    /\ UNCHANGED <<target, lock, patience, cancelled, deviceVars, history>>

\* The write timeout is restored, then the lock is released.
Unlocks == lock' = "free" /\ patience' = "io"

\* Mutant: the result of flush is not looked at.
FlushReapsIgnored(c) ==
    /\ step[c] = "flushing" /\ pending # <<>> /\ ~Completed("busy")
    /\ pending' = Tail(pending)
    /\ UNCHANGED <<cloneVars, lock, patience, cancelled, buffer, deviceVars, history>>

\* ... and waits for each transfer; the first failure ends it ...
FlushReaps(c) ==
    /\ step[c] = "flushing"
    /\ \/ Completed("done") /\ UNCHANGED <<cloneVars, lock, patience, reported>>
       \/ Completed("failed") /\ Returns(c) /\ Unlocks /\ Reports
    /\ pending' = Tail(pending)
    /\ UNCHANGED <<cancelled, buffer, deviceVars, accepted, submitted, covered, lost, calls>>

\* Mutant: "?" right behind flush, before the timeout is restored.
FlushTimeoutEarly(c) ==
    /\ step[c] = "flushing" /\ Completed("busy") /\ Returns(c) /\ lock' = "free"
    /\ UNCHANGED <<patience, cancelled, hostVars, deviceVars, history>>

\* ... as does the timeout.
FlushTimeout(c) ==
    /\ step[c] = "flushing" /\ Completed("busy") /\ Returns(c) /\ Unlocks
    /\ UNCHANGED <<cancelled, hostVars, deviceVars, history>>

FlushEnds(c) ==
    /\ step[c] = "flushing" /\ pending = <<>> /\ Goto(c, "status") /\ Unlocks
    /\ UNCHANGED <<target, cancelled, hostVars, deviceVars, history>>

\* Mutant: the holding register's bit, which leaves out the shift register.
EmptyHolding == fifo = <<>>

\* LINE_TEMT of the modem status.
TransmitterEmpty == fifo = <<>> /\ shift = <<>>

\* Mutant: the loop has no deadline.
StatusForever(c) ==
    /\ step[c] = "status" /\ TransmitterEmpty /\ Returns(c)
    /\ covered' = IF target[c] > covered THEN target[c] ELSE covered
    /\ UNCHANGED <<lock, patience, cancelled, hostVars, deviceVars, accepted, submitted,
                   lost, reported, calls>>

\* The request fails, or the transmitter is empty, or the deadline is over; else
\* the clone sleeps and asks again, which changes nothing.
Status(c) ==
    /\ step[c] = "status"
    /\ \/ "control" \in Faults /\ Returns(c) /\ UNCHANGED covered
       \/ /\ TransmitterEmpty /\ Returns(c)
          /\ covered' = IF target[c] > covered THEN target[c] ELSE covered
       \/ ~TransmitterEmpty /\ Returns(c) /\ UNCHANGED covered
    /\ UNCHANGED <<lock, patience, cancelled, hostVars, deviceVars, accepted, submitted,
                   lost, reported, calls>>

-----------------------------------------------------------------------------
(* cancel and Drop *)

\* The flag; nothing of the transmit side is cancelled.
Cancel(c) ==
    /\ Calls(c) /\ cancelled' = TRUE
    /\ UNCHANGED <<cloneVars, lock, patience, hostVars, deviceVars, accepted, submitted,
                   covered, lost, reported>>

\* A clone is dropped.
Leave(c) ==
    /\ step[c] = "idle" /\ Goto(c, "gone")
    /\ UNCHANGED <<target, lock, patience, cancelled, hostVars, deviceVars, history>>

Busy      == {i \in 1 .. Len(pending) : pending[i].status = "busy"}
Oldest(i) == i \in Busy /\ \A j \in Busy : i <= j

\* The bytes that have not been sent to the device.
Unsent == FlattenSeq([i \in 1 .. Len(pending) |->
                         IF i \in Busy THEN pending[i].bytes ELSE <<>>]) \o buffer
UnsentBytes == (UNION {ToSet(pending[i].bytes) : i \in Busy}) \cup ToSet(buffer)

\* The first n of a transfer's bytes reach the FIFO; of the set that goes with
\* them the others are lost.
Arrive(bytes, n, set) ==
    /\ Len(fifo) + n <= FifoDepth
    /\ fifo' = fifo \o SubSeq(bytes, 1, n)
    /\ lost' = lost \cup (set \ ToSet(SubSeq(bytes, 1, n)))

\* The last clone: what is pending is cancelled and waited for, the buffer is
\* dropped; the transfer in progress may have sent some bytes.
Drop ==
    /\ \A c \in Clones : step[c] = "gone"
    /\ buffer # <<>> \/ pending # <<>>
    /\ \/ lost' = lost \cup UnsentBytes /\ UNCHANGED fifo
       \/ \E i \in 1 .. Len(pending) :
             /\ Oldest(i)
             /\ \E n \in 1 .. Len(pending[i].bytes) : Arrive(pending[i].bytes, n, UnsentBytes)
    /\ buffer' = <<>> /\ pending' = <<>>
    /\ UNCHANGED <<cloneVars, lock, patience, cancelled, shift, wire, accepted, submitted,
                   covered, reported, calls>>

-----------------------------------------------------------------------------
(* The environment. *)

\* The oldest transfer in progress reaches the FIFO, or fails on its way.
TransferDone ==
    /\ \E i \in 1 .. Len(pending) :
          /\ Oldest(i)
          /\ LET bytes == pending[i].bytes
             IN  \/ /\ Arrive(bytes, Len(bytes), ToSet(bytes))
                    /\ pending' = [pending EXCEPT ![i].status = "done"]
                 \/ /\ "transfer" \in Faults
                    /\ \E n \in 0 .. Len(bytes) - 1 : Arrive(bytes, n, ToSet(bytes))
                    /\ pending' = [pending EXCEPT ![i].status = "failed"]
    /\ UNCHANGED <<cloneVars, lock, patience, cancelled, buffer, shift, wire, accepted,
                   submitted, covered, reported, calls>>

\* A byte leaves the FIFO, or the shift register.
Shift ==
    /\ \/ /\ shift = <<>> /\ fifo # <<>>
          /\ shift' = <<Head(fifo)>> /\ fifo' = Tail(fifo) /\ UNCHANGED wire
       \/ shift # <<>> /\ wire' = wire \o shift /\ shift' = <<>> /\ UNCHANGED fifo
    /\ UNCHANGED <<cloneVars, lock, patience, cancelled, hostVars, history>>

Clone(c) == \/ WriteCall(c) \/ SubmitCall(c) \/ DrainCall(c) \/ Cancel(c) \/ Leave(c)
            \/ Lock(c) \/ WriteReaps(c) \/ WriteTimeout(c) \/ WriteAccepts(c) \/ Submit(c)
            \/ FlushSubmits(c) \/ FlushReaps(c) \/ FlushTimeout(c) \/ FlushEnds(c)
            \/ Status(c)

Device == TransferDone \/ Shift

Closed == (\A c \in Clones : step[c] = "gone") /\ UNCHANGED vars

Next == (\E c \in Clones : Clone(c)) \/ Drop \/ Device \/ Closed

Spec == Init /\ [][Next]_vars

\* A call goes on once it has begun, and parking_lot's mutex is fair in the end.
\* The device may stop.
Fairness == \A c \in Clones :
               /\ SF_vars(Lock(c))
               /\ WF_vars(step[c] \notin {"idle", "gone"} /\ Clone(c))

FairSpec == Spec /\ Fairness

-----------------------------------------------------------------------------
(* Properties. *)

Steps == {"idle", "gone", "write", "writing", "submit", "submitting", "drain", "flush",
          "flushing", "status"}
Bytes == Nat \ {0}
Transfer == [bytes : Seq(Bytes), status : {"busy", "done", "failed"}]

TypeOK ==
    /\ step \in [Clones -> Steps] /\ target \in [Clones -> Nat]
    /\ lock \in {"free"} \cup Clones /\ patience \in {"io", "drain"} /\ cancelled \in BOOLEAN
    /\ buffer \in Seq(Bytes) /\ Len(buffer) < BufferSize
    /\ pending \in Seq(Transfer) /\ Len(pending) <= Transfers
    /\ fifo \in Seq(Bytes) /\ Len(fifo) <= FifoDepth
    /\ shift \in Seq(Bytes) /\ wire \in Seq(Bytes)
    /\ accepted \in Nat /\ submitted \in 0 .. accepted /\ covered \in 0 .. accepted
    /\ lost \subseteq Bytes /\ reported \subseteq lost /\ calls \in 0 .. MaxCalls

\* All bytes between the line and the buffer, in the order in which they leave.
All == wire \o shift \o fifo \o Unsent

(* Through full and partial buffers, timeouts, failed transfers and Drop, every
   byte that a write has accepted is in one place, and all are in order. *)
BytesInOrder ==
    /\ ToSet(All) = (1 .. accepted) \ lost
    /\ \A i, j \in 1 .. Len(All) : i < j => All[i] < All[j]

(* A drain that returns Ok means that all that any clone had written before is
   on the line, apart from bytes whose loss a call has returned, although other
   clones write, submit and drain in between. *)
DrainCovers == 1 .. covered \subseteq ToSet(wire) \cup reported

(* No transfer fails in silence: its error waits in the queue for the next call
   that reaps it, and only Drop throws it away. *)
LossIsReported ==
    (\E c \in Clones : step[c] # "gone") =>
        lost \subseteq reported \cup UNION {ToSet(t.bytes) : t \in
                            {u \in ToSet(pending) : u.status = "failed"}}

(* A write waits with its own timeout, never with the one of a drain that has
   ended, however it ended: the drain's is in force only while a clone flushes
   under the lock. *)
OwnPatience ==
    /\ \A c \in Clones :
          lock = c <=> step[c] \in {"writing", "submitting", "flush", "flushing"}
    /\ patience = "drain" <=> \E c \in Clones : step[c] \in {"flush", "flushing"}

(* The state of the port, whatever clones do at once. *)
WriterInv == TypeOK /\ OwnPatience

(* Every call returns, although the device may have stopped and another clone
   may hold the lock. *)
CallsReturn ==
    \A c \in Clones : []<>(step[c] \in {"idle", "gone"})

(* What has been submitted leaves without another call, if the device runs:
   nothing waits in a buffer for the drain. *)
SubmittedLeaves ==
    WF_vars(TransferDone) /\ WF_vars(Shift) =>
        []<>(1 .. submitted \subseteq ToSet(wire) \cup lost)

=============================================================================
